------------------------- MODULE DeliveryMailboxes -------------------------
(* The delivery of messages implements Mailboxes.                          *)
EXTENDS Delivery

\* The clients of the receiver, of the device id if there is none, or all.
MayRead ==
  [m \in Messages |->
     IF m.receiver = None /\ m.group /\ m.type \notin {"LK", "UD"} THEN {c \in Channels : Login[c] # None}
     ELSE Members(IF m.receiver = None \/ m.type = "LK" THEN m.device ELSE m.receiver)]

\* Session.write() is going to write m to channel c, or waits for that.
Writing(c, m) ==
  \E l \in Loops : /\ ~LoopIdle(l) /\ th[l].msg = m
                   /\ c \in th[l].left \cup {Owner[th[l].acc]}

\* It will be written to c, or is written and Netty has not got it out yet.
UnderWay(c, m) == c \in open /\ ~In(m, out[c]) /\ (Pending(c, m) \/ Writing(c, m))

Boxes == [c \in Channels |-> {m \in Messages : UnderWay(c, m)}]

M == INSTANCE Mailboxes WITH
       Clients <- Channels, Readers <- MayRead,
       present <- open, posted <- sent, box <- Boxes, got <- out, ended <- ended

\* Every step of the handlers, of Session.write and of Netty is a step of
\* Mailboxes or changes nothing that it shows: a message is lost for a reader
\* only when the reader goes, or with the end of a write that fails.
ImplementsMailboxes == M!Spec

=============================================================================
