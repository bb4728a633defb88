----------------------------- MODULE Mailboxes -----------------------------
(***************************************************************************)
(* What the server promises about the messages of clients.  A client has a *)
(* mailbox.  What is posted is put into the mailboxes of readers of the    *)
(* message, and the messages of one writer are handed out in the order in  *)
(* which they were posted.  A message leaves a mailbox otherwise only when *)
(* the reader goes, or when the writing of the message fails; then the     *)
(* writer has not gone on to a further message.                            *)
(***************************************************************************)
EXTENDS Naturals, Sequences

CONSTANTS
  Clients,   \* who posts and reads
  Messages,  \* what may be posted, once each, with its `from` client
  Readers    \* the clients who may read each message

VARIABLES
  present,  \* clients that have not gone
  posted,   \* the messages that were posted, in order
  box,      \* for each reader, the messages under way
  got,      \* what each client was handed, in order
  ended     \* how the writing of each message ended: "no", "ok" or "failed"

vars == <<present, posted, box, got, ended>>

Posted(m) == \E i \in DOMAIN posted : posted[i] = m

Before(m, n) == \E i, j \in DOMAIN posted : i < j /\ posted[i] = m /\ posted[j] = n

\* The writer of m has not posted anything since.
IsLast(m) ==
  /\ Posted(m)
  /\ \A n \in Messages : Posted(n) /\ n.from = m.from => n = m \/ Before(n, m)

\* The writing of m ends now, or did not end yet.
MayEnd(m) == ended' \in {ended, [ended EXCEPT ![m] = "ok"]}

Init ==
  /\ present = Clients
  /\ posted = <<>>
  /\ box = [c \in Clients |-> {}]
  /\ got = [c \in Clients |-> <<>>]
  /\ ended = [m \in Messages |-> "no"]

\* Some readers may be handed the message at once, if nothing of its writer is
\* under way to them.
Post(m) ==
  /\ m.from \in present /\ ~Posted(m)
  /\ posted' = Append(posted, m)
  /\ \E readers \in SUBSET (Readers[m] \cap present) :
     \E now \in SUBSET {c \in readers : \A n \in box[c] : n.from # m.from} :
       /\ got' = [c \in Clients |-> IF c \in now THEN Append(got[c], m) ELSE got[c]]
       /\ box' = [c \in Clients |-> IF c \in readers \ now THEN box[c] \cup {m} ELSE box[c]]
  /\ MayEnd(m)
  /\ UNCHANGED present

\* A reader comes while messages are being written: it may get them, too.
Join(c) ==
  /\ c \in present
  /\ \E missed \in SUBSET {m \in Messages : /\ IsLast(m) /\ ended[m] = "no" /\ c \in Readers[m]
                                            /\ \A i \in DOMAIN got[c] : got[c][i] # m} :
       box' = [box EXCEPT ![c] = @ \cup missed]
  /\ UNCHANGED <<present, posted, got, ended>>

\* A reader is handed a message, the first that is under way from its writer.
Hand(c, m) ==
  /\ m \in box[c]
  /\ \A n \in box[c] : n.from = m.from => n = m \/ Before(m, n)
  /\ box' = [box EXCEPT ![c] = @ \ {m}]
  /\ got' = [got EXCEPT ![c] = Append(@, m)]
  /\ MayEnd(m)
  /\ UNCHANGED <<present, posted>>

\* The writing of m has come to its end.
Done(m) ==
  /\ Posted(m) /\ ended[m] = "no"
  /\ ended' = [ended EXCEPT ![m] = "ok"]
  /\ UNCHANGED <<present, posted, box, got>>

\* The writing of m fails, for some of its readers.
Fail(m) ==
  /\ IsLast(m) /\ ended[m] = "no"
  /\ ended' = [ended EXCEPT ![m] = "failed"]
  /\ \E some \in SUBSET Readers[m] :
       box' = [c \in Clients |-> IF c \in some THEN box[c] \ {m} ELSE box[c]]
  /\ UNCHANGED <<present, posted, got>>

Go(c) ==
  /\ c \in present
  /\ present' = present \ {c}
  /\ box' = [box EXCEPT ![c] = {}]
  /\ UNCHANGED <<posted, got, ended>>

Next ==
  \/ \E m \in Messages : Post(m) \/ Done(m) \/ Fail(m)
  \/ \E c \in Clients : Join(c) \/ Go(c)
  \/ \E c \in Clients, m \in Messages : Hand(c, m)

Spec == Init /\ [][Next]_vars

=============================================================================
