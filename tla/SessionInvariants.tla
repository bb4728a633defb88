------------------------- MODULE SessionInvariants -------------------------
(***************************************************************************)
(* The invariants that the proofs about SessionManager rest on: they are   *)
(* preserved by every step together, which the properties of the registry  *)
(* are not by themselves.                                                  *)
(***************************************************************************)
EXTENDS SessionManager

\* The holder of the monitor is the one loop inside addSession or the removal
\* of removeSession.
MonitorInv == \A l \in Loops : th[l].pc \in {"join", "drop", "broadcast"} <=> monitor = l

\* A session is in the map under its own account, and a login works on a
\* session of the account it logs in.
AccountInv ==
  /\ \A a \in Accounts : sessions[a] # None => sess[sessions[a]].account = a
  /\ \A l \in Loops : th[l].pc \in FoundSteps => sess[th[l].ref].account = th[l].sid

\* The client of a channel logs in with one device id, which is not blank.
\* Without this a channel can be the channel of several sessions, or of one
\* that its end does not remove.
OneLoginId ==
  \A c \in Channels : \E a \in Accounts \ {Blank} : LoginIds[c] \subseteq {a}

\* A handler runs on the loop of its channel; a login runs on an open channel
\* that is not bound to the device id yet; a close is for the device id that
\* the channel is bound to; and only pages join a session, a page session.
HandlerInv ==
  \A l \in Loops : ~LoopIdle(l) =>
    /\ LoopOf[th[l].ctx] = l
    /\ th[l].pc \in LoginSteps => th[l].ctx \in open /\ th[l].sid \in LoginIds[th[l].ctx]
    /\ th[l].pc \in {"get", "ungroup", "unmap", "add"} => attr[th[l].ctx] # th[l].sid
    /\ th[l].pc \in CloseSteps => th[l].sid = attr[th[l].ctx]
    /\ th[l].pc \in {"putpage", "storepage", "update"} =>
         th[l].ctx \notin SocketChannels /\ sess[th[l].ref].chan \notin SocketChannels

\* A channel is bound to a device id that its client has sent.
BindInv == \A c \in Channels : attr[c] # None => attr[c] \in LoginIds[c]

\* A watch channel is the channel of one session object in use at most, which
\* has the account that the channel is bound to.
OwnerInv ==
  \A m \in Reachable \ {None} :
    /\ sess[m].chan \in SocketChannels => sess[m].account = attr[sess[m].chan] /\ attr[sess[m].chan] # None
    /\ \A n \in Reachable \ {None} :
         sess[m].chan = sess[n].chan /\ sess[m].chan \in SocketChannels => m = n

\* A handler that is about to take its own watch channel out of the group has
\* no session in the map any more, unless the channel is closed.
LeaveInv ==
  \A l \in Loops, a \in Accounts :
    th[l].pc \in {"broadcast", "leave"} /\ th[l].ctx \in SocketChannels \cap open
      => ~Registered(a, th[l].ctx)

\* What the handlers rely on between their steps, in one conjunction.  Together
\* with TypeOK, OfflineTruth, SocketSessionLive and RegisteredInGroup, which it
\* supports, it is inductive.
SupportInv ==
  MonitorInv /\ AccountInv /\ HandlerInv /\ BindInv /\ OwnerInv /\ LeaveInv

=============================================================================
