----------------------- MODULE SessionManagerProofs -----------------------
(***************************************************************************)
(* Theorems about SessionManager, for any channels, accounts, loops and    *)
(* session objects.                                                        *)
(***************************************************************************)
EXTENDS SessionPresence, SessionRaces, FiniteSetTheorems, TLAPS

-----------------------------------------------------------------------------
(* Type correctness.                                                       *)

LEMMA LoopOfType == \A c \in Channels : LoopOf[c] \in Loops
BY LoopAssumption DEF LoopAssumption

\* The initial state is well typed.
LEMMA InitTypeOK == Init => TypeOK
BY DEF Init, TypeOK, HandlersOK, Session, NoSession, Thread, Idle, LoopIdle, FoundSteps

\* The values a session object is created with.
LEMMA NewSessionType ==
  ASSUME NEW c \in Channels, NEW a \in Accounts
  PROVE  NewSession(c, a) \in Session
BY DEF NewSession, Session

\* The page table of a session object changes.
LEMMA PagesType ==
  ASSUME sess \in [SessionIds -> Session], NEW s, NEW pages, pages \subseteq Channels
  PROVE  [sess EXCEPT ![s].pages = pages] \in [SessionIds -> Session]
<1>1. ASSUME NEW n \in SessionIds
      PROVE  [sess EXCEPT ![s].pages = pages][n] \in Session
  <2>1. sess[n] \in Session
    OBVIOUS
  <2>2. [sess[n] EXCEPT !.pages = pages] \in Session
    BY <2>1 DEF Session
  <2>3. [sess EXCEPT ![s].pages = pages][n] = IF n = s THEN [sess[n] EXCEPT !.pages = pages] ELSE sess[n]
    OBVIOUS
  <2>4. QED
    BY <2>1, <2>2, <2>3
<1>2. QED
  BY <1>1

\* A handler that starts.
LEMMA RunningType ==
  ASSUME NEW step \in LoginSteps \cup CloseSteps, NEW c \in Channels, NEW a \in Accounts
  PROVE  Running(step, c, a) \in Thread
BY DEF Running, Thread

\* An unused session object can be chosen while there is one.
LEMMA FreshSessionUnused ==
  ASSUME Unused # {}
  PROVE  FreshSession \in SessionIds /\ FreshSession \notin Reachable
BY DEF FreshSession, Unused

\* The steps of a login keep the variables well typed.
LEMMA LoginTypeOK ==
  ASSUME TypeOK, NEW l \in Loops,
         CreateSession(l) \/ KickFromGroup(l) \/ KickFromMap(l) \/ AddSession(l)
           \/ AddSessionJoin(l) \/ AddPageRead(l) \/ AddPageStore(l)
           \/ UpdateSession(l) \/ AddPageJoin(l)
  PROVE  TypeOK'
<1> USE DEF TypeOK, transport
<1>0. /\ th \in [Loops -> Thread] /\ HandlersOK
      /\ th[l] \in Thread
  BY DEF HandlersOK
<1>1. CASE CreateSession(l)
  <2>1. HandlersOK'
    BY <1>1, <1>0 DEF CreateSession, HandlersOK, Thread, LoopIdle, LoginSteps, FoundSteps, Goto
  <2>2. QED
    BY <1>1, <2>1 DEF CreateSession
<1>2. CASE KickFromGroup(l)
  <2>1. HandlersOK'
    BY <1>2, <1>0 DEF KickFromGroup, HandlersOK, Thread, LoopIdle, LoginSteps, FoundSteps, Goto
  <2>2. QED
    BY <1>2, <2>1 DEF KickFromGroup
<1>3. CASE KickFromMap(l)
  <2>1. HandlersOK'
    BY <1>3, <1>0 DEF KickFromMap, HandlersOK, Thread, LoopIdle, LoginSteps, FoundSteps
  <2>2. QED
    BY <1>3, <2>1 DEF KickFromMap
<1>4. CASE AddSession(l)
  <2>1. HandlersOK'
    BY <1>4, <1>0 DEF AddSession, HandlersOK, Thread, LoopIdle, LoginSteps, FoundSteps, Goto
  <2>2. th[l].ctx \in Channels /\ th[l].sid \in Accounts
    BY <1>4 DEF AddSession, HandlersOK, LoopIdle
  <2>3. FreshSession \in SessionIds
    BY <1>4, FreshSessionUnused DEF AddSession
  <2>4. sess' \in [SessionIds -> Session]
    BY <1>4, <2>2, <2>3, NewSessionType DEF AddSession
  <2>5. QED
    BY <1>4, <2>1, <2>2, <2>3, <2>4 DEF AddSession, Bind
<1>5. CASE AddSessionJoin(l)
  <2>1. HandlersOK'
    BY <1>5, <1>0 DEF AddSessionJoin, HandlersOK, Thread, LoopIdle, LoginSteps, FoundSteps, Finish, Idle
  <2>2. QED
    BY <1>5, <1>0, <2>1 DEF AddSessionJoin, Join, HandlersOK, LoopIdle
<1>6. CASE AddPageRead(l)
  <2>0. sess[th[l].ref].pages \subseteq Channels
    BY <1>6 DEF AddPageRead, HandlersOK, FoundSteps, Session
  <2>1. HandlersOK'
    BY <1>6, <1>0, <2>0 DEF AddPageRead, HandlersOK, Thread, LoopIdle, LoginSteps, FoundSteps
  <2>2. QED
    BY <1>6, <1>0, <2>1 DEF AddPageRead, Bind, HandlersOK, LoopIdle
<1>7. CASE AddPageStore(l)
  <2>1. HandlersOK'
    <3>1. th' = [th EXCEPT ![l] = [@ EXCEPT !.pc = "update", !.view = {}]]
      BY <1>7 DEF AddPageStore
    <3>2. th[l].ref \in SessionIds /\ ~LoopIdle(l)
      BY <1>7 DEF AddPageStore, HandlersOK, LoopIdle, FoundSteps
    <3>3. QED
      BY <1>0, <3>1, <3>2 DEF HandlersOK, Thread, LoopIdle, LoginSteps, FoundSteps
  <2>2. th[l].view \cup {th[l].ctx} \subseteq Channels
    BY <1>7, <1>0 DEF AddPageStore, HandlersOK, Thread, LoopIdle
  <2>3. sess' \in [SessionIds -> Session]
    BY <1>7, <2>2, PagesType DEF AddPageStore
  <2>4. QED
    BY <1>7, <2>1, <2>3 DEF AddPageStore
<1>8. CASE UpdateSession(l)
  <2>1. HandlersOK'
    BY <1>8, <1>0 DEF UpdateSession, HandlersOK, Thread, LoopIdle, LoginSteps, FoundSteps
  <2>2. QED
    BY <1>8, <1>0, <2>1 DEF UpdateSession, Thread
<1>9. CASE AddPageJoin(l)
  <2>1. HandlersOK'
    BY <1>9, <1>0 DEF AddPageJoin, HandlersOK, Thread, LoopIdle, LoginSteps, FoundSteps, Finish, Idle
  <2>2. QED
    BY <1>9, <1>0, <2>1 DEF AddPageJoin, Join, HandlersOK, LoopIdle
<1>10. QED
  BY <1>1, <1>2, <1>3, <1>4, <1>5, <1>6, <1>7, <1>8, <1>9

\* So do the steps of a close.
LEMMA CloseTypeOK ==
  ASSUME TypeOK, NEW l \in Loops,
         CloseLookup(l) \/ RemoveSession(l) \/ RemoveFromMap(l)
           \/ BroadcastOffline(l) \/ LeaveGroup(l)
  PROVE  TypeOK'
<1> USE DEF TypeOK, transport
<1>0. th \in [Loops -> Thread] /\ HandlersOK
  BY DEF HandlersOK
<1>1. HandlersOK'
  <2>1. \/ th' = [th EXCEPT ![l] = Idle]
        \/ /\ ~LoopIdle(l)
           /\ \E step \in CloseSteps : th' = [th EXCEPT ![l].pc = step]
    BY DEF CloseLookup, RemoveSession, RemoveFromMap, BroadcastOffline, LeaveGroup,
           Goto, Finish, CloseSteps, LoopIdle
  <2>2. CASE th' = [th EXCEPT ![l] = Idle]
    BY <1>0, <2>2 DEF HandlersOK, Thread, Idle, LoopIdle, FoundSteps
  <2>3. ASSUME ~LoopIdle(l), NEW step \in CloseSteps, th' = [th EXCEPT ![l].pc = step]
        PROVE  HandlersOK'
    BY <1>0, <2>3 DEF HandlersOK, Thread, LoopIdle, FoundSteps, CloseSteps
  <2>4. QED
    BY <2>1, <2>2, <2>3
<1>2. CASE CloseLookup(l)
  BY <1>1, <1>2 DEF CloseLookup
<1>3. CASE RemoveSession(l)
  <2> DEFINE s == sessions[th[l].sid]
             rest == sess[s].pages \ {th[l].ctx}
  <2>1. th[l].ctx \in Channels
    BY <1>3 DEF RemoveSession, HandlersOK, LoopIdle
  <2>2. monitor' \in Loops \cup {None}
    BY <1>3 DEF RemoveSession
  <2>3. open' \subseteq Channels /\ closing' \subseteq Channels /\ inactive' \subseteq Channels /\ group' \subseteq Channels
    BY <1>3 DEF RemoveSession, CloseChannel, TransportClosed
  <2>4. sess' \in [SessionIds -> Session]
    <3>1. \/ sess' = sess
          \/ s # None /\ sess' = [sess EXCEPT ![s].pages = rest]
      BY <1>3 DEF RemoveSession
    <3>2. ASSUME s # None
          PROVE  rest \subseteq Channels
      <4>1. th[l].sid \in Accounts
        BY <1>3 DEF RemoveSession, HandlersOK, LoopIdle
      <4>2. sess[s] \in Session
        BY <3>2, <4>1
      <4>3. QED
        BY <4>2 DEF Session
    <3>3. CASE sess' = sess
      BY <3>3
    <3>4. CASE s # None /\ sess' = [sess EXCEPT ![s].pages = rest]
      <4> HIDE DEF rest
      <4>1. sess \in [SessionIds -> Session] /\ rest \subseteq Channels
        BY <3>2, <3>4
      <4>2. [sess EXCEPT ![s].pages = rest] \in [SessionIds -> Session]
        BY <4>1, PagesType
      <4>3. QED
        BY <3>4, <4>2
    <3>5. QED
      BY <3>1, <3>3, <3>4
  <2>5. QED
    BY <1>1, <1>3, <2>2, <2>3, <2>4 DEF RemoveSession
<1>4. CASE RemoveFromMap(l)
  BY <1>1, <1>4 DEF RemoveFromMap
<1>5. CASE BroadcastOffline(l)
  BY <1>1, <1>5 DEF BroadcastOffline
<1>6. CASE LeaveGroup(l)
  BY <1>1, <1>6 DEF LeaveGroup
<1>7. QED
  BY <1>2, <1>3, <1>4, <1>5, <1>6

\* So do the events of a channel.
LEMMA EventTypeOK ==
  ASSUME TypeOK, NEW c \in Channels, ChannelEvent(c)
  PROVE  TypeOK'
<1> USE DEF TypeOK, transport
<1>0. LoopOf[c] \in Loops /\ HandlersOK
  BY LoopOfType
<1>1. ASSUME NEW step \in {"get", "close"}, NEW a \in Accounts,
             th' = [th EXCEPT ![LoopOf[c]] = Running(step, c, a)]
      PROVE  HandlersOK'
  BY <1>0, <1>1, RunningType DEF HandlersOK, Running, LoginSteps, CloseSteps, FoundSteps, LoopIdle
<1>2. ASSUME UNCHANGED th
      PROVE  HandlersOK'
  BY <1>0, <1>2 DEF HandlersOK, LoopIdle
<1>3. ASSUME NEW a \in Accounts, Heartbeat(c, a)
      PROVE  TypeOK'
  BY <1>1, <1>3 DEF Heartbeat
<1>4. CASE PeerClose(c)
  BY <1>2, <1>4 DEF PeerClose, TransportClosed
<1>5. CASE RunQueuedClose(c)
  BY <1>2, <1>5 DEF RunQueuedClose, TransportClosed
<1>6. CASE ChannelInactive(c)
  BY <1>1, <1>2, <1>6 DEF ChannelInactive, Unbound
<1>7. CASE ReaderIdle(c)
  BY <1>1, <1>7 DEF ReaderIdle
<1>8. QED
  BY <1>3, <1>4, <1>5, <1>6, <1>7 DEF ChannelEvent

\* Every step keeps the variables well typed.
LEMMA NextTypeOK == TypeOK /\ [Next]_vars => TypeOK'
<1> SUFFICES ASSUME TypeOK, [Next]_vars
             PROVE  TypeOK'
  OBVIOUS
<1>1. ASSUME NEW l \in Loops, LoopStep(l)
      PROVE  TypeOK'
  BY <1>1, LoginTypeOK, CloseTypeOK DEF LoopStep
<1>2. ASSUME NEW c \in Channels, ChannelEvent(c)
      PROVE  TypeOK'
  BY <1>2, EventTypeOK
<1>3. CASE UNCHANGED vars
  BY <1>3 DEF vars, TypeOK, HandlersOK, LoopIdle, FoundSteps
<1>4. QED
  BY <1>1, <1>2, <1>3 DEF Next, Drained

\* The variables have their types in every reachable state, and every running
\* handler has a channel and a device id.
THEOREM TypeCorrect == Spec => []TypeOK
BY InitTypeOK, NextTypeOK, PTL DEF Spec

-----------------------------------------------------------------------------
(* The monitor, and what it protects.                                      *)

\* The monitor and what it protects are kept by every step.
OfflineInv == TypeOK /\ MonitorInv /\ OfflineTruth

LEMMA LoopIsNotNone == None \notin Loops
BY NoneAssumption DEF NoneAssumption

LEMMA LoopStepOffline ==
  ASSUME OfflineInv, NEW l \in Loops, LoopStep(l)
  PROVE  MonitorInv' /\ OfflineTruth'
<1> USE LoopIsNotNone DEF OfflineInv, MonitorInv, OfflineTruth
<1>0. /\ th \in [Loops -> Thread] /\ sessions \in [Accounts -> SessionIds \cup {None}]
      /\ th[l] \in Thread
      /\ ~LoopIdle(l) => th[l].sid \in Accounts
      /\ \A k \in Loops : th[k].pc = "broadcast" => th[k].sid \in Accounts
  BY DEF TypeOK, HandlersOK, LoopIdle
<1> USE DEF Thread, Goto, Finish, Idle
<1>1. CASE CreateSession(l)
  BY <1>0, <1>1 DEF CreateSession
<1>2. CASE KickFromGroup(l)
  BY <1>0, <1>2 DEF KickFromGroup
<1>3. CASE KickFromMap(l)
  BY <1>0, <1>3 DEF KickFromMap
<1>4. CASE AddSession(l)
  BY <1>0, <1>4 DEF AddSession, CanEnter
<1>5. CASE AddSessionJoin(l)
  BY <1>0, <1>5 DEF AddSessionJoin
<1>6. CASE AddPageRead(l)
  BY <1>0, <1>6 DEF AddPageRead
<1>7. CASE AddPageStore(l)
  BY <1>0, <1>7 DEF AddPageStore
<1>8. CASE UpdateSession(l)
  BY <1>0, <1>8 DEF UpdateSession, CanEnter
<1>9. CASE AddPageJoin(l)
  BY <1>0, <1>9 DEF AddPageJoin
<1>10. CASE CloseLookup(l)
  BY <1>0, <1>10 DEF CloseLookup
<1>11. CASE RemoveSession(l)
  <2>1. th[l].pc = "remove" /\ monitor = None /\ UNCHANGED sessions
    BY <1>11 DEF RemoveSession, CanEnter
  <2>2. \/ monitor' = l /\ th' = [th EXCEPT ![l].pc = "drop"]
        \/ monitor' = None /\ th' = [th EXCEPT ![l].pc = "leave"]
    BY <1>11, <2>1 DEF RemoveSession
  <2>3. QED
    BY <1>0, <2>1, <2>2
<1>12. CASE RemoveFromMap(l)
  BY <1>0, <1>12 DEF RemoveFromMap, LoopIdle
<1>13. CASE BroadcastOffline(l)
  BY <1>0, <1>13 DEF BroadcastOffline
<1>14. CASE LeaveGroup(l)
  BY <1>0, <1>14 DEF LeaveGroup
<1>15. QED
  BY <1>1, <1>2, <1>3, <1>4, <1>5, <1>6, <1>7, <1>8, <1>9, <1>10, <1>11, <1>12, <1>13,
     <1>14 DEF LoopStep

LEMMA EventOffline ==
  ASSUME OfflineInv, NEW c \in Channels, ChannelEvent(c)
  PROVE  MonitorInv' /\ OfflineTruth'
<1>1. /\ LoopOf[c] \in Loops
      /\ UNCHANGED <<monitor, sessions>>
      /\ \/ UNCHANGED th
         \/ /\ LoopIdle(LoopOf[c])
            /\ \E step \in {"get", "close"}, a \in Accounts \cup {None} :
                 th' = [th EXCEPT ![LoopOf[c]] = Running(step, c, a)]
  BY LoopOfType DEF ChannelEvent, Heartbeat, PeerClose, RunQueuedClose, ChannelInactive,
                    ReaderIdle, OfflineInv, TypeOK
<1>2. th \in [Loops -> Thread]
  BY DEF OfflineInv, TypeOK, HandlersOK
<1>3. \A l \in Loops :
        \/ th'[l] = th[l]
        \/ th[l].pc = "idle" /\ th'[l].pc \in {"get", "close"}
  <2>1. CASE UNCHANGED th
    BY <2>1
  <2>2. ASSUME LoopIdle(LoopOf[c]), NEW step \in {"get", "close"}, NEW a \in Accounts \cup {None},
               th' = [th EXCEPT ![LoopOf[c]] = Running(step, c, a)]
        PROVE  \A l \in Loops :
                 \/ th'[l] = th[l]
                 \/ th[l].pc = "idle" /\ th'[l].pc \in {"get", "close"}
    BY <1>1, <1>2, <2>2 DEF Running, LoopIdle
  <2>3. QED
    BY <1>1, <2>1, <2>2
<1>4. QED
  BY <1>1, <1>3 DEF OfflineInv, MonitorInv, OfflineTruth

LEMMA OfflineInductive == OfflineInv /\ [Next]_vars => OfflineInv'
<1> SUFFICES ASSUME OfflineInv, [Next]_vars
             PROVE  OfflineInv'
  OBVIOUS
<1>1. TypeOK'
  BY NextTypeOK DEF OfflineInv
<1>2. CASE UNCHANGED vars
  BY <1>1, <1>2 DEF OfflineInv, MonitorInv, OfflineTruth, vars
<1>3. CASE \E l \in Loops : LoopStep(l)
  BY <1>1, <1>3, LoopStepOffline DEF OfflineInv
<1>4. CASE \E c \in Channels : ChannelEvent(c)
  BY <1>1, <1>4, EventOffline DEF OfflineInv
<1>5. QED
  BY <1>2, <1>3, <1>4 DEF Next, Drained

LEMMA OfflineInvariant == Spec => []OfflineInv
<1>1. Init => OfflineInv
  BY InitTypeOK, LoopIsNotNone DEF Init, OfflineInv, MonitorInv, OfflineTruth, Idle
<1>2. QED
  BY <1>1, OfflineInductive, PTL DEF Spec

\* However logins and disconnects interleave, no account is in the map while
\* removeSession broadcasts that it is offline.
THEOREM OfflineIsTrue == Spec => []OfflineTruth
<1>1. OfflineInv => OfflineTruth
  BY DEF OfflineInv
<1>2. QED
  BY <1>1, OfflineInvariant, PTL

-----------------------------------------------------------------------------
(* The accounts of session objects, and the refinement of Presence.        *)

\* The invariant of the refinement: AccountInv is what makes a removal or a put
\* under the account of a session concern the account of the login.
PresenceInv == OfflineInv /\ AccountInv

\* Only addSession creates a session object, and it takes an unused one.
LEMMA SessionsPersist ==
  ASSUME TypeOK, [Next]_vars, NEW n \in SessionIds, n \in Reachable
  PROVE  sess'[n].account = sess[n].account /\ sess'[n].chan = sess[n].chan
<1>1. sess \in [SessionIds -> Session]
  BY DEF TypeOK
<1>2. ASSUME NEW l \in Loops, AddSession(l)
      PROVE  sess'[n] = sess[n]
  BY <1>1, <1>2, FreshSessionUnused DEF AddSession
<1>3. ASSUME NEW l \in Loops, AddPageStore(l)
      PROVE  sess'[n].account = sess[n].account /\ sess'[n].chan = sess[n].chan
  BY <1>1, <1>3 DEF AddPageStore, Session
<1>4. ASSUME NEW l \in Loops, RemoveSession(l)
      PROVE  sess'[n].account = sess[n].account /\ sess'[n].chan = sess[n].chan
  <2> DEFINE s == sessions[th[l].sid]
  <2>1. sess' = sess \/ sess' = [sess EXCEPT ![s].pages = sess[s].pages \ {th[l].ctx}]
    BY <1>4 DEF RemoveSession
  <2>2. QED
    BY <1>1, <2>1 DEF Session
<1>5. ASSUME NEW l \in Loops, LoopStep(l)
      PROVE  AddSession(l) \/ AddPageStore(l) \/ RemoveSession(l) \/ UNCHANGED sess
  BY <1>5 DEF LoopStep, CreateSession, KickFromGroup, KickFromMap, AddSessionJoin, AddPageRead,
              UpdateSession, AddPageJoin, CloseLookup, RemoveFromMap, BroadcastOffline, LeaveGroup
<1>6. ASSUME NEW c \in Channels, ChannelEvent(c)
      PROVE  UNCHANGED sess
  BY <1>6 DEF ChannelEvent, Heartbeat, PeerClose, RunQueuedClose, ChannelInactive, ReaderIdle
<1>7. QED
  BY <1>2, <1>3, <1>4, <1>5, <1>6 DEF Next, Drained, vars

\* What a step does to the map.
LEMMA MapStep ==
  ASSUME TypeOK, [Next]_vars, NEW a \in Accounts, sessions'[a] # None
  PROVE  \/ sessions'[a] = sessions[a]
         \/ \E l \in Loops : /\ AddSession(l)
                             /\ a = th[l].sid
                             /\ sessions'[a] = FreshSession
                             /\ sess'[FreshSession] = NewSession(th[l].ctx, a)
         \/ \E l \in Loops : UpdateSession(l) /\ sessions'[a] = th[l].ref /\ sess[th[l].ref].account = a
<1>0. sessions \in [Accounts -> SessionIds \cup {None}] /\ sess \in [SessionIds -> Session]
  BY DEF TypeOK
<1>1. ASSUME NEW l \in Loops, AddSession(l)
      PROVE  \/ sessions'[a] = sessions[a]
             \/ /\ a = th[l].sid
                /\ sessions'[a] = FreshSession
                /\ sess'[FreshSession] = NewSession(th[l].ctx, a)
  BY <1>0, <1>1, FreshSessionUnused DEF AddSession
<1>2. ASSUME NEW l \in Loops, UpdateSession(l)
      PROVE  \/ sessions'[a] = sessions[a]
             \/ sessions'[a] = th[l].ref /\ sess[th[l].ref].account = a
  BY <1>0, <1>2 DEF UpdateSession
<1>3. ASSUME NEW l \in Loops, KickFromMap(l) \/ RemoveFromMap(l)
      PROVE  sessions'[a] = sessions[a]
  BY <1>0, <1>3 DEF KickFromMap, RemoveFromMap
<1>4. ASSUME NEW l \in Loops, LoopStep(l)
      PROVE  AddSession(l) \/ UpdateSession(l) \/ KickFromMap(l) \/ RemoveFromMap(l) \/ UNCHANGED sessions
  BY <1>4 DEF LoopStep, CreateSession, KickFromGroup, AddSessionJoin, AddPageRead, AddPageStore,
              AddPageJoin, CloseLookup, RemoveSession, BroadcastOffline, LeaveGroup
<1>5. ASSUME NEW c \in Channels, ChannelEvent(c)
      PROVE  UNCHANGED sessions
  BY <1>5 DEF ChannelEvent, Heartbeat, PeerClose, RunQueuedClose, ChannelInactive, ReaderIdle
<1>6. QED
  BY <1>1, <1>2, <1>3, <1>4, <1>5 DEF Next, Drained, vars

\* How a handler comes by a session.
LEMMA FoundStep ==
  ASSUME TypeOK, [Next]_vars, NEW l \in Loops, th'[l].pc \in FoundSteps
  PROVE  \/ /\ th[l].pc \in FoundSteps
            /\ th'[l].ref = th[l].ref /\ th'[l].sid = th[l].sid /\ th'[l].ctx = th[l].ctx
         \/ /\ th[l].pc = "get" /\ CreateSession(l)
            /\ th'[l].ref = sessions[th[l].sid] /\ sessions[th[l].sid] # None
            /\ th'[l].sid = th[l].sid /\ th'[l].ctx = th[l].ctx
<1>0. th \in [Loops -> Thread] /\ th[l] \in Thread
  BY DEF TypeOK, HandlersOK
<1> USE DEF FoundSteps, Thread
<1>1. ASSUME NEW k \in Loops, LoopStep(k), k # l
      PROVE  th'[l] = th[l]
  BY <1>0, <1>1 DEF LoopStep, CreateSession, KickFromGroup, KickFromMap, AddSession, AddSessionJoin,
     AddPageRead, AddPageStore, UpdateSession, AddPageJoin, CloseLookup, RemoveSession, RemoveFromMap,
     BroadcastOffline, LeaveGroup, Goto, Finish
<1>2. CASE CreateSession(l)
  BY <1>0, <1>2 DEF CreateSession, Goto
<1>3. CASE KickFromGroup(l) \/ KickFromMap(l) \/ AddSession(l) \/ AddSessionJoin(l)
  BY <1>0, <1>3 DEF KickFromGroup, KickFromMap, AddSession, AddSessionJoin, Goto, Finish, Idle
<1>4. CASE AddPageRead(l) \/ AddPageStore(l) \/ UpdateSession(l) \/ AddPageJoin(l)
  BY <1>0, <1>4 DEF AddPageRead, AddPageStore, UpdateSession, AddPageJoin, Finish, Idle
<1>5. CASE CloseLookup(l) \/ RemoveSession(l) \/ RemoveFromMap(l) \/ BroadcastOffline(l) \/ LeaveGroup(l)
  <2>1. \/ th' = [th EXCEPT ![l] = Idle]
        \/ \E step \in CloseSteps : th' = [th EXCEPT ![l].pc = step]
    BY <1>5 DEF CloseLookup, RemoveSession, RemoveFromMap, BroadcastOffline, LeaveGroup,
                Goto, Finish, CloseSteps
  <2>2. QED
    BY <1>0, <2>1 DEF Idle, CloseSteps
<1>6. ASSUME NEW c \in Channels, ChannelEvent(c)
      PROVE  th'[l] = th[l]
  <2>1. \/ UNCHANGED th
        \/ \E step \in {"get", "close"}, a \in Accounts \cup {None} :
             th' = [th EXCEPT ![LoopOf[c]] = Running(step, c, a)]
    BY <1>6 DEF ChannelEvent, Heartbeat, PeerClose, RunQueuedClose, ChannelInactive, ReaderIdle, TypeOK
  <2>2. ASSUME NEW step \in {"get", "close"}, NEW a \in Accounts \cup {None},
               th' = [th EXCEPT ![LoopOf[c]] = Running(step, c, a)]
        PROVE  th'[l] = th[l]
    <3>1. CASE LoopOf[c] = l
      <4>1. th'[l] = Running(step, c, a)
        BY <1>0, <2>2, <3>1
      <4>2. th'[l].pc = step
        BY <4>1 DEF Running
      <4>3. QED
        BY <4>2
    <3>2. CASE LoopOf[c] # l
      BY <1>0, <2>2, <3>2
    <3>3. QED
      BY <3>1, <3>2
  <2>3. QED
    BY <2>1, <2>2
<1>7. QED
  BY <1>1, <1>2, <1>3, <1>4, <1>5, <1>6 DEF Next, Drained, vars, LoopStep

LEMMA AccountInductive ==
  ASSUME TypeOK, AccountInv, [Next]_vars
  PROVE  AccountInv'
<1>0. /\ TypeOK'
      /\ sessions \in [Accounts -> SessionIds \cup {None}]
      /\ sessions' \in [Accounts -> SessionIds \cup {None}]
      /\ \A k \in Loops : ~LoopIdle(k) => th[k].sid \in Accounts
      /\ \A k \in Loops : th[k].pc \in FoundSteps => th[k].ref \in SessionIds
  BY NextTypeOK DEF TypeOK, HandlersOK
<1>1. ASSUME NEW a \in Accounts, sessions'[a] # None
      PROVE  sess'[sessions'[a]].account = a
  <2>1. CASE sessions'[a] = sessions[a]
    BY <1>0, <1>1, <2>1, SessionsPersist DEF AccountInv, Reachable
  <2>3. ASSUME NEW l \in Loops, sessions'[a] = FreshSession, sess'[FreshSession] = NewSession(th[l].ctx, a)
        PROVE  sess'[sessions'[a]].account = a
    BY <2>3 DEF NewSession
  <2>4. ASSUME NEW l \in Loops, UpdateSession(l), sessions'[a] = th[l].ref, sess[th[l].ref].account = a
        PROVE  sess'[sessions'[a]].account = a
    BY <1>0, <2>4, SessionsPersist DEF UpdateSession, FoundSteps, Reachable
  <2>5. QED
    BY <1>1, <2>1, <2>3, <2>4, MapStep
<1>2. ASSUME NEW l \in Loops, th'[l].pc \in FoundSteps
      PROVE  sess'[th'[l].ref].account = th'[l].sid
  <2>1. CASE th[l].pc \in FoundSteps /\ th'[l].ref = th[l].ref /\ th'[l].sid = th[l].sid
    BY <1>0, <2>1, SessionsPersist DEF AccountInv, Reachable
  <2>2. CASE /\ th[l].pc = "get"
             /\ th'[l].ref = sessions[th[l].sid] /\ sessions[th[l].sid] # None
             /\ th'[l].sid = th[l].sid
    BY <1>0, <2>2, SessionsPersist DEF AccountInv, Reachable, LoopIdle
  <2>3. QED
    BY <1>2, <2>1, <2>2, FoundStep
<1>3. QED
  BY <1>1, <1>2 DEF AccountInv

\* The registry keeps the promise of Presence: it refines the abstract
\* specification step by step.
LEMMA PresenceInitial == Init => P!Init
BY NoneAssumption DEF NoneAssumption, Init, P!Init, Online, Logins, Announcing, Joining, Idle

\* Announcing changes only with the handler that broadcasts.
LEMMA AnnouncingFrame ==
  ASSUME PresenceInv, PresenceInv',
         \A k \in Loops : /\ th[k].pc = "broadcast" <=> th'[k].pc = "broadcast"
                          /\ th[k].pc = "broadcast" => th'[k].sid = th[k].sid
  PROVE  UNCHANGED Announcing
<1>1. /\ \A k \in Loops : th[k].pc = "broadcast" => monitor = k
      /\ \A k \in Loops : th'[k].pc = "broadcast" => monitor' = k
      /\ monitor \in Loops \cup {None} /\ monitor' \in Loops \cup {None}
  BY DEF PresenceInv, OfflineInv, MonitorInv, TypeOK
<1>2. CASE \E k \in Loops : th[k].pc = "broadcast"
  <2>1. PICK k \in Loops : th[k].pc = "broadcast"
    BY <1>2
  <2>2. monitor = k /\ monitor' = k /\ k # None
    BY <1>1, <2>1, LoopIsNotNone
  <2>3. QED
    BY <2>1, <2>2 DEF Announcing
<1>3. CASE \A k \in Loops : th[k].pc # "broadcast"
  <2>1. Announcing = None
    BY <1>1, <1>3 DEF Announcing
  <2>2. Announcing' = None
    BY <1>1, <1>3 DEF Announcing
  <2>3. QED
    BY <2>1, <2>2
<1>4. QED
  BY <1>2, <1>3

\* A step of a handler is a step of Presence, or hidden from it.
LEMMA PresenceLoopStep ==
  ASSUME PresenceInv, PresenceInv', NEW l \in Loops, LoopStep(l)
  PROVE  [P!Next]_(P!presence)
<1>0. /\ MonitorInv /\ MonitorInv' /\ AccountInv /\ None \notin Accounts
      /\ th \in [Loops -> Thread] /\ th[l] \in Thread
      /\ th' \in [Loops -> Thread]
      /\ sessions \in [Accounts -> SessionIds \cup {None}]
      /\ ~LoopIdle(l) => th[l].sid \in Accounts
      /\ th[l].pc \in FoundSteps => th[l].ref \in SessionIds
  BY NoneAssumption DEF NoneAssumption, PresenceInv, OfflineInv, TypeOK, HandlersOK
<1> USE LoopIsNotNone
<1>1. UNCHANGED sessions => UNCHANGED Online
  BY DEF Online
<1>2. ASSUME th[l].pc # "broadcast", th'[l].pc # "broadcast", \A k \in Loops \ {l} : th'[k] = th[k]
      PROVE  UNCHANGED Announcing
  BY <1>2, AnnouncingFrame
<1>3. ASSUME UNCHANGED sessions, UNCHANGED Logins, UNCHANGED Announcing
      PROVE  UNCHANGED P!presence
  BY <1>1, <1>3 DEF P!presence
<1>4. CASE KickFromMap(l)
  <2>1. th[l].sid \in Accounts /\ sess[th[l].ref].account = th[l].sid
    BY <1>0, <1>4 DEF KickFromMap, AccountInv, FoundSteps, LoopIdle
  <2>2. Online' = Online \ {th[l].sid}
    BY <1>0, <1>4, <2>1 DEF KickFromMap, Online
  <2>3. /\ Logins[l] = th[l].sid
        /\ th'[l].sid = th[l].sid /\ th'[l].pc = "add"
        /\ \A k \in Loops \ {l} : th'[k] = th[k]
    BY <1>0, <1>4 DEF KickFromMap, Logins, Joining, Thread
  <2>4. UNCHANGED Logins
    BY <1>0, <1>4, <2>3 DEF Logins, Joining, KickFromMap
  <2>5. UNCHANGED Announcing
    BY <1>2, <1>4, <2>3 DEF KickFromMap
  <2>6. P!Displace(l)
    BY <1>0, <2>1, <2>2, <2>3, <2>4, <2>5 DEF P!Displace
  <2>7. QED
    BY <2>6 DEF P!Next
<1>5. CASE AddSession(l) \/ UpdateSession(l)
  <2>1. /\ Logins[l] = th[l].sid /\ th[l].sid \in Accounts
        /\ monitor = None
    BY <1>0, <1>5 DEF AddSession, UpdateSession, CanEnter, Logins, Joining, LoopIdle
  <2>2. Online' = Online \cup {th[l].sid}
    <3>1. CASE AddSession(l)
      <4>1. FreshSession # None
        BY <3>1, FreshSessionUnused, NoneAssumption DEF AddSession, NoneAssumption
      <4>2. QED
        BY <1>0, <2>1, <3>1, <4>1 DEF AddSession, Online
    <3>2. CASE UpdateSession(l)
      <4>1. th[l].ref # None /\ sess[th[l].ref].account = th[l].sid
        BY <1>0, <3>2, NoneAssumption DEF UpdateSession, FoundSteps, NoneAssumption, AccountInv
      <4>2. QED
        BY <1>0, <2>1, <3>2, <4>1 DEF UpdateSession, Online
    <3>3. QED
      BY <1>5, <3>1, <3>2
  <2>3. /\ th'[l].pc \in {"join", "joinpage"}
        /\ \A k \in Loops \ {l} : th'[k] = th[k]
    BY <1>0, <1>5 DEF AddSession, UpdateSession, Goto, Thread
  <2>4. Logins' = [Logins EXCEPT ![l] = None]
    BY <1>0, <2>3 DEF Logins, Joining
  <2>5. Announcing = None /\ Announcing' = None
    BY <1>5, <2>1, <2>3 DEF Announcing, AddSession, UpdateSession
  <2>6. P!Register(l)
    BY <1>0, <2>1, <2>2, <2>4, <2>5 DEF P!Register
  <2>7. QED
    BY <2>6 DEF P!Next
<1>6. CASE RemoveFromMap(l)
  <2>1. th[l].sid \in Accounts /\ monitor = l /\ monitor' = l
    BY <1>0, <1>6 DEF RemoveFromMap, LoopIdle, MonitorInv
  <2>2. Online' = Online \ {th[l].sid}
    BY <1>0, <1>6, <2>1 DEF RemoveFromMap, Online
  <2>3. th'[l].pc = "broadcast" /\ th'[l].sid = th[l].sid /\ \A k \in Loops \ {l} : th'[k] = th[k]
    BY <1>0, <1>6 DEF RemoveFromMap, Goto, Thread
  <2>4. UNCHANGED Logins
    BY <1>0, <1>6, <2>3 DEF Logins, Joining, RemoveFromMap
  <2>5. Announcing = None /\ Announcing' = th[l].sid
    BY <1>6, <2>1, <2>3 DEF Announcing, RemoveFromMap
  <2>6. P!Depart(th[l].sid)
    BY <2>2, <2>4, <2>5 DEF P!Depart
  <2>7. QED
    BY <2>1, <2>6 DEF P!Next
<1>7. CASE BroadcastOffline(l)
  <2>1. monitor = l /\ monitor' = None /\ th[l].sid \in Accounts
    BY <1>0, <1>7 DEF BroadcastOffline, MonitorInv, LoopIdle
  <2>2. th'[l].pc = "leave" /\ \A k \in Loops \ {l} : th'[k] = th[k]
    BY <1>0, <1>7 DEF BroadcastOffline, Goto, Thread
  <2>3. UNCHANGED Logins
    BY <1>0, <1>7, <2>2 DEF Logins, Joining, BroadcastOffline
  <2>4. Announcing # None /\ Announcing' = None
    BY <1>0, <1>7, <2>1 DEF Announcing, BroadcastOffline
  <2>5. P!Announce
    BY <1>1, <1>7, <2>3, <2>4 DEF P!Announce, BroadcastOffline
  <2>6. QED
    BY <2>5 DEF P!Next
<1>8. CASE CreateSession(l) \/ KickFromGroup(l) \/ AddPageRead(l) \/ AddPageStore(l)
  <2>1. /\ th[l].pc \in Joining /\ th'[l].pc \in Joining /\ th'[l].sid = th[l].sid
        /\ \A k \in Loops \ {l} : th'[k] = th[k]
        /\ UNCHANGED <<sessions, monitor>>
    BY <1>0, <1>8 DEF CreateSession, KickFromGroup, AddPageRead, AddPageStore, Goto, Joining, Thread
  <2>2. UNCHANGED Logins
    BY <1>0, <2>1 DEF Logins
  <2>3. UNCHANGED Announcing
    BY <1>2, <2>1 DEF Joining
  <2>4. QED
    BY <1>3, <2>1, <2>2, <2>3
<1>9. CASE AddSessionJoin(l) \/ AddPageJoin(l) \/ CloseLookup(l) \/ RemoveSession(l) \/ LeaveGroup(l)
  <2>1. /\ th[l].pc \notin Joining /\ th'[l].pc \notin Joining
        /\ th[l].pc # "broadcast" /\ th'[l].pc # "broadcast"
        /\ \A k \in Loops \ {l} : th'[k] = th[k]
        /\ UNCHANGED sessions
    BY <1>0, <1>9 DEF AddSessionJoin, AddPageJoin, CloseLookup, RemoveSession, LeaveGroup,
                      Goto, Finish, Idle, Joining, Thread
  <2>2. UNCHANGED Logins
    BY <1>0, <2>1 DEF Logins
  <2>3. UNCHANGED Announcing
    BY <1>2, <2>1
  <2>4. QED
    BY <1>3, <2>1, <2>2, <2>3
<1>10. QED
  BY <1>4, <1>5, <1>6, <1>7, <1>8, <1>9 DEF LoopStep

\* An event of a channel starts a login, or is hidden from Presence.
LEMMA PresenceEvent ==
  ASSUME PresenceInv, PresenceInv', NEW c \in Channels, ChannelEvent(c)
  PROVE  [P!Next]_(P!presence)
<1> DEFINE l == LoopOf[c]
<1>0. /\ l \in Loops
      /\ th \in [Loops -> Thread] /\ None \notin Accounts
      /\ UNCHANGED sessions
  BY LoopOfType, NoneAssumption
     DEF NoneAssumption, PresenceInv, OfflineInv, TypeOK, HandlersOK, ChannelEvent, Heartbeat,
         PeerClose, RunQueuedClose, ChannelInactive, ReaderIdle
<1>1. UNCHANGED Online
  BY <1>0 DEF Online
<1>2. ASSUME NEW a \in Accounts, Heartbeat(c, a)
      PROVE  P!Begin(l, a)
  <2>1. /\ th[l].pc = "idle"
        /\ th'[l] = Running("get", c, a)
        /\ \A k \in Loops \ {l} : th'[k] = th[k]
    BY <1>0, <1>2 DEF Heartbeat, LoopIdle
  <2>2. th'[l].pc = "get" /\ th'[l].sid = a
    BY <2>1 DEF Running
  <2>3. Logins[l] = None /\ Logins' = [Logins EXCEPT ![l] = a]
    BY <1>0, <2>1, <2>2 DEF Logins, Joining
  <2>4. UNCHANGED Announcing
    BY <2>1, <2>2, AnnouncingFrame
  <2>5. QED
    BY <1>1, <2>3, <2>4 DEF P!Begin
<1>3. ASSUME NEW a \in Accounts \cup {None}, LoopIdle(l), th' = [th EXCEPT ![l] = Running("close", c, a)]
      PROVE  UNCHANGED P!presence
  <2>1. /\ th[l].pc = "idle"
        /\ th'[l] = Running("close", c, a)
        /\ \A k \in Loops \ {l} : th'[k] = th[k]
    BY <1>0, <1>3 DEF LoopIdle
  <2>2. th'[l].pc = "close"
    BY <2>1 DEF Running
  <2>3. UNCHANGED Logins
    BY <1>0, <2>1, <2>2 DEF Logins, Joining
  <2>4. UNCHANGED Announcing
    BY <2>1, <2>2, AnnouncingFrame
  <2>5. QED
    BY <1>1, <2>3, <2>4 DEF P!presence
<1>4. CASE UNCHANGED th
  <2>1. UNCHANGED Logins /\ UNCHANGED Announcing
    BY <1>4, AnnouncingFrame DEF Logins
  <2>2. QED
    BY <1>1, <2>1 DEF P!presence
<1>5. \/ \E a \in Accounts : Heartbeat(c, a)
      \/ UNCHANGED th
      \/ LoopIdle(l) /\ \E a \in Accounts \cup {None} : th' = [th EXCEPT ![l] = Running("close", c, a)]
  BY DEF ChannelEvent, PeerClose, RunQueuedClose, ChannelInactive, ReaderIdle,
         PresenceInv, OfflineInv, TypeOK
<1>6. QED
  BY <1>0, <1>2, <1>3, <1>4, <1>5 DEF P!Next

LEMMA PresenceStart == Init => PresenceInv
<1>1. Init => AccountInv
  BY DEF Init, AccountInv, Idle, FoundSteps
<1>2. Init => OfflineInv
  BY InitTypeOK, LoopIsNotNone DEF Init, OfflineInv, MonitorInv, OfflineTruth, Idle
<1>3. QED
  BY <1>1, <1>2 DEF PresenceInv

LEMMA PresenceInvariant == Spec => []PresenceInv
<1>1. Init => PresenceInv
  BY PresenceStart
<1>2. PresenceInv /\ [Next]_vars => PresenceInv'
  BY OfflineInductive, AccountInductive DEF PresenceInv, OfflineInv
<1>3. QED
  BY <1>1, <1>2, PTL DEF Spec

\* The registry implements Presence, for any number of loops, channels and
\* accounts: every registration, silent removal and announcement is one that
\* Presence allows.
THEOREM RegistryImplementsPresence == Spec => ImplementsPresence
<1>1. PresenceInv /\ PresenceInv' /\ [Next]_vars => [P!Next]_(P!presence)
  <2> SUFFICES ASSUME PresenceInv, PresenceInv', [Next]_vars
               PROVE  [P!Next]_(P!presence)
    OBVIOUS
  <2>1. CASE UNCHANGED vars
    BY <2>1 DEF vars, P!presence, Online, Logins, Announcing
  <2>2. CASE Next
    BY <2>1, <2>2, PresenceLoopStep, PresenceEvent DEF Next, Drained
  <2>3. QED
    BY <2>1, <2>2
<1>2. QED
  BY <1>1, PresenceInitial, PresenceInvariant, PTL DEF Spec, ImplementsPresence, P!Spec

-----------------------------------------------------------------------------
(* Watch sessions, their connections and the broadcast group: what holds   *)
(* when every client keeps to one device id.                               *)

\* The inductive invariant: SupportInv and the properties that it supports,
\* the conjuncts of PresenceInv first.
SocketInv ==
  /\ PresenceInv /\ HandlerInv /\ BindInv /\ OwnerInv
  /\ SocketSessionLive /\ LeaveInv /\ RegisteredInGroup

\* All actions of a loop, for frame arguments.
LEMMA LoopFrame ==
  ASSUME TypeOK, NEW l \in Loops, LoopStep(l)
  PROVE  \A k \in Loops \ {l} : th'[k] = th[k]
BY DEF TypeOK, HandlersOK, LoopStep, CreateSession, KickFromGroup, KickFromMap, AddSession,
       AddSessionJoin, AddPageRead, AddPageStore, UpdateSession, AddPageJoin, CloseLookup,
       RemoveSession, RemoveFromMap, BroadcastOffline, LeaveGroup, Goto, Finish

\* An event starts a login or a close on an idle loop, or no handler.
LEMMA EventFrame ==
  ASSUME TypeOK, NEW c \in Channels, ChannelEvent(c)
  PROVE  /\ UNCHANGED <<attr, sessions, sess, monitor>>
         /\ LoopIdle(LoopOf[c]) /\ LoopOf[c] \in Loops
         /\ \A k \in Loops \ {LoopOf[c]} : th'[k] = th[k]
         /\ \/ UNCHANGED th
            \/ \E a \in LoginIds[c] : /\ c \in open /\ attr[c] # a /\ open' = open
                                     /\ th'[LoopOf[c]] = Running("get", c, a)
            \/ attr[c] # None /\ th'[LoopOf[c]] = Running("close", c, attr[c])
<1>1. LoopOf[c] \in Loops /\ th \in [Loops -> Thread]
  BY LoopOfType DEF TypeOK, HandlersOK
<1>2. QED
  BY <1>1 DEF ChannelEvent, Heartbeat, PeerClose, RunQueuedClose, ChannelInactive, ReaderIdle,
              Unbound, transport

\* A channel is closed by its own loop, between handlers or in removeSession.
LEMMA OpenStep ==
  ASSUME TypeOK, [Next]_vars, NEW c \in Channels, c \in open, c \notin open'
  PROVE  /\ LoopIdle(LoopOf[c]) \/ th[LoopOf[c]].pc = "remove"
         /\ c \in inactive'
<1>1. ASSUME NEW l \in Loops, RemoveSession(l)
      PROVE  th[LoopOf[c]].pc = "remove" /\ c \in inactive'
  BY <1>1 DEF RemoveSession, CloseChannel, TransportClosed, transport
<1>2. ASSUME NEW l \in Loops, LoopStep(l)
      PROVE  RemoveSession(l) \/ UNCHANGED open
  BY <1>2 DEF LoopStep, CreateSession, KickFromGroup, KickFromMap, AddSession, AddSessionJoin,
     AddPageRead, AddPageStore, UpdateSession, AddPageJoin, CloseLookup, RemoveFromMap,
     BroadcastOffline, LeaveGroup, transport
<1>3. ASSUME NEW d \in Channels, ChannelEvent(d)
      PROVE  LoopIdle(LoopOf[c]) /\ c \in inactive'
  BY <1>3 DEF ChannelEvent, Heartbeat, PeerClose, RunQueuedClose, ChannelInactive, ReaderIdle,
              TransportClosed, transport
<1>4. QED
  BY <1>1, <1>2, <1>3 DEF Next, Drained, vars

\* A channel is bound by the login that runs on it.
LEMMA AttrStep ==
  ASSUME TypeOK, [Next]_vars, NEW c \in Channels, attr'[c] # attr[c]
  PROVE  \E l \in Loops : /\ AddSession(l) \/ AddPageRead(l)
                          /\ th[l].ctx = c /\ attr'[c] = th[l].sid
<1>1. ASSUME NEW l \in Loops, AddSession(l) \/ AddPageRead(l)
      PROVE  th[l].ctx = c /\ attr'[c] = th[l].sid
  BY <1>1 DEF AddSession, AddPageRead, Bind, TypeOK
<1>2. ASSUME NEW l \in Loops, LoopStep(l)
      PROVE  AddSession(l) \/ AddPageRead(l)
  BY <1>2 DEF LoopStep, CreateSession, KickFromGroup, KickFromMap, AddSessionJoin,
     AddPageStore, UpdateSession, AddPageJoin, CloseLookup, RemoveSession, RemoveFromMap,
     BroadcastOffline, LeaveGroup
<1>3. ASSUME NEW d \in Channels, ChannelEvent(d)
      PROVE  FALSE
  BY <1>3, EventFrame
<1>4. QED
  BY <1>1, <1>2, <1>3 DEF Next, Drained, vars

\* A handler that another loop, or an event of another loop, runs next to.
LEMMA HandlerOther ==
  ASSUME TypeOK, HandlerInv, [Next]_vars,
         NEW k \in Loops, ~LoopIdle(k), th'[k] = th[k]
  PROVE  /\ LoopOf[th[k].ctx] = k
         /\ th[k].pc \in LoginSteps => th[k].ctx \in open' /\ th[k].sid \in LoginIds[th[k].ctx]
         /\ th[k].pc \in {"get", "ungroup", "unmap", "add"} => attr'[th[k].ctx] # th[k].sid
         /\ th[k].pc \in CloseSteps => th[k].sid = attr'[th[k].ctx]
         /\ th[k].pc \in {"putpage", "storepage", "update"} =>
              th[k].ctx \notin SocketChannels /\ sess'[th[k].ref].chan \notin SocketChannels
<1>1. /\ th[k].ctx \in Channels /\ LoopOf[th[k].ctx] = k
      /\ th[k].pc \in FoundSteps => th[k].ref \in SessionIds
      /\ th \in [Loops -> Thread]
  BY DEF TypeOK, HandlersOK, HandlerInv
<1>2. th[k].pc \in LoginSteps => th[k].ctx \in open'
  BY <1>1, OpenStep DEF HandlerInv, LoginSteps
<1>3. attr'[th[k].ctx] = attr[th[k].ctx]
  <2>1. SUFFICES ASSUME attr'[th[k].ctx] # attr[th[k].ctx]
                 PROVE  FALSE
    OBVIOUS
  <2>2. PICK l \in Loops : (AddSession(l) \/ AddPageRead(l)) /\ th[l].ctx = th[k].ctx
    BY <1>1, <2>1, AttrStep
  <2>3. l = k
    BY <1>1, <2>2 DEF HandlerInv, AddSession, AddPageRead, LoopIdle
  <2>4. th'[k].pc # th[k].pc
    BY <1>1, <2>2, <2>3 DEF AddSession, AddPageRead, Goto, Thread
  <2>5. QED
    BY <2>4
<1>4. th[k].pc \in FoundSteps => sess'[th[k].ref].chan = sess[th[k].ref].chan
  BY <1>1, SessionsPersist DEF Reachable
<1>5. QED
  BY <1>1, <1>2, <1>3, <1>4 DEF HandlerInv, FoundSteps

\* A handler that does a step of its own.
LEMMA HandlerOwn ==
  ASSUME TypeOK, HandlerInv, NEW l \in Loops, LoopStep(l), [Next]_vars, ~LoopIdle(l)'
  PROVE  /\ LoopOf[th'[l].ctx] = l
         /\ th'[l].pc \in LoginSteps => th'[l].ctx \in open' /\ th'[l].sid \in LoginIds[th'[l].ctx]
         /\ th'[l].pc \in {"get", "ungroup", "unmap", "add"} => attr'[th'[l].ctx] # th'[l].sid
         /\ th'[l].pc \in CloseSteps => th'[l].sid = attr'[th'[l].ctx]
         /\ th'[l].pc \in {"putpage", "storepage", "update"} =>
              th'[l].ctx \notin SocketChannels /\ sess'[th'[l].ref].chan \notin SocketChannels
<1> USE DEF Thread, Goto, LoginSteps, CloseSteps, transport
<1>0. /\ th \in [Loops -> Thread] /\ th[l] \in Thread
      /\ th[l].pc # "idle" => /\ LoopOf[th[l].ctx] = l
                              /\ th[l].ctx \in Channels
      /\ th[l].pc \in FoundSteps => th[l].ref \in SessionIds
      /\ sessions \in [Accounts -> SessionIds \cup {None}]
      /\ th[l].pc # "idle" => th[l].sid \in Accounts
  BY DEF TypeOK, HandlersOK, HandlerInv, LoopIdle
<1>1. th[l].pc \in FoundSteps => sess'[th[l].ref].chan = sess[th[l].ref].chan
  BY <1>0, SessionsPersist DEF Reachable
<1>2. CASE CreateSession(l)
  <2>1. th[l].pc = "get" /\ UNCHANGED <<transport, attr, sess>>
        /\ th'[l].ctx = th[l].ctx /\ th'[l].sid = th[l].sid
        /\ th'[l].pc \in {"add", "ungroup", "putpage"}
    BY <1>0, <1>2 DEF CreateSession
  <2>2. th'[l].pc = "putpage" => /\ th'[l].ctx \notin SocketChannels
                                /\ sess[th'[l].ref].chan \notin SocketChannels
    <3>1. th'[l].pc = "putpage" =>
            ~Kicks(sessions[th[l].sid], th[l].ctx) /\ th'[l].ref = sessions[th[l].sid]
      BY <1>0, <1>2 DEF CreateSession
    <3>2. QED
      BY <2>1, <3>1, ChannelAssumption DEF Kicks, Source, ChannelAssumption
  <2>3. QED
    BY <1>0, <2>1, <2>2 DEF HandlerInv, LoopIdle
<1>3. CASE KickFromGroup(l) \/ KickFromMap(l)
  BY <1>0, <1>3 DEF KickFromGroup, KickFromMap, HandlerInv, LoopIdle
<1>4. CASE AddSession(l)
  BY <1>0, <1>4 DEF AddSession, HandlerInv, LoopIdle
<1>5. CASE AddPageRead(l) \/ AddPageStore(l) \/ UpdateSession(l)
  <2>1. /\ th[l].pc \in {"putpage", "storepage", "update"}
        /\ th'[l].pc \in {"storepage", "update", "joinpage"}
        /\ th'[l].ctx = th[l].ctx /\ th'[l].sid = th[l].sid /\ UNCHANGED open
        /\ th'[l].pc # "joinpage" => th'[l].ref = th[l].ref
    BY <1>0, <1>5 DEF AddPageRead, AddPageStore, UpdateSession
  <2>2. QED
    BY <1>0, <1>1, <2>1 DEF HandlerInv, LoopIdle, FoundSteps
<1>6. CASE AddSessionJoin(l) \/ AddPageJoin(l) \/ LeaveGroup(l)
  BY <1>0, <1>6 DEF AddSessionJoin, AddPageJoin, LeaveGroup, Finish, Idle, LoopIdle
<1>7. CASE CloseLookup(l) \/ RemoveSession(l) \/ RemoveFromMap(l) \/ BroadcastOffline(l)
  <2>1. /\ th[l].pc \in {"close", "remove", "drop", "broadcast"} /\ UNCHANGED attr
        /\ \/ th' = [th EXCEPT ![l] = Idle]
           \/ \E step \in CloseSteps : th' = [th EXCEPT ![l].pc = step]
    BY <1>7 DEF CloseLookup, RemoveSession, RemoveFromMap, BroadcastOffline, Finish
  <2>2. CASE th' = [th EXCEPT ![l] = Idle]
    BY <1>0, <2>2 DEF Idle, LoopIdle
  <2>3. ASSUME NEW step \in CloseSteps, th' = [th EXCEPT ![l].pc = step]
        PROVE  th'[l].pc = step /\ th'[l].ctx = th[l].ctx /\ th'[l].sid = th[l].sid
    BY <1>0, <2>3
  <2>4. QED
    BY <1>0, <2>1, <2>2, <2>3 DEF HandlerInv, LoopIdle
<1>8. QED
  BY <1>2, <1>3, <1>4, <1>5, <1>6, <1>7 DEF LoopStep

LEMMA HandlerInductive ==
  ASSUME TypeOK, HandlerInv, [Next]_vars
  PROVE  HandlerInv'
<1>1. SUFFICES ASSUME NEW k \in Loops, ~LoopIdle(k)'
               PROVE  /\ LoopOf[th'[k].ctx] = k
                      /\ th'[k].pc \in LoginSteps => th'[k].ctx \in open' /\ th'[k].sid \in LoginIds[th'[k].ctx]
                      /\ th'[k].pc \in {"get", "ungroup", "unmap", "add"} => attr'[th'[k].ctx] # th'[k].sid
                      /\ th'[k].pc \in CloseSteps => th'[k].sid = attr'[th'[k].ctx]
                      /\ th'[k].pc \in {"putpage", "storepage", "update"} =>
                           th'[k].ctx \notin SocketChannels /\ sess'[th'[k].ref].chan \notin SocketChannels
  BY DEF HandlerInv
<1>2. CASE th'[k] = th[k]
  BY <1>1, <1>2, HandlerOther DEF LoopIdle
<1>3. CASE LoopStep(k)
  BY <1>1, <1>3, HandlerOwn
<1>4. ASSUME NEW c \in Channels, ChannelEvent(c), th'[k] # th[k]
      PROVE  /\ LoopOf[th'[k].ctx] = k
             /\ th'[k].pc \in LoginSteps => th'[k].ctx \in open' /\ th'[k].sid \in LoginIds[th'[k].ctx]
             /\ th'[k].pc \in {"get", "ungroup", "unmap", "add"} => attr'[th'[k].ctx] # th'[k].sid
             /\ th'[k].pc \in CloseSteps => th'[k].sid = attr'[th'[k].ctx]
             /\ th'[k].pc \notin {"putpage", "storepage", "update"}
  <2>1. k = LoopOf[c]
    BY <1>4, EventFrame
  <2>2. CASE \E a \in LoginIds[c] : /\ c \in open /\ attr[c] # a /\ open' = open
                                  /\ th'[k] = Running("get", c, a)
    <3>1. PICK a \in LoginIds[c] : /\ c \in open /\ attr[c] # a /\ open' = open
                                  /\ th'[k] = Running("get", c, a)
      BY <2>2
    <3>2. th'[k].pc = "get" /\ th'[k].ctx = c /\ th'[k].sid = a
      BY <3>1 DEF Running
    <3>3. UNCHANGED attr
      BY <1>4, EventFrame
    <3>4. QED
      BY <2>1, <3>1, <3>2, <3>3 DEF CloseSteps
  <2>3. CASE attr[c] # None /\ th'[k] = Running("close", c, attr[c])
    <3>1. th'[k].pc = "close" /\ th'[k].ctx = c /\ th'[k].sid = attr[c]
      BY <2>3 DEF Running
    <3>2. UNCHANGED attr
      BY <1>4, EventFrame
    <3>3. QED
      BY <2>1, <3>1, <3>2 DEF LoginSteps
  <2>4. QED
    BY <1>4, <2>1, <2>2, <2>3, EventFrame
<1>5. \/ th'[k] = th[k]
      \/ LoopStep(k)
      \/ \E c \in Channels : ChannelEvent(c) /\ th'[k] # th[k]
  BY LoopFrame DEF Next, Drained, vars
<1>6. QED
  BY <1>2, <1>3, <1>4, <1>5

LEMMA BindInductive ==
  ASSUME TypeOK, HandlerInv, BindInv, [Next]_vars
  PROVE  BindInv'
<1>1. ASSUME NEW c \in Channels, attr'[c] # attr[c]
      PROVE  attr'[c] \in LoginIds[c]
  <2>1. PICK l \in Loops : (AddSession(l) \/ AddPageRead(l)) /\ th[l].ctx = c /\ attr'[c] = th[l].sid
    BY <1>1, AttrStep
  <2>2. th[l].pc \in LoginSteps /\ ~LoopIdle(l)
    BY <2>1 DEF AddSession, AddPageRead, LoginSteps, LoopIdle
  <2>3. QED
    BY <2>1, <2>2 DEF HandlerInv
<1>2. QED
  BY <1>1 DEF BindInv

\* A client with one device id is not bound when it logs in.
LEMMA UnboundLogin ==
  ASSUME OneLoginId, TypeOK, HandlerInv, BindInv, NEW l \in Loops, AddSession(l)
  PROVE  attr[th[l].ctx] = None /\ th[l].ctx \in Channels \cap open
<1>1. /\ th[l].ctx \in Channels /\ th[l].ctx \in open
      /\ th[l].sid \in LoginIds[th[l].ctx]
      /\ attr[th[l].ctx] # th[l].sid
  BY DEF AddSession, TypeOK, HandlersOK, HandlerInv, LoopIdle, LoginSteps
<1>2. QED
  BY <1>1 DEF OneLoginId, BindInv

\* The binding of a watch channel never changes.
LEMMA BoundForGood ==
  ASSUME OneLoginId, TypeOK, HandlerInv, BindInv, [Next]_vars,
         NEW c \in SocketChannels, attr[c] # None
  PROVE  attr'[c] = attr[c]
<1>1. SUFFICES ASSUME attr'[c] # attr[c]
               PROVE  FALSE
  OBVIOUS
<1>2. PICK l \in Loops : (AddSession(l) \/ AddPageRead(l)) /\ th[l].ctx = c
  BY <1>1, AttrStep DEF Channels
<1>3. CASE AddSession(l)
  BY <1>2, <1>3, UnboundLogin
<1>4. CASE AddPageRead(l)
  BY <1>2, <1>4 DEF AddPageRead, HandlerInv, LoopIdle
<1>5. QED
  BY <1>2, <1>3, <1>4

\* A session object comes into use by being created.
LEMMA ReachableStep ==
  ASSUME TypeOK, [Next]_vars, NEW n \in Reachable', n # None
  PROVE  \/ n \in Reachable /\ n \in SessionIds
         \/ \E l \in Loops : AddSession(l) /\ n = FreshSession
<1>1. CASE \E a \in Accounts : n = sessions'[a]
  <2>1. PICK a \in Accounts : n = sessions'[a]
    BY <1>1
  <2>2. CASE n = sessions[a]
    BY <2>2 DEF Reachable, TypeOK
  <2>3. CASE \E l \in Loops : UpdateSession(l) /\ n = th[l].ref
    BY <2>3 DEF Reachable, TypeOK, HandlersOK, UpdateSession, FoundSteps
  <2>4. QED
    BY <2>1, <2>2, <2>3, MapStep
<1>2. CASE \E l \in Loops : n = th'[l].ref
  <2>1. PICK l \in Loops : n = th'[l].ref
    BY <1>2
  <2>2. th \in [Loops -> Thread] /\ sessions \in [Accounts -> SessionIds \cup {None}]
    BY DEF TypeOK, HandlersOK
  <2>3. CASE th'[l].ref = th[l].ref
    BY <2>1, <2>2, <2>3 DEF Reachable, Thread
  <2>4. CASE th'[l].ref # th[l].ref
    <3>1. LoopStep(l) => CreateSession(l)
      <4>1. ~KickFromGroup(l) /\ ~KickFromMap(l) /\ ~AddSession(l) /\ ~AddSessionJoin(l)
        BY <2>1, <2>2, <2>4, SMTT(30) DEF KickFromGroup, KickFromMap, AddSession, AddSessionJoin,
           Goto, Finish, Idle, Thread
      <4>2. ~AddPageRead(l) /\ ~AddPageStore(l) /\ ~UpdateSession(l) /\ ~AddPageJoin(l)
        BY <2>1, <2>2, <2>4, SMTT(30) DEF AddPageRead, AddPageStore, UpdateSession, AddPageJoin,
           Goto, Finish, Idle, Thread
      <4>3. ~CloseLookup(l) /\ ~RemoveFromMap(l) /\ ~BroadcastOffline(l) /\ ~LeaveGroup(l)
        BY <2>1, <2>2, <2>4, SMTT(30) DEF CloseLookup, RemoveFromMap, BroadcastOffline, LeaveGroup,
           Goto, Finish, Idle, Thread
      <4>4. ~RemoveSession(l)
        BY <2>2, <2>4, SMTT(30) DEF RemoveSession, Goto, Thread
      <4>5. QED
        BY <4>1, <4>2, <4>3, <4>4 DEF LoopStep
    <3>2. ASSUME NEW c \in Channels, ChannelEvent(c)
          PROVE  FALSE
      <4>1. l = LoopOf[c] /\ th' # th
        BY <2>4, <3>2, EventFrame
      <4>2. \E step \in {"get", "close"} : \E a : th'[l] = Running(step, c, a)
        BY <3>2, <4>1, EventFrame
      <4>3. th'[l].ref = None
        BY <4>2 DEF Running
      <4>4. QED
        BY <2>1, <4>3
    <3>3. CreateSession(l)
      BY <2>4, <3>1, <3>2, LoopFrame DEF Next, Drained, vars
    <3>4. n = sessions[th[l].sid] /\ th[l].sid \in Accounts
      BY <2>1, <2>2, <2>4, <3>3 DEF CreateSession, TypeOK, HandlersOK, LoopIdle, Thread, Goto
    <3>5. QED
      BY <2>2, <3>4 DEF Reachable
  <2>5. QED
    BY <2>3, <2>4
<1>3. QED
  BY <1>1, <1>2 DEF Reachable

LEMMA OwnerInductive ==
  ASSUME OneLoginId, TypeOK, HandlerInv, BindInv, OwnerInv, [Next]_vars
  PROVE  OwnerInv'
<1>1. ASSUME NEW m \in SessionIds, m \in Reachable, sess'[m].chan \in SocketChannels
      PROVE  /\ sess'[m].chan = sess[m].chan /\ sess'[m].account = sess[m].account
             /\ attr[sess[m].chan] # None /\ sess[m].account = attr[sess[m].chan]
             /\ attr'[sess[m].chan] = attr[sess[m].chan]
  BY <1>1, SessionsPersist, BoundForGood, NoneAssumption DEF OwnerInv, NoneAssumption
<1>2. ASSUME NEW l \in Loops, AddSession(l)
      PROVE  /\ sess'[FreshSession].chan = th[l].ctx /\ sess'[FreshSession].account = th[l].sid
             /\ attr[th[l].ctx] = None /\ attr'[th[l].ctx] = th[l].sid /\ th[l].sid # None
  <2>1. th[l].sid \in Accounts /\ th[l].ctx \in Channels
    BY <1>2 DEF AddSession, TypeOK, HandlersOK, LoopIdle
  <2>2. sess'[FreshSession] = NewSession(th[l].ctx, th[l].sid)
    BY <1>2, FreshSessionUnused DEF AddSession, TypeOK
  <2>3. attr'[th[l].ctx] = th[l].sid
    BY <1>2, <2>1 DEF AddSession, Bind, TypeOK
  <2>4. QED
    BY <1>2, <2>1, <2>2, <2>3, UnboundLogin, NoneAssumption DEF NewSession, NoneAssumption
<1>3. ASSUME NEW m \in Reachable', m # None, sess'[m].chan \in SocketChannels
      PROVE  sess'[m].account = attr'[sess'[m].chan] /\ attr'[sess'[m].chan] # None
  <2>1. CASE m \in Reachable /\ m \in SessionIds
    BY <1>1, <1>3, <2>1
  <2>2. CASE \E l \in Loops : AddSession(l) /\ m = FreshSession
    BY <1>2, <2>2
  <2>3. QED
    BY <1>3, <2>1, <2>2, ReachableStep
<1>4. ASSUME NEW m \in Reachable', NEW n \in Reachable', m # None, n # None,
             sess'[m].chan = sess'[n].chan, sess'[m].chan \in SocketChannels
      PROVE  m = n
  <2>1. CASE m \in Reachable /\ m \in SessionIds /\ n \in Reachable /\ n \in SessionIds
    <3>1. sess[m].chan = sess[n].chan /\ sess[m].chan \in SocketChannels
      BY <1>1, <1>4, <2>1
    <3>2. QED
      BY <1>4, <2>1, <3>1 DEF OwnerInv
  <2>2. ASSUME NEW l \in Loops, AddSession(l), m = FreshSession, n \in Reachable, n \in SessionIds
        PROVE  FALSE
    BY <1>1, <1>2, <1>4, <2>2
  <2>3. ASSUME NEW l \in Loops, AddSession(l), n = FreshSession, m \in Reachable, m \in SessionIds
        PROVE  FALSE
    BY <1>1, <1>2, <1>4, <2>3
  <2>4. QED
    BY <1>4, <2>1, <2>2, <2>3, ReachableStep
<1>5. QED
  BY <1>3, <1>4 DEF OwnerInv

\* A watch session is registered by its own login on its open channel, and
\* stays registered only under the device id of its channel.
LEMMA RegisteredStep ==
  ASSUME OneLoginId, PresenceInv, HandlerInv, BindInv, OwnerInv, [Next]_vars,
         NEW a \in Accounts, NEW c \in SocketChannels, Registered(a, c)'
  PROVE  \/ /\ Registered(a, c) /\ sessions'[a] = sessions[a]
            /\ sessions[a] \in SessionIds /\ attr[c] = a
         \/ \E l \in Loops : AddSession(l) /\ th[l].ctx = c /\ th[l].sid = a
<1>0. TypeOK /\ AccountInv
  BY DEF PresenceInv, OfflineInv
<1>1. sessions'[a] # None /\ sess'[sessions'[a]].chan = c
  BY DEF Registered
<1>2. CASE sessions'[a] = sessions[a]
  <2>1. sessions[a] \in SessionIds /\ sessions[a] \in Reachable
    BY <1>0, <1>1, <1>2 DEF TypeOK, Reachable
  <2>2. sess[sessions[a]].chan = c
    BY <1>0, <1>1, <1>2, <2>1, SessionsPersist
  <2>3. attr[c] = a
    BY <1>0, <1>1, <1>2, <2>1, <2>2 DEF OwnerInv, AccountInv
  <2>4. QED
    BY <1>1, <1>2, <2>1, <2>2, <2>3 DEF Registered
<1>3. ASSUME NEW l \in Loops, AddSession(l), a = th[l].sid, sessions'[a] = FreshSession,
             sess'[FreshSession] = NewSession(th[l].ctx, a)
      PROVE  th[l].ctx = c
  BY <1>1, <1>3 DEF NewSession
<1>4. ASSUME NEW l \in Loops, UpdateSession(l), sessions'[a] = th[l].ref
      PROVE  FALSE
  <2>1. th[l].ref \in SessionIds /\ th[l].ref \in Reachable
    BY <1>0, <1>4 DEF UpdateSession, TypeOK, HandlersOK, FoundSteps, Reachable
  <2>2. sess[th[l].ref].chan = c
    BY <1>0, <1>1, <1>4, <2>1, SessionsPersist
  <2>3. QED
    BY <1>4, <2>2 DEF UpdateSession, HandlerInv, LoopIdle
<1>5. QED
  BY <1>0, <1>1, <1>2, <1>3, <1>4, MapStep

\* The disconnect of a watch channel that is bound starts its close.
LEMMA InactiveStep ==
  ASSUME OneLoginId, TypeOK, BindInv, [Next]_vars,
         NEW c \in SocketChannels, attr[c] # None, c \in inactive, c \notin inactive'
  PROVE  th'[LoopOf[c]].ctx = c /\ th'[LoopOf[c]].pc = "close"
<1>0. c \in Channels /\ LoopOf[c] \in Loops /\ th \in [Loops -> Thread] /\ ~Unbound(c)
  BY LoopOfType DEF Channels, TypeOK, HandlersOK, Unbound, OneLoginId, BindInv
<1>1. ASSUME NEW l \in Loops, LoopStep(l)
      PROVE  FALSE
  <2>1. CASE RemoveSession(l)
    BY <2>1 DEF RemoveSession, CloseChannel, TransportClosed, transport
  <2>2. CASE ~RemoveSession(l)
    BY <1>1, <2>2 DEF LoopStep, CreateSession, KickFromGroup, KickFromMap, AddSession, AddSessionJoin,
       AddPageRead, AddPageStore, UpdateSession, AddPageJoin, CloseLookup, RemoveFromMap,
       BroadcastOffline, LeaveGroup, transport
  <2>3. QED
    BY <2>1, <2>2
<1>2. ASSUME NEW d \in Channels, ChannelEvent(d)
      PROVE  d = c /\ ChannelInactive(c)
  BY <1>2 DEF ChannelEvent, Heartbeat, PeerClose, RunQueuedClose, ChannelInactive, ReaderIdle,
              TransportClosed, transport
<1>3. ChannelInactive(c)
  BY <1>1, <1>2 DEF Next, Drained, vars
<1>4. th'[LoopOf[c]] = Running("close", c, attr[c])
  BY <1>0, <1>3 DEF ChannelInactive
<1>5. QED
  BY <1>4 DEF Running

\* The close of a registered watch comes to the removal from the map.
LEMMA ClosingStep ==
  ASSUME OneLoginId, PresenceInv, HandlerInv, BindInv, OwnerInv, [Next]_vars,
         NEW a \in Accounts, NEW c \in SocketChannels,
         Registered(a, c), Registered(a, c)', attr[c] = a, sessions[a] \in SessionIds,
         At(c, {"close", "remove", "drop"})
  PROVE  At(c, {"close", "remove", "drop"})'
<1> DEFINE l == LoopOf[c]
<1>0. /\ l \in Loops /\ th \in [Loops -> Thread] /\ TypeOK
      /\ th[l].ctx = c /\ th[l].pc \in {"close", "remove", "drop"} /\ th[l].sid = a
  BY LoopOfType DEF Channels, PresenceInv, OfflineInv, TypeOK, HandlersOK, HandlerInv, At, LoopIdle, CloseSteps
<1>1. CASE th'[l] = th[l]
  BY <1>0, <1>1 DEF At
<1>2. CASE LoopStep(l)
  <2>1. CASE CloseLookup(l)
    BY <1>0, <2>1 DEF CloseLookup, Registered, Goto, At, Thread
  <2>2. CASE RemoveSession(l)
    <3>1. /\ sessions[th[l].sid] # None /\ Source(sess[sessions[th[l].sid]].chan) = "socket"
      BY <1>0, ChannelAssumption DEF Registered, Source, ChannelAssumption
    <3>2. Goto(l, "drop")
      BY <2>2, <3>1 DEF RemoveSession
    <3>3. QED
      BY <1>0, <3>2 DEF Goto, At, Thread
  <2>3. CASE RemoveFromMap(l)
    BY <1>0, <2>3 DEF RemoveFromMap, Registered, TypeOK
  <2>4. QED
    BY <1>0, <1>2, <2>1, <2>2, <2>3 DEF LoopStep, CreateSession, KickFromGroup, KickFromMap, AddSession,
       AddSessionJoin, AddPageRead, AddPageStore, UpdateSession, AddPageJoin, BroadcastOffline, LeaveGroup
<1>3. ASSUME NEW d \in Channels, ChannelEvent(d)
      PROVE  th'[l] = th[l]
  BY <1>0, <1>3, EventFrame DEF LoopIdle
<1>4. QED
  BY <1>0, <1>1, <1>2, <1>3, LoopFrame DEF Next, Drained, vars

LEMMA LiveInductive ==
  ASSUME OneLoginId, PresenceInv, HandlerInv, BindInv, OwnerInv, SocketSessionLive, [Next]_vars
  PROVE  SocketSessionLive'
<1>0. TypeOK
  BY DEF PresenceInv, OfflineInv
<1>1. SUFFICES ASSUME NEW a \in Accounts, NEW c \in SocketChannels, Registered(a, c)'
               PROVE  c \in open' \cup inactive' \/ At(c, {"close", "remove", "drop"})'
  BY DEF SocketSessionLive
<1>2. ASSUME NEW l \in Loops, AddSession(l), th[l].ctx = c
      PROVE  c \in open'
  BY <1>0, <1>2, UnboundLogin DEF AddSession, transport
<1>3. CASE Registered(a, c) /\ attr[c] = a /\ sessions[a] \in SessionIds
  <2>1. CASE c \in open
    BY <1>0, <2>1, OpenStep DEF Channels
  <2>2. CASE c \in inactive
    <3>1. CASE c \notin inactive'
      BY <1>0, <1>3, <2>2, <3>1, InactiveStep, NoneAssumption DEF NoneAssumption, At
    <3>2. QED
      BY <3>1
  <2>3. CASE At(c, {"close", "remove", "drop"})
    BY <1>1, <1>3, <2>3, ClosingStep
  <2>4. QED
    BY <1>3, <2>1, <2>2, <2>3 DEF SocketSessionLive
<1>4. QED
  BY <1>1, <1>2, <1>3, RegisteredStep

\* A channel does not open again.
LEMMA OpenMonotone ==
  ASSUME [Next]_vars, NEW c \in Channels, c \in open'
  PROVE  c \in open
<1>1. ASSUME NEW l \in Loops, LoopStep(l)
      PROVE  c \in open
  <2>1. CASE RemoveSession(l)
    BY <2>1 DEF RemoveSession, CloseChannel, TransportClosed, transport
  <2>2. CASE ~RemoveSession(l)
    BY <1>1, <2>2 DEF LoopStep, CreateSession, KickFromGroup, KickFromMap, AddSession, AddSessionJoin,
       AddPageRead, AddPageStore, UpdateSession, AddPageJoin, CloseLookup, RemoveFromMap,
       BroadcastOffline, LeaveGroup, transport
  <2>3. QED
    BY <2>1, <2>2
<1>2. ASSUME NEW d \in Channels, ChannelEvent(d)
      PROVE  c \in open
  BY <1>2 DEF ChannelEvent, Heartbeat, PeerClose, RunQueuedClose, ChannelInactive, ReaderIdle,
              TransportClosed, transport
<1>3. QED
  BY <1>1, <1>2 DEF Next, Drained, vars

LEMMA LeaveInductive ==
  ASSUME OneLoginId, PresenceInv, HandlerInv, BindInv, OwnerInv, LeaveInv, [Next]_vars
  PROVE  LeaveInv'
<1>0. TypeOK /\ HandlerInv' /\ th \in [Loops -> Thread]
  BY HandlerInductive DEF PresenceInv, OfflineInv, TypeOK, HandlersOK
<1>1. SUFFICES ASSUME NEW l \in Loops, NEW a \in Accounts, NEW c \in SocketChannels,
                      th'[l].pc \in {"broadcast", "leave"}, th'[l].ctx = c, c \in open',
                      Registered(a, c)'
               PROVE  FALSE
  BY DEF LeaveInv, Registered
<1>2. ASSUME NEW k \in Loops, AddSession(k), th[k].ctx = c
      PROVE  FALSE
  <2>1. LoopOf[c] = k /\ LoopOf[c] = l
    BY <1>0, <1>1, <1>2 DEF HandlerInv, LoopIdle, AddSession
  <2>2. th'[l].pc = "join"
    BY <1>0, <1>2, <2>1 DEF AddSession, Goto, Thread
  <2>3. QED
    BY <1>1, <2>2
<1>3. /\ Registered(a, c) /\ sessions'[a] = sessions[a] /\ sessions[a] \in SessionIds /\ attr[c] = a
      /\ sessions'[a] # None
  BY <1>1, <1>2, RegisteredStep DEF Registered
<1>4. c \in open
  BY <1>1, OpenMonotone DEF Channels
<1>5. CASE th'[l] = th[l]
  BY <1>1, <1>3, <1>4, <1>5 DEF LeaveInv
<1>6. CASE LoopStep(l)
  <2>1. CASE RemoveSession(l)
    <3>1. th[l].ctx = c /\ th[l].sid = a
      <4>1. th'[l].ctx = th[l].ctx /\ th[l].pc = "remove"
        <5>1. Goto(l, "drop") \/ Goto(l, "leave")
          BY <2>1 DEF RemoveSession
        <5>2. QED
          BY <1>0, <2>1, <5>1 DEF RemoveSession, Goto, Thread
      <4>2. ~LoopIdle(l) /\ th[l].pc \in CloseSteps
        BY <4>1 DEF LoopIdle, CloseSteps
      <4>3. QED
        BY <1>1, <1>3, <4>1, <4>2 DEF HandlerInv
    <3>2. Source(sess[sessions[a]].chan) = "socket"
      BY <1>3, ChannelAssumption DEF Registered, Source, ChannelAssumption
    <3>3. Goto(l, "drop")
      BY <1>3, <2>1, <3>1, <3>2 DEF RemoveSession, Registered
    <3>4. QED
      BY <1>0, <1>1, <3>3 DEF Goto, Thread
  <2>2. CASE RemoveFromMap(l)
    <3>1. th[l].ctx = c /\ th[l].sid = a
      BY <1>0, <1>1, <1>3, <2>2 DEF RemoveFromMap, HandlerInv, LoopIdle, CloseSteps, Goto, Thread
    <3>2. QED
      BY <1>0, <1>3, <2>2, <3>1 DEF RemoveFromMap, TypeOK
  <2>3. CASE BroadcastOffline(l)
    <3>1. th[l].ctx = c
      BY <1>0, <1>1, <2>3 DEF BroadcastOffline, Goto, Thread
    <3>2. QED
      BY <1>3, <1>4, <2>3, <3>1 DEF LeaveInv, BroadcastOffline
  <2>4. QED
    BY <1>0, <1>1, <1>6, <2>1, <2>2, <2>3 DEF LoopStep, CreateSession, KickFromGroup, KickFromMap,
       AddSession, AddSessionJoin, AddPageRead, AddPageStore, UpdateSession, AddPageJoin, CloseLookup,
       LeaveGroup, Goto, Finish, Idle, Thread
<1>7. ASSUME NEW d \in Channels, ChannelEvent(d), th'[l] # th[l]
      PROVE  FALSE
  <2>1. \E step \in {"get", "close"} : \E b : th'[l] = Running(step, d, b)
    BY <1>0, <1>7, EventFrame
  <2>2. QED
    BY <1>1, <2>1 DEF Running
<1>8. QED
  BY <1>0, <1>5, <1>6, <1>7, LoopFrame DEF Next, Drained, vars

\* How a channel leaves the group.
LEMMA GroupStep ==
  ASSUME [Next]_vars, NEW c, c \in group, c \notin group', c \in open'
  PROVE  \E l \in Loops : \/ KickFromGroup(l) /\ sess[th[l].ref].chan = c
                          \/ LeaveGroup(l) /\ th[l].ctx = c
<1>1. ASSUME NEW l \in Loops, LoopStep(l)
      PROVE  \/ KickFromGroup(l) /\ sess[th[l].ref].chan = c
             \/ LeaveGroup(l) /\ th[l].ctx = c
  <2>1. CASE RemoveSession(l)
    BY <2>1 DEF RemoveSession, CloseChannel, TransportClosed
  <2>2. CASE ~RemoveSession(l)
    BY <1>1, <2>2 DEF LoopStep, CreateSession, KickFromGroup, KickFromMap, AddSession, AddSessionJoin,
       AddPageRead, AddPageStore, UpdateSession, AddPageJoin, CloseLookup, RemoveFromMap,
       BroadcastOffline, LeaveGroup, Join
  <2>3. QED
    BY <2>1, <2>2
<1>2. ASSUME NEW d \in Channels, ChannelEvent(d)
      PROVE  FALSE
  BY <1>2 DEF ChannelEvent, Heartbeat, PeerClose, RunQueuedClose, ChannelInactive, ReaderIdle,
              TransportClosed, transport
<1>3. QED
  BY <1>1, <1>2 DEF Next, Drained, vars

LEMMA GroupInductive ==
  ASSUME OneLoginId, PresenceInv, HandlerInv, BindInv, OwnerInv, LeaveInv, RegisteredInGroup, [Next]_vars
  PROVE  RegisteredInGroup'
<1>0. TypeOK /\ AccountInv /\ th \in [Loops -> Thread]
  BY DEF PresenceInv, OfflineInv, TypeOK, HandlersOK
<1>1. SUFFICES ASSUME NEW a \in Accounts, NEW c \in SocketChannels,
                      Registered(a, c)', c \in open', ~At(c, {"join"})',
                      \A l \in Loops : th'[l].pc = "unmap" => th'[l].ref # sessions'[a]
               PROVE  c \in group'
  BY DEF RegisteredInGroup
<1>2. c \in Channels /\ LoopOf[c] \in Loops
  BY LoopOfType DEF Channels
<1>3. ASSUME NEW k \in Loops, AddSession(k), th[k].ctx = c
      PROVE  FALSE
  <2>1. LoopOf[c] = k
    BY <1>3 DEF HandlerInv, LoopIdle, AddSession
  <2>2. th'[k].pc = "join" /\ th'[k].ctx = c
    BY <1>0, <1>3 DEF AddSession, Goto, Thread
  <2>3. QED
    BY <1>1, <2>1, <2>2 DEF At
<1>4. /\ Registered(a, c) /\ sessions'[a] = sessions[a] /\ sessions[a] \in SessionIds /\ attr[c] = a
      /\ sessions'[a] # None /\ sess[sessions[a]].chan = c
  BY <1>1, <1>3, RegisteredStep DEF Registered
<1>5. c \in open
  BY <1>1, <1>2, OpenMonotone
<1>6. CASE At(c, {"join"})
  <2>1. LoopStep(LoopOf[c])
    <3>1. th'[LoopOf[c]] # th[LoopOf[c]]
      BY <1>1, <1>6 DEF At
    <3>2. ASSUME NEW d \in Channels, ChannelEvent(d)
          PROVE  th'[LoopOf[c]] = th[LoopOf[c]]
      BY <1>0, <1>2, <1>6, <3>2, EventFrame DEF At, LoopIdle
    <3>3. QED
      BY <1>0, <1>2, <3>1, <3>2, LoopFrame DEF Next, Drained, vars
  <2>2. AddSessionJoin(LoopOf[c])
    BY <1>6, <2>1 DEF At, LoopStep, CreateSession, KickFromGroup, KickFromMap, AddSession,
       AddPageRead, AddPageStore, UpdateSession, AddPageJoin, CloseLookup, RemoveSession,
       RemoveFromMap, BroadcastOffline, LeaveGroup
  <2>3. QED
    BY <1>6, <2>2 DEF AddSessionJoin, Join, At
<1>7. ASSUME NEW l \in Loops, th[l].pc = "unmap", th[l].ref = sessions[a]
      PROVE  FALSE
  <2>1. th'[l] # th[l]
    BY <1>1, <1>4, <1>7
  <2>2. ASSUME NEW d \in Channels, ChannelEvent(d)
        PROVE  th'[l] = th[l]
    BY <1>0, <1>7, <2>2, EventFrame DEF LoopIdle
  <2>3. LoopStep(l)
    BY <1>0, <2>1, <2>2, LoopFrame DEF Next, Drained, vars
  <2>4. KickFromMap(l)
    BY <1>7, <2>3 DEF LoopStep, CreateSession, KickFromGroup, AddSession, AddSessionJoin,
       AddPageRead, AddPageStore, UpdateSession, AddPageJoin, CloseLookup, RemoveSession,
       RemoveFromMap, BroadcastOffline, LeaveGroup
  <2>5. sess[th[l].ref].account = a
    BY <1>0, <1>4, <1>7 DEF AccountInv
  <2>6. sessions'[a] = None
    BY <1>0, <2>4, <2>5 DEF KickFromMap, TypeOK
  <2>7. QED
    BY <1>4, <2>6
<1>8. CASE /\ ~At(c, {"join"})
           /\ \A l \in Loops : th[l].pc = "unmap" => th[l].ref # sessions[a]
  <2>1. c \in group
    BY <1>4, <1>5, <1>8 DEF RegisteredInGroup
  <2>2. SUFFICES ASSUME c \notin group'
                 PROVE  FALSE
    OBVIOUS
  <2>3. PICK l \in Loops : (KickFromGroup(l) /\ sess[th[l].ref].chan = c)
                            \/ (LeaveGroup(l) /\ th[l].ctx = c)
    BY <1>1, <2>1, <2>2, GroupStep
  <2>4. CASE KickFromGroup(l) /\ sess[th[l].ref].chan = c
    <3>1. th[l].ref \in SessionIds
      BY <1>0, <2>4 DEF KickFromGroup, TypeOK, HandlersOK, FoundSteps
    <3>2. th[l].ref = sessions[a]
      BY <1>4, <2>4, <3>1, NoneAssumption DEF NoneAssumption, OwnerInv, Reachable
    <3>3. th'[l].pc = "unmap" /\ th'[l].ref = th[l].ref
      BY <1>0, <2>4 DEF KickFromGroup, Goto, Thread
    <3>4. QED
      BY <1>1, <1>4, <3>2, <3>3
  <2>5. CASE LeaveGroup(l) /\ th[l].ctx = c
    BY <1>4, <1>5, <2>5 DEF LeaveGroup, LeaveInv
  <2>6. QED
    BY <2>3, <2>4, <2>5
<1>9. QED
  BY <1>6, <1>7, <1>8

LEMMA SocketInvariant == OneLoginId => (Spec => []SocketInv)
<1> SUFFICES ASSUME OneLoginId
             PROVE  Spec => []SocketInv
  OBVIOUS
<1>1. Init => PresenceInv /\ HandlerInv /\ BindInv /\ OwnerInv /\ SocketSessionLive /\ LeaveInv
              /\ RegisteredInGroup
  <2>1. Init => PresenceInv
    BY PresenceStart
  <2>2. Init => HandlerInv /\ BindInv /\ OwnerInv /\ SocketSessionLive /\ LeaveInv /\ RegisteredInGroup
    <3> SUFFICES ASSUME Init
                 PROVE  /\ HandlerInv /\ BindInv /\ OwnerInv
                        /\ SocketSessionLive /\ LeaveInv /\ RegisteredInGroup
      OBVIOUS
    <3>1. \A l \in Loops : th[l].pc = "idle" /\ th[l].ref = None
      BY DEF Init, Idle
    <3>2. \A a \in Accounts : sessions[a] = None
      BY DEF Init
    <3>3. Reachable \subseteq {None}
      BY <3>1, <3>2 DEF Reachable
    <3>4. HandlerInv /\ LeaveInv
      BY <3>1 DEF HandlerInv, LeaveInv, LoopIdle
    <3>5. BindInv
      BY DEF Init, BindInv
    <3>6. OwnerInv
      BY <3>3 DEF OwnerInv
    <3>7. SocketSessionLive /\ RegisteredInGroup
      BY <3>2 DEF SocketSessionLive, RegisteredInGroup, Registered
    <3>8. QED
      BY <3>4, <3>5, <3>6, <3>7
  <2>3. QED
    BY <2>1, <2>2
<1>2. SocketInv /\ [Next]_vars => SocketInv'
  <2> SUFFICES ASSUME SocketInv, [Next]_vars
               PROVE  SocketInv'
    OBVIOUS
  <2>1. TypeOK
    BY DEF SocketInv, PresenceInv, OfflineInv
  <2>2. PresenceInv'
    BY OfflineInductive, AccountInductive DEF SocketInv, PresenceInv, OfflineInv
  <2>3. HandlerInv' /\ BindInv' /\ OwnerInv'
    BY <2>1, HandlerInductive, BindInductive, OwnerInductive DEF SocketInv
  <2>4. SocketSessionLive' /\ LeaveInv' /\ RegisteredInGroup'
    BY LiveInductive, LeaveInductive, GroupInductive DEF SocketInv
  <2>5. QED
    BY <2>2, <2>3, <2>4 DEF SocketInv
<1>3. QED
  BY <1>1, <1>2, PTL DEF Spec, SocketInv

\* When every client keeps to one device id that is not blank, no watch session
\* stays in the map after its connection has ended and the end was handled,
\* however the loops interleave.
THEOREM NoSessionOutlivesItsConnection == OneLoginId => (Spec => []SocketSessionLive)
<1>1. SocketInv => SocketSessionLive
  BY DEF SocketInv
<1>2. QED
  BY <1>1, SocketInvariant, PTL

\* Under the same condition every registered watch gets the broadcasts: no
\* disconnect or login of another channel takes it out of the group.
THEOREM RegisteredGetsBroadcasts == OneLoginId => (Spec => []RegisteredInGroup)
<1>1. SocketInv => RegisteredInGroup
  BY DEF SocketInv
<1>2. QED
  BY <1>1, SocketInvariant, PTL

\* Under the same condition every reachable state satisfies SupportInv: in
\* particular what the handlers rely on: a login runs on an open channel, and
\* a watch channel is the channel of one session only.
THEOREM RegistryInvariant == OneLoginId => (Spec => []SupportInv)
<1>1. SocketInv => SupportInv
  BY DEF SocketInv, PresenceInv, OfflineInv, SupportInv
<1>2. QED
  BY <1>1, SocketInvariant, PTL

-----------------------------------------------------------------------------
(* Accounts of which no login has run along with another handler: what a   *)
(* handler has found in the registry is still there when it uses it,       *)
(* whatever the handlers of other accounts do.                             *)

\* Who races now has been noted.
RacedInv == Racing \subseteq raced

\* A step notes the accounts that race after it.
LEMMA RaceStep ==
  ASSUME RacedInv, [Next /\ raced' = raced \cup Racing']_<<vars, raced>>
  PROVE  [Next]_vars /\ raced \subseteq raced' /\ Unraced' \subseteq Unraced /\ RacedInv'
<1>1. CASE Next /\ raced' = raced \cup Racing'
  BY <1>1 DEF RacedInv, Unraced
<1>2. CASE UNCHANGED <<vars, raced>>
  BY <1>2 DEF RacedInv, Racing, Unraced, vars
<1>3. QED
  BY <1>1, <1>2

\* No other handler runs for the account of a login.
LEMMA NoOther ==
  ASSUME RacedInv, NEW k \in Loops, th[k].pc \in LoginSteps, th[k].sid \in Unraced,
         NEW l \in Loops, l # k
  PROVE  th[l].sid # th[k].sid
BY DEF RacedInv, Racing, Unraced

\* A watch stays disconnected.
LEMMA ConnectedStep ==
  ASSUME [Next]_vars, NEW d \in Connected'
  PROVE  d \in Connected
<1>1. ASSUME NEW l \in Loops, RemoveSession(l)
      PROVE  d \in Connected
  BY <1>1 DEF RemoveSession, CloseChannel, TransportClosed, transport, Connected
<1>2. ASSUME NEW l \in Loops, LoopStep(l)
      PROVE  RemoveSession(l) \/ (open' = open /\ closing' = closing)
  BY <1>2 DEF LoopStep, CreateSession, KickFromGroup, KickFromMap, AddSession, AddSessionJoin,
     AddPageRead, AddPageStore, UpdateSession, AddPageJoin, CloseLookup, RemoveFromMap,
     BroadcastOffline, LeaveGroup, transport
<1>3. ASSUME NEW c \in Channels, ChannelEvent(c)
      PROVE  d \in Connected
  BY <1>3 DEF ChannelEvent, Heartbeat, PeerClose, RunQueuedClose, ChannelInactive, ReaderIdle,
              TransportClosed, transport, Connected
<1>4. QED
  BY <1>1, <1>2, <1>3 DEF Next, Drained, vars, Connected

\* The handler of a loop is for a device id that its client may send.
LEMMA HandlerLogin ==
  ASSUME TypeOK, HandlerInv, BindInv, NEW l \in Loops, ~LoopIdle(l)
  PROVE  /\ th[l].ctx \in Channels /\ LoopOf[th[l].ctx] = l
         /\ th[l].sid \in Accounts /\ th[l].sid \in LoginIds[th[l].ctx]
<1>1. /\ th[l].ctx \in Channels /\ th[l].sid \in Accounts
      /\ th[l].pc \in LoginSteps \cup CloseSteps
      /\ LoopOf[th[l].ctx] = l
  BY DEF TypeOK, HandlersOK, Thread, LoopIdle, HandlerInv
<1>2. CASE th[l].pc \in LoginSteps
  BY <1>1, <1>2 DEF HandlerInv
<1>3. CASE th[l].pc \in CloseSteps
  BY <1>1, <1>3, NoneAssumption DEF HandlerInv, BindInv, NoneAssumption
<1>4. QED
  BY <1>1, <1>2, <1>3

\* A step of a loop is a step of a handler.
LEMMA Busy ==
  ASSUME NEW l \in Loops, LoopStep(l)
  PROVE  ~LoopIdle(l)
BY DEF LoopIdle, LoopStep, CreateSession, KickFromGroup, KickFromMap, AddSession, AddSessionJoin,
   AddPageRead, AddPageStore, UpdateSession, AddPageJoin, CloseLookup, RemoveSession,
   RemoveFromMap, BroadcastOffline, LeaveGroup

\* Only a handler for the account changes its entry in the map.
LEMMA EntryStep ==
  ASSUME TypeOK, AccountInv, [Next]_vars, NEW a \in Accounts, sessions'[a] # sessions[a]
  PROVE  \E l \in Loops : /\ th[l].sid = a
                          /\ AddSession(l) \/ UpdateSession(l) \/ KickFromMap(l) \/ RemoveFromMap(l)
<1>1. /\ sessions \in [Accounts -> SessionIds \cup {None}]
      /\ \A l \in Loops : th[l].pc \in FoundSteps => sess[th[l].ref].account = th[l].sid
  BY DEF TypeOK, AccountInv
<1>2. ASSUME NEW l \in Loops, LoopStep(l)
      PROVE  /\ th[l].sid = a
             /\ AddSession(l) \/ UpdateSession(l) \/ KickFromMap(l) \/ RemoveFromMap(l)
  <2>1. AddSession(l) \/ UpdateSession(l) \/ KickFromMap(l) \/ RemoveFromMap(l)
    BY <1>2 DEF LoopStep, CreateSession, KickFromGroup, AddSessionJoin, AddPageRead, AddPageStore,
                AddPageJoin, CloseLookup, RemoveSession, BroadcastOffline, LeaveGroup
  <2>2. CASE AddSession(l) \/ RemoveFromMap(l)
    BY <1>1, <2>2 DEF AddSession, RemoveFromMap
  <2>3. CASE UpdateSession(l) \/ KickFromMap(l)
    BY <1>1, <2>3 DEF UpdateSession, KickFromMap, FoundSteps
  <2>4. QED
    BY <2>1, <2>2, <2>3
<1>3. ASSUME NEW d \in Channels, ChannelEvent(d)
      PROVE  FALSE
  BY <1>3, EventFrame
<1>4. QED
  BY <1>2, <1>3 DEF Next, Drained, vars

\* Only a handler for the account of a session changes its page table.
LEMMA PagesStep ==
  ASSUME TypeOK, AccountInv, [Next]_vars, NEW n \in SessionIds, n \in Reachable, sess'[n] # sess[n]
  PROVE  \E l \in Loops : /\ th[l].sid = sess[n].account
                          /\ \/ AddPageStore(l) /\ th[l].ref = n
                             \/ RemoveSession(l) /\ sessions[th[l].sid] = n
<1>1. /\ sess \in [SessionIds -> Session]
      /\ \A l \in Loops : th[l].pc \in FoundSteps => sess[th[l].ref].account = th[l].sid
      /\ \A a \in Accounts : sessions[a] # None => sess[sessions[a]].account = a
      /\ \A l \in Loops : ~LoopIdle(l) => th[l].sid \in Accounts
  BY DEF TypeOK, HandlersOK, AccountInv
<1>2. ASSUME NEW l \in Loops, LoopStep(l)
      PROVE  /\ th[l].sid = sess[n].account
             /\ \/ AddPageStore(l) /\ th[l].ref = n
                \/ RemoveSession(l) /\ sessions[th[l].sid] = n
  <2>1. AddSession(l) \/ AddPageStore(l) \/ RemoveSession(l)
    BY <1>2 DEF LoopStep, CreateSession, KickFromGroup, KickFromMap, AddSessionJoin, AddPageRead,
                UpdateSession, AddPageJoin, CloseLookup, RemoveFromMap, BroadcastOffline, LeaveGroup
  <2>2. CASE AddSession(l)
    BY <1>1, <2>2, FreshSessionUnused DEF AddSession
  <2>3. CASE AddPageStore(l)
    BY <1>1, <2>3 DEF AddPageStore, FoundSteps
  <2>4. CASE RemoveSession(l)
    <3> DEFINE s == sessions[th[l].sid]
    <3>1. \/ sess' = sess
          \/ s # None /\ sess' = [sess EXCEPT ![s].pages = sess[s].pages \ {th[l].ctx}]
      BY <2>4 DEF RemoveSession
    <3>2. s # None /\ s = n
      BY <1>1, <3>1
    <3>3. th[l].sid \in Accounts
      BY <1>1, <1>2, Busy
    <3>4. QED
      BY <1>1, <2>4, <3>2, <3>3
  <2>5. QED
    BY <2>1, <2>2, <2>3, <2>4
<1>3. ASSUME NEW d \in Channels, ChannelEvent(d)
      PROVE  FALSE
  BY <1>3, EventFrame
<1>4. QED
  BY <1>2, <1>3 DEF Next, Drained, vars

\* A client with one device id stays bound to it.
LEMMA StaysBound ==
  ASSUME OneLoginId, TypeOK, HandlerInv, BindInv, [Next]_vars, NEW c \in Channels, attr[c] # None
  PROVE  attr'[c] = attr[c]
<1>1. SUFFICES ASSUME attr'[c] # attr[c]
               PROVE  FALSE
  OBVIOUS
<1>2. PICK l \in Loops : /\ AddSession(l) \/ AddPageRead(l)
                         /\ th[l].ctx = c /\ attr'[c] = th[l].sid
  BY <1>1, AttrStep
<1>3. ~LoopIdle(l)
  BY <1>2 DEF AddSession, AddPageRead, LoopIdle
<1>4. th[l].sid \in LoginIds[c] /\ attr[c] \in LoginIds[c]
  BY <1>2, <1>3, HandlerLogin DEF BindInv
<1>5. QED
  BY <1>1, <1>2, <1>4 DEF OneLoginId

\* How a channel joins the group.
LEMMA JoinStep ==
  ASSUME [Next]_vars, NEW c, c \notin group, c \in group'
  PROVE  \E l \in Loops : (AddSessionJoin(l) \/ AddPageJoin(l)) /\ th[l].ctx = c
<1>1. ASSUME NEW l \in Loops, LoopStep(l)
      PROVE  (AddSessionJoin(l) \/ AddPageJoin(l)) /\ th[l].ctx = c
  <2>1. CASE RemoveSession(l)
    BY <2>1 DEF RemoveSession, CloseChannel, TransportClosed
  <2>2. CASE ~RemoveSession(l)
    BY <1>1, <2>2 DEF LoopStep, CreateSession, KickFromGroup, KickFromMap, AddSession, AddSessionJoin,
       AddPageRead, AddPageStore, UpdateSession, AddPageJoin, CloseLookup, RemoveFromMap,
       BroadcastOffline, LeaveGroup, Join
  <2>3. QED
    BY <2>1, <2>2
<1>2. ASSUME NEW d \in Channels, ChannelEvent(d)
      PROVE  FALSE
  BY <1>2 DEF ChannelEvent, Heartbeat, PeerClose, RunQueuedClose, ChannelInactive, ReaderIdle,
              TransportClosed
<1>3. QED
  BY <1>1, <1>2 DEF Next, Drained, vars

LEMMA ClientInductive ==
  ASSUME TypeOK, HandlerInv, BindInv, ClientInv, [Next]_vars
  PROVE  ClientInv'
<1>1. SUFFICES ASSUME NEW m \in Reachable', m # None
               PROVE  sess'[m].chan \in Channels /\ sess'[m].account \in LoginIds[sess'[m].chan]
  BY DEF ClientInv
<1>2. CASE m \in Reachable /\ m \in SessionIds
  BY <1>1, <1>2, SessionsPersist DEF ClientInv
<1>3. ASSUME NEW l \in Loops, AddSession(l), m = FreshSession
      PROVE  sess'[m].chan \in Channels /\ sess'[m].account \in LoginIds[sess'[m].chan]
  <2>1. /\ th[l].ctx \in Channels /\ th[l].sid \in LoginIds[th[l].ctx]
    BY <1>3, HandlerLogin DEF AddSession, LoopIdle
  <2>2. sess'[m] = NewSession(th[l].ctx, th[l].sid)
    BY <1>3, FreshSessionUnused DEF AddSession, TypeOK
  <2>3. QED
    BY <2>1, <2>2 DEF NewSession
<1>4. QED
  BY <1>1, <1>2, <1>3, ReachableStep

\* What the steps of others leave of the account of a handler that logs in or
\* is about to drop a session: another close is outside the monitor.
LEMMA OthersStep ==
  ASSUME OneLoginId, SocketInv, RacedInv, [Next]_vars,
         NEW k \in Loops, th[k].pc \in LoginSteps \cup {"drop"}, th[k].sid \in Unraced, ~LoopStep(k)
  PROVE  /\ th'[k] = th[k]
         /\ sessions'[th[k].sid] = sessions[th[k].sid]
         /\ attr'[th[k].ctx] = attr[th[k].ctx]
         /\ \A n \in SessionIds \cap Reachable : sess[n].account = th[k].sid => sess'[n] = sess[n]
<1>0. /\ TypeOK /\ AccountInv /\ HandlerInv /\ BindInv /\ MonitorInv /\ ~LoopIdle(k)
      /\ th[k].sid \in Accounts /\ th[k].ctx \in Channels /\ LoopOf[th[k].ctx] = k
  <2>1. TypeOK /\ AccountInv /\ HandlerInv /\ BindInv /\ MonitorInv
    BY DEF SocketInv, PresenceInv, OfflineInv
  <2>2. ~LoopIdle(k)
    BY DEF LoopIdle, LoginSteps
  <2>3. QED
    BY <2>1, <2>2, HandlerLogin
<1>1. ASSUME NEW l \in Loops, LoopStep(l)
      PROVE  l # k /\ (th[l].sid = th[k].sid => CloseLookup(l) \/ LeaveGroup(l))
  <2>1. l # k
    BY <1>1
  <2>2. SUFFICES ASSUME th[l].sid = th[k].sid
                 PROVE  CloseLookup(l) \/ LeaveGroup(l)
    BY <2>1
  <2>3. th[k].pc = "drop" /\ th[l].pc \notin LoginSteps
    <3>1. th[k].pc \notin LoginSteps
      BY <2>1, <2>2, NoOther
    <3>2. th[l].sid \in Unraced
      BY <2>2
    <3>3. th[l].pc \notin LoginSteps
      BY <2>1, <2>2, <3>2, NoOther
    <3>4. QED
      BY <3>1, <3>3
  <2>4. monitor = k /\ k # None /\ th[l].pc \notin {"join", "drop", "broadcast"}
    <3>1. monitor = k
      BY <1>0, <2>3 DEF MonitorInv
    <3>2. QED
      BY <1>0, <2>1, <3>1, LoopIsNotNone DEF MonitorInv
  <2>5. QED
    BY <1>1, <2>3, <2>4 DEF LoopStep, CreateSession, KickFromGroup, KickFromMap, AddSession,
       AddSessionJoin, AddPageRead, AddPageStore, UpdateSession, AddPageJoin, RemoveSession,
       RemoveFromMap, BroadcastOffline, CanEnter, LoginSteps
<1>2. th'[k] = th[k]
  <2>1. ASSUME NEW c \in Channels, ChannelEvent(c)
        PROVE  th'[k] = th[k]
    BY <1>0, <2>1, EventFrame
  <2>2. QED
    BY <1>0, <1>1, <2>1, LoopFrame DEF Next, Drained, vars
<1>3. sessions'[th[k].sid] = sessions[th[k].sid]
  <2>1. SUFFICES ASSUME sessions'[th[k].sid] # sessions[th[k].sid]
                 PROVE  FALSE
    OBVIOUS
  <2>2. PICK l \in Loops : /\ th[l].sid = th[k].sid
                           /\ AddSession(l) \/ UpdateSession(l) \/ KickFromMap(l) \/ RemoveFromMap(l)
    BY <1>0, <2>1, EntryStep
  <2>3. CloseLookup(l) \/ LeaveGroup(l)
    BY <1>1, <2>2 DEF LoopStep
  <2>4. QED
    BY <2>2, <2>3 DEF AddSession, UpdateSession, KickFromMap, RemoveFromMap, CloseLookup, LeaveGroup
<1>4. attr'[th[k].ctx] = attr[th[k].ctx]
  <2>1. SUFFICES ASSUME attr'[th[k].ctx] # attr[th[k].ctx]
                 PROVE  FALSE
    OBVIOUS
  <2>2. PICK l \in Loops : (AddSession(l) \/ AddPageRead(l)) /\ th[l].ctx = th[k].ctx
    BY <1>0, <2>1, AttrStep
  <2>3. LoopStep(l) /\ LoopOf[th[l].ctx] = l
    BY <1>0, <2>2, Busy, HandlerLogin DEF LoopStep
  <2>4. QED
    BY <1>0, <1>1, <2>2, <2>3
<1>5. ASSUME NEW n \in SessionIds \cap Reachable, sess[n].account = th[k].sid
      PROVE  sess'[n] = sess[n]
  <2>1. SUFFICES ASSUME sess'[n] # sess[n]
                 PROVE  FALSE
    OBVIOUS
  <2>2. PICK l \in Loops : th[l].sid = th[k].sid /\ (AddPageStore(l) \/ RemoveSession(l))
    BY <1>0, <1>5, <2>1, PagesStep
  <2>3. CloseLookup(l) \/ LeaveGroup(l)
    BY <1>1, <2>2 DEF LoopStep
  <2>4. QED
    BY <2>2, <2>3 DEF AddPageStore, RemoveSession, CloseLookup, LeaveGroup
<1>6. QED
  BY <1>2, <1>3, <1>4, <1>5

\* What a handler has found stays so while others run.
LEMMA StillSoOthers ==
  ASSUME OneLoginId, SocketInv, RacedInv, SerialInv, [Next]_vars,
         NEW k \in Loops, th[k].pc \in LoginSteps \cup {"drop"}, th[k].sid \in Unraced, ~LoopStep(k)
  PROVE  StillSo(k)'
<1> DEFINE a == th[k].sid
           c == th[k].ctx
           s == th[k].ref
<1>0. /\ TypeOK /\ AccountInv /\ HandlerInv /\ BindInv /\ OwnerInv
      /\ a \in Accounts /\ c \in Channels /\ a \in LoginIds[c]
  <2>1. TypeOK /\ AccountInv /\ HandlerInv /\ BindInv /\ OwnerInv
    BY DEF SocketInv, PresenceInv, OfflineInv
  <2>2. ~LoopIdle(k)
    BY DEF LoopIdle, LoginSteps
  <2>3. QED
    BY <2>1, <2>2, HandlerLogin
<1>1. /\ th'[k] = th[k] /\ sessions'[a] = sessions[a] /\ attr'[c] = attr[c]
      /\ \A n \in SessionIds \cap Reachable : sess[n].account = a => sess'[n] = sess[n]
  BY OthersStep
<1>2. StillSo(k)
  BY DEF SerialInv, SerialHandlerInv
<1>3. th[k].pc \in FoundSteps =>
        /\ s \in SessionIds \cap Reachable /\ s # None
        /\ sess[s].account = a /\ sess'[s] = sess[s]
  <2>1. SUFFICES ASSUME th[k].pc \in FoundSteps
                 PROVE  s \in SessionIds \cap Reachable /\ s # None /\ sess[s].account = a
    BY <1>1
  <2>2. QED
    BY <1>0, <2>1, NoneAssumption DEF TypeOK, HandlersOK, AccountInv, Reachable, NoneAssumption
<1>4. sessions[a] # None =>
        /\ sessions[a] \in SessionIds \cap Reachable
        /\ sess'[sessions[a]] = sess[sessions[a]]
  <2>1. SUFFICES ASSUME sessions[a] # None
                 PROVE  sessions[a] \in SessionIds \cap Reachable /\ sess[sessions[a]].account = a
    BY <1>1
  <2>2. QED
    BY <1>0, <2>1 DEF TypeOK, AccountInv, Reachable
<1>5. \A d : Registered(a, d)' <=> Registered(a, d)
  BY <1>1, <1>4 DEF Registered
<1>6. th[k].pc = "unmap" => sess'[s].chan \notin SocketChannels \cap group'
  <2>1. SUFFICES ASSUME th[k].pc = "unmap", sess[s].chan \in SocketChannels, sess[s].chan \in group'
                 PROVE  FALSE
    BY <1>3 DEF FoundSteps
  <2> DEFINE d == sess[s].chan
  <2>2. d \notin group /\ d \in Channels
    BY <1>2, <2>1 DEF StillSo, Channels
  <2>3. PICK l \in Loops : (AddSessionJoin(l) \/ AddPageJoin(l)) /\ th[l].ctx = d
    BY <2>1, <2>2, JoinStep
  <2>4. LoopStep(l) /\ th[l].sid \in LoginIds[d]
    BY <1>0, <2>3, Busy, HandlerLogin DEF LoopStep
  <2>5. a \in LoginIds[d]
    BY <1>0, <1>3, <2>1, <2>2 DEF OwnerInv, BindInv, FoundSteps
  <2>6. l # k /\ th[l].sid = a
    BY <2>2, <2>4, <2>5 DEF OneLoginId
  <2>7. QED
    BY <2>1, <2>6, NoOther DEF LoginSteps
<1>7. th[k].pc = "drop" => \A d \in SocketChannels : Registered(a, d)' => d \notin Connected'
  BY <1>2, <1>5, ConnectedStep DEF StillSo
<1>8. th[k].pc = "storepage" => c # sess'[s].chan /\ th'[k].view = sess'[s].pages
  BY <1>1, <1>2, <1>3 DEF StillSo, FoundSteps
<1>9. QED
  <2>1. /\ th[k].pc \in FoundSteps => sessions'[a] = s
        /\ th[k].pc = "add" => sessions'[a] = None
        /\ th[k].pc = "join" => Registered(a, c)' /\ attr'[c] = a
        /\ th[k].pc = "putpage" => attr'[c] # a
        /\ th[k].pc = "storepage" => attr'[c] = a
    BY <1>1, <1>2, <1>5 DEF StillSo
  <2>2. /\ a' = a /\ c' = c /\ s' = s
    BY <1>1
  <2>3. QED
    BY <1>1, <1>6, <1>7, <1>8, <2>1, <2>2 DEF StillSo

\* What the steps of a login have found or done is so when the next one runs.
LEMMA StillSoLogin ==
  ASSUME OneLoginId, SocketInv, SerialInv, [Next]_vars, NEW k \in Loops, th[k].sid \in Unraced,
         \/ CreateSession(k) \/ KickFromGroup(k) \/ KickFromMap(k) \/ AddSession(k)
         \/ AddPageRead(k) \/ AddPageStore(k) \/ UpdateSession(k)
  PROVE  StillSo(k)'
<1> DEFINE a == th[k].sid
           c == th[k].ctx
           s == th[k].ref
<1>0. /\ TypeOK /\ AccountInv /\ HandlerInv /\ BindInv
      /\ th \in [Loops -> Thread] /\ th[k] \in Thread
      /\ a \in Accounts /\ c \in Channels /\ a \in LoginIds[c] /\ ~LoopIdle(k)
      /\ sessions \in [Accounts -> SessionIds \cup {None}] /\ sess \in [SessionIds -> Session]
  <2>1. TypeOK /\ AccountInv /\ HandlerInv /\ BindInv
    BY DEF SocketInv, PresenceInv, OfflineInv
  <2>2. ~LoopIdle(k)
    BY Busy DEF LoopStep
  <2>3. QED
    BY <2>1, <2>2, HandlerLogin DEF TypeOK, HandlersOK
<1>1. StillSo(k)
  BY DEF SerialInv, SerialHandlerInv
<1>2. th[k].pc \in FoundSteps =>
        /\ s \in SessionIds /\ s # None /\ sessions[a] = s /\ sess[s].account = a
  BY <1>0, <1>1, NoneAssumption DEF TypeOK, HandlersOK, AccountInv, StillSo, NoneAssumption
<1> USE DEF Thread
<1>3. CASE CreateSession(k)
  <2>1. /\ th'[k].pc \in {"add", "ungroup", "putpage"} /\ th'[k].sid = a /\ th'[k].ctx = c
        /\ th'[k].pc = "add" => sessions[a] = None
        /\ th'[k].pc # "add" => th'[k].ref = sessions[a]
        /\ UNCHANGED <<sessions, attr>>
    BY <1>0, <1>3 DEF CreateSession, Goto
  <2>2. attr[c] # a
    BY <1>0, <1>3 DEF CreateSession, HandlerInv
  <2>3. QED
    BY <2>1, <2>2 DEF StillSo, FoundSteps
<1>4. CASE KickFromGroup(k)
  <2>1. /\ th'[k].pc = "unmap" /\ th'[k].sid = a /\ th'[k].ctx = c /\ th'[k].ref = s
        /\ group' = group \ {sess[s].chan} /\ UNCHANGED <<sessions, sess>>
    BY <1>0, <1>4 DEF KickFromGroup, Goto
  <2>2. sessions[a] = s
    BY <1>2, <1>4 DEF KickFromGroup, FoundSteps
  <2>3. QED
    BY <2>1, <2>2 DEF StillSo
<1>5. CASE KickFromMap(k)
  <2>1. /\ th'[k].pc = "add" /\ th'[k].sid = a /\ sessions' = [sessions EXCEPT ![sess[s].account] = None]
    BY <1>0, <1>5 DEF KickFromMap
  <2>2. sess[s].account = a
    BY <1>2, <1>5 DEF KickFromMap, FoundSteps
  <2>3. sessions'[a] = None
    BY <1>0, <2>1, <2>2
  <2>4. QED
    BY <2>1, <2>3 DEF StillSo, FoundSteps
<1>6. CASE AddSession(k)
  <2>1. th'[k].pc = "join" /\ th'[k].sid = a /\ th'[k].ctx = c
    BY <1>0, <1>6 DEF AddSession, Goto
  <2>2. FreshSession \in SessionIds /\ FreshSession # None
    BY <1>6, FreshSessionUnused, NoneAssumption DEF AddSession, NoneAssumption
  <2>3. sessions'[a] = FreshSession /\ sess'[FreshSession].chan = c
    BY <1>0, <1>6, <2>2 DEF AddSession, NewSession
  <2>4. attr'[c] = a
    BY <1>0, <1>6 DEF AddSession, Bind, TypeOK
  <2>5. QED
    BY <2>1, <2>2, <2>3, <2>4 DEF StillSo, FoundSteps, Registered
<1>7. CASE AddPageRead(k)
  <2>1. /\ th'[k].pc = "storepage" /\ th'[k].sid = a /\ th'[k].ctx = c /\ th'[k].ref = s
        /\ th'[k].view = sess[s].pages
        /\ UNCHANGED <<sessions, sess>>
    BY <1>0, <1>7 DEF AddPageRead
  <2>2. sessions[a] = s /\ s # None /\ attr[c] # a
    BY <1>1, <1>2, <1>7 DEF AddPageRead, FoundSteps, StillSo
  <2>3. sess[s].chan \in WebChannels
    BY <1>0, <1>2, <1>7, <2>2
       DEF AddPageRead, FoundSteps, HandlerInv, SerialInv, ClientInv, Reachable, Channels
  <2>4. attr[sess[s].chan] = a
    BY <1>0, <2>2, <2>3 DEF SerialInv, SerialPagesInv
  <2>5. attr'[c] = a
    BY <1>0, <1>7 DEF AddPageRead, Bind, TypeOK
  <2>6. QED
    BY <2>1, <2>2, <2>4, <2>5 DEF StillSo
<1>8. CASE AddPageStore(k) \/ UpdateSession(k)
  <2>1. CASE AddPageStore(k)
    <3>1. /\ th'[k].pc = "update" /\ th'[k].sid = a /\ th'[k].ref = s /\ UNCHANGED sessions
      BY <1>0, <2>1 DEF AddPageStore
    <3>2. QED
      BY <1>2, <2>1, <3>1 DEF AddPageStore, StillSo, FoundSteps
  <2>2. CASE UpdateSession(k)
    <3>1. th'[k].pc = "joinpage"
      BY <1>0, <2>2 DEF UpdateSession
    <3>2. QED
      BY <3>1 DEF StillSo, FoundSteps
  <2>3. QED
    BY <1>8, <2>1, <2>2
<1>9. QED
  BY <1>3, <1>4, <1>5, <1>6, <1>7, <1>8

\* A close closes the watch of the session, at once or soon.
LEMMA StillSoClose ==
  ASSUME OneLoginId, SocketInv, SerialInv, [Next]_vars, NEW k \in Loops, th[k].sid \in Unraced,
         RemoveSession(k)
  PROVE  StillSo(k)'
<1> DEFINE a == th[k].sid
           c == th[k].ctx
           s == sessions[a]
<1>0. /\ TypeOK /\ AccountInv /\ HandlerInv /\ BindInv /\ OwnerInv
      /\ th \in [Loops -> Thread] /\ th[k] \in Thread
      /\ a \in Accounts /\ c \in Channels /\ ~LoopIdle(k)
      /\ sessions \in [Accounts -> SessionIds \cup {None}]
  <2>1. TypeOK /\ AccountInv /\ HandlerInv /\ BindInv /\ OwnerInv
    BY DEF SocketInv, PresenceInv, OfflineInv
  <2>2. ~LoopIdle(k)
    BY Busy DEF LoopStep
  <2>3. QED
    BY <2>1, <2>2, HandlerLogin DEF TypeOK, HandlersOK
<1>1. /\ th'[k].pc \in {"drop", "leave"} /\ th'[k].sid = a /\ UNCHANGED sessions
  <2>1. (Goto(k, "drop") \/ Goto(k, "leave")) /\ UNCHANGED sessions
    BY DEF RemoveSession
  <2>2. QED
    BY <1>0, <2>1 DEF Goto, Thread
<1>2. ASSUME NEW d \in SocketChannels, Registered(a, d)'
      PROVE  d \notin Connected'
  <2>1. s # None /\ sess'[s].chan = d
    BY <1>1, <1>2 DEF Registered
  <2>2. s \in SessionIds /\ s \in Reachable
    BY <1>0, <2>1 DEF Reachable
  <2>3. sess[s].chan = d /\ sess[s].account = a
    BY <1>0, <2>1, <2>2, SessionsPersist DEF AccountInv
  <2>4. Source(sess[s].chan) = "socket"
    BY <2>3, ChannelAssumption DEF Source, ChannelAssumption
  <2>5. CloseChannel(k, d)
    BY <2>1, <2>3, <2>4 DEF RemoveSession
  <2>6. QED
    BY <2>5 DEF CloseChannel, TransportClosed, Connected
<1>3. QED
  BY <1>1, <1>2 DEF StillSo, FoundSteps, Registered

LEMMA SerialHandlerInductive ==
  ASSUME OneLoginId, SocketInv, RacedInv, SerialInv, [Next]_vars, Unraced' \subseteq Unraced
  PROVE  SerialHandlerInv'
<1>0. TypeOK /\ th \in [Loops -> Thread] /\ th' \in [Loops -> Thread] /\ None \notin Unraced
  BY NextTypeOK, NoneAssumption
     DEF SocketInv, PresenceInv, OfflineInv, TypeOK, HandlersOK, NoneAssumption, Unraced
<1>1. SUFFICES ASSUME NEW k \in Loops, th'[k].sid \in Unraced
               PROVE  StillSo(k)'
  BY DEF SerialHandlerInv
<1>2. CASE LoopStep(k)
  <2>1. CASE /\ th'[k].sid = th[k].sid
             /\ \/ CreateSession(k) \/ KickFromGroup(k) \/ KickFromMap(k) \/ AddSession(k)
                \/ AddPageRead(k) \/ AddPageStore(k) \/ UpdateSession(k) \/ RemoveSession(k)
    BY <1>1, <2>1, StillSoLogin, StillSoClose
  <2>2. CASE CloseLookup(k) \/ RemoveFromMap(k) \/ BroadcastOffline(k) \/ AddSessionJoin(k)
             \/ AddPageJoin(k) \/ LeaveGroup(k)
    <3>1. th'[k].pc \in {"idle", "remove", "broadcast", "leave"}
      BY <1>0, <2>2 DEF CloseLookup, RemoveFromMap, BroadcastOffline, AddSessionJoin, AddPageJoin,
                        LeaveGroup, Goto, Finish, Idle, Thread
    <3>2. QED
      BY <3>1 DEF StillSo, FoundSteps
  <2>3. CASE CreateSession(k) \/ KickFromGroup(k) \/ KickFromMap(k) \/ AddSession(k)
             \/ AddPageRead(k) \/ AddPageStore(k) \/ UpdateSession(k)
    <3>1. th'[k].sid = th[k].sid
      BY <1>0, <2>3 DEF CreateSession, KickFromGroup, KickFromMap, AddSession, AddPageRead,
                        AddPageStore, UpdateSession, Goto, Thread
    <3>2. QED
      BY <2>1, <2>3, <3>1
  <2>4. CASE RemoveSession(k)
    <3>1. Goto(k, "drop") \/ Goto(k, "leave")
      BY <2>4 DEF RemoveSession
    <3>2. th'[k].sid = th[k].sid
      BY <1>0, <3>1 DEF Goto, Thread
    <3>3. QED
      BY <2>1, <2>4, <3>2
  <2>5. QED
    BY <1>2, <2>2, <2>3, <2>4 DEF LoopStep
<1>3. CASE ~LoopStep(k) /\ th[k].pc \in LoginSteps \cup {"drop"} /\ th[k].sid \in Unraced
  BY <1>3, StillSoOthers
<1>4. CASE ~LoopStep(k) /\ (th[k].pc \notin LoginSteps \cup {"drop"} \/ th[k].sid \notin Unraced)
  <2>1. CASE th'[k] = th[k]
    <3>1. th'[k].pc \notin LoginSteps \cup {"drop"}
      BY <1>1, <1>4, <2>1
    <3>2. QED
      BY <3>1 DEF StillSo, FoundSteps, LoginSteps
  <2>2. ASSUME NEW d \in Channels, ChannelEvent(d), th'[k] # th[k]
        PROVE  StillSo(k)'
    <3>1. \E step \in {"get", "close"} : \E b : th'[k] = Running(step, d, b)
      BY <1>0, <2>2, EventFrame
    <3>2. th'[k].pc \in {"get", "close"}
      BY <3>1 DEF Running
    <3>3. QED
      BY <3>2 DEF StillSo, FoundSteps
  <2>3. QED
    BY <1>0, <1>4, <2>1, <2>2, LoopFrame DEF Next, Drained, vars
<1>5. QED
  BY <1>2, <1>3, <1>4

\* A watch in the group keeps its session.
LEMMA KeepsSession ==
  ASSUME OneLoginId, SocketInv, SerialInv, [Next]_vars,
         NEW c \in Connected, c \in group,
         attr[c] \in Unraced, Registered(attr[c], c)
  PROVE  Registered(attr[c], c)'
<1> DEFINE a == attr[c]
<1>0. /\ TypeOK /\ AccountInv /\ HandlerInv /\ BindInv
      /\ sessions \in [Accounts -> SessionIds \cup {None}]
      /\ a \in Accounts /\ a # None /\ c \in Channels /\ c \in SocketChannels
  BY NoneAssumption
     DEF SocketInv, PresenceInv, OfflineInv, TypeOK, Unraced, NoneAssumption, Channels, Connected
<1>1. sessions[a] \in SessionIds \cap Reachable /\ sessions[a] # None /\ sess[sessions[a]].chan = c
  BY <1>0 DEF Registered, Reachable
<1>2. attr'[c] = a
  BY <1>0, StaysBound
<1>3. ASSUME sessions'[a] # sessions[a]
      PROVE  FALSE
  <2>1. PICK l \in Loops : /\ th[l].sid = a
                           /\ AddSession(l) \/ UpdateSession(l) \/ KickFromMap(l) \/ RemoveFromMap(l)
    BY <1>0, <1>3, EntryStep
  <2>2. StillSo(l)
    BY <2>1 DEF SerialInv, SerialHandlerInv
  <2>3. CASE AddSession(l)
    BY <1>1, <2>1, <2>2, <2>3 DEF AddSession, StillSo
  <2>4. CASE UpdateSession(l)
    <3>1. th[l].ref = sessions[a] /\ sess[th[l].ref].account = a
      BY <1>0, <2>1, <2>2, <2>4 DEF UpdateSession, StillSo, FoundSteps, AccountInv
    <3>2. QED
      BY <1>0, <1>3, <2>4, <3>1 DEF UpdateSession
  <2>5. CASE KickFromMap(l)
    BY <1>0, <1>1, <2>1, <2>2, <2>5 DEF KickFromMap, StillSo, FoundSteps
  <2>6. CASE RemoveFromMap(l)
    BY <1>0, <2>1, <2>2, <2>6 DEF RemoveFromMap, StillSo
  <2>7. QED
    BY <2>1, <2>3, <2>4, <2>5, <2>6
<1>4. sess'[sessions[a]].chan = c
  BY <1>0, <1>1, SessionsPersist
<1>5. QED
  BY <1>1, <1>2, <1>3, <1>4 DEF Registered

LEMMA SerialGroupInductive ==
  ASSUME OneLoginId, SocketInv, SerialInv, [Next]_vars, Unraced' \subseteq Unraced
  PROVE  SerialGroupInv'
<1>0. TypeOK /\ AccountInv /\ HandlerInv /\ BindInv /\ th \in [Loops -> Thread]
  BY DEF SocketInv, PresenceInv, OfflineInv, TypeOK, HandlersOK
<1>1. ASSUME NEW c \in Connected', c \in group', LoginIds[c] \subseteq Unraced
      PROVE  attr'[c] # None /\ Registered(attr[c], c)'
  <2>0. c \in Connected /\ c \in SocketChannels /\ c \in Channels
    BY ConnectedStep DEF Channels, Connected
  <2>1. CASE c \in group
    <3>1. attr[c] # None /\ Registered(attr[c], c)
      BY <1>1, <2>0, <2>1 DEF SerialInv, SerialGroupInv
    <3>2. attr[c] \in Unraced
      BY <1>0, <1>1, <2>0, <3>1 DEF BindInv
    <3>3. QED
      BY <1>0, <1>1, <2>0, <2>1, <3>1, <3>2, KeepsSession, StaysBound
  <2>2. CASE c \notin group
    <3>1. PICK l \in Loops : (AddSessionJoin(l) \/ AddPageJoin(l)) /\ th[l].ctx = c
      BY <1>1, <2>2, JoinStep
    <3>2. AddSessionJoin(l)
      BY <2>0, <3>1 DEF AddPageJoin, SerialInv, SerialGroupInv
    <3>3. th[l].sid \in Unraced
      BY <1>0, <1>1, <3>1, <3>2, HandlerLogin DEF AddSessionJoin, LoopIdle
    <3>4. Registered(th[l].sid, c) /\ attr[c] = th[l].sid
      BY <3>1, <3>2, <3>3 DEF AddSessionJoin, SerialInv, SerialHandlerInv, StillSo
    <3>5. UNCHANGED <<attr, sessions, sess>>
      BY <3>2 DEF AddSessionJoin
    <3>6. QED
      BY <3>3, <3>4, <3>5, NoneAssumption DEF Registered, Unraced, NoneAssumption
  <2>3. QED
    BY <2>1, <2>2
<1>2. ASSUME NEW l \in Loops, th'[l].pc = "joinpage"
      PROVE  th'[l].ctx \notin SocketChannels
  <2>1. CASE th'[l] = th[l]
    BY <1>2, <2>1 DEF SerialInv, SerialGroupInv
  <2>2. CASE LoopStep(l)
    <3>1. UpdateSession(l)
      <4>1. CASE RemoveSession(l)
        <5>1. Goto(l, "drop") \/ Goto(l, "leave")
          BY <4>1 DEF RemoveSession
        <5>2. QED
          BY <1>0, <1>2, <5>1 DEF Goto, Thread
      <4>2. QED
        BY <1>0, <1>2, <2>2, <4>1 DEF LoopStep, CreateSession, KickFromGroup, KickFromMap, AddSession,
           AddSessionJoin, AddPageRead, AddPageStore, AddPageJoin, CloseLookup, RemoveFromMap,
           BroadcastOffline, LeaveGroup, Goto, Finish, Idle, Thread
    <3>2. QED
      BY <1>0, <3>1 DEF UpdateSession, HandlerInv, LoopIdle, Thread
  <2>3. ASSUME NEW d \in Channels, ChannelEvent(d), th'[l] # th[l]
        PROVE  FALSE
    <3>1. \E step \in {"get", "close"} : \E b : th'[l] = Running(step, d, b)
      BY <1>0, <2>3, EventFrame
    <3>2. QED
      BY <1>2, <3>1 DEF Running
  <2>4. QED
    BY <1>0, <2>1, <2>2, <2>3, LoopFrame DEF Next, Drained, vars
<1>3. QED
  BY <1>1, <1>2 DEF SerialGroupInv

\* A client with the session of its account stays connected, or its end comes
\* to removeSession.
LEMMA AliveStep ==
  ASSUME OneLoginId, SocketInv, [Next]_vars, NEW d \in Channels, attr[d] \in Accounts,
         sessions[attr[d]] # None, Alive(d)
  PROVE  \/ Alive(d)'
         \/ \E l \in Loops : RemoveSession(l) /\ th[l].ctx = d /\ th[l].sid = attr[d]
<1> DEFINE l == LoopOf[d]
<1>0. /\ TypeOK /\ HandlerInv /\ BindInv /\ l \in Loops /\ th \in [Loops -> Thread] /\ th[l] \in Thread
  BY LoopOfType DEF SocketInv, PresenceInv, OfflineInv, TypeOK, HandlersOK
<1>1. attr[d] # None /\ ~Unbound(d)
  BY <1>0, NoneAssumption DEF NoneAssumption, Unbound, OneLoginId, BindInv
<1>2. CASE d \in open
  BY <1>0, <1>2, OpenStep DEF Alive
<1>3. CASE d \in inactive
  <2>1. SUFFICES ASSUME d \notin inactive'
                 PROVE  Alive(d)'
    BY DEF Alive
  <2>2. ASSUME NEW k \in Loops, LoopStep(k)
        PROVE  FALSE
    <3>1. CASE RemoveSession(k)
      BY <1>3, <2>1, <3>1 DEF RemoveSession, CloseChannel, TransportClosed, transport
    <3>2. CASE ~RemoveSession(k)
      BY <1>3, <2>1, <2>2, <3>2 DEF LoopStep, CreateSession, KickFromGroup, KickFromMap, AddSession,
         AddSessionJoin, AddPageRead, AddPageStore, UpdateSession, AddPageJoin, CloseLookup,
         RemoveFromMap, BroadcastOffline, LeaveGroup, transport
    <3>3. QED
      BY <3>1, <3>2
  <2>3. ASSUME NEW c \in Channels, ChannelEvent(c)
        PROVE  c = d /\ ChannelInactive(d)
    BY <1>3, <2>1, <2>3 DEF ChannelEvent, Heartbeat, PeerClose, RunQueuedClose, ChannelInactive,
       ReaderIdle, TransportClosed, transport
  <2>4. ChannelInactive(d)
    BY <1>3, <2>1, <2>2, <2>3 DEF Next, Drained, vars
  <2>5. th'[l] = Running("close", d, attr[d])
    BY <1>0, <1>1, <2>4 DEF ChannelInactive
  <2>6. QED
    BY <2>5 DEF Running, Alive, At
<1>4. CASE At(d, {"close", "remove"})
  <2>1. /\ th[l].ctx = d /\ th[l].pc \in {"close", "remove"} /\ th[l].sid = attr[d] /\ ~LoopIdle(l)
    BY <1>0, <1>4 DEF At, HandlerInv, LoopIdle, CloseSteps
  <2>2. CASE th'[l] = th[l]
    BY <1>4, <2>2 DEF Alive, At
  <2>3. CASE LoopStep(l)
    <3>1. CloseLookup(l) \/ RemoveSession(l)
      BY <2>1, <2>3 DEF LoopStep, CreateSession, KickFromGroup, KickFromMap, AddSession,
         AddSessionJoin, AddPageRead, AddPageStore, UpdateSession, AddPageJoin,
         RemoveFromMap, BroadcastOffline, LeaveGroup
    <3>2. CASE CloseLookup(l)
      <4>1. Goto(l, "remove")
        BY <2>1, <3>2 DEF CloseLookup
      <4>2. th'[l].pc = "remove" /\ th'[l].ctx = d
        BY <1>0, <2>1, <4>1 DEF Goto, Thread
      <4>3. QED
        BY <4>2 DEF Alive, At
    <3>3. QED
      BY <1>0, <2>1, <3>1, <3>2
  <2>4. ASSUME NEW c \in Channels, ChannelEvent(c)
        PROVE  th'[l] = th[l]
    BY <1>0, <2>1, <2>4, EventFrame
  <2>5. QED
    BY <1>0, <2>2, <2>3, <2>4, LoopFrame DEF Next, Drained, vars
<1>5. QED
  BY <1>2, <1>3, <1>4 DEF Alive

\* The pages of a session that has lost one of its pages, or was to.
LEMMA PagesRemove ==
  ASSUME OneLoginId, SocketInv, SerialInv, [Next]_vars, NEW l \in Loops, RemoveSession(l),
         NEW a \in Unraced, a = th[l].sid,
         NEW n, n = sessions[a], n # None,
         NEW chan \in WebChannels, chan = sess[n].chan
  PROVE  /\ sess'[n].pages \subseteq sess[n].pages
         /\ \A d \in sess'[n].pages : Alive(d)'
         /\ sess'[n].pages = {} => Alive(chan)' \/ \E k \in Loops : th'[k].pc = "drop" /\ th'[k].sid = a
<1> DEFINE c == th[l].ctx
           pages == sess[n].pages
           rest == pages \ {c}
<1>0. /\ TypeOK /\ HandlerInv /\ BindInv /\ AccountInv
      /\ th \in [Loops -> Thread] /\ th[l] \in Thread
      /\ a \in Accounts /\ c \in Channels /\ ~LoopIdle(l)
      /\ n \in SessionIds /\ n \in Reachable
      /\ sess \in [SessionIds -> Session] /\ sess[n] \in Session
      /\ chan \in WebChannels /\ n # None
  <2>1. TypeOK /\ HandlerInv /\ BindInv /\ AccountInv
    BY DEF SocketInv, PresenceInv, OfflineInv
  <2>2. ~LoopIdle(l)
    BY Busy DEF LoopStep
  <2>3. a \in Accounts /\ c \in Channels
    BY <2>1, <2>2, HandlerLogin
  <2>4. n \in SessionIds /\ n \in Reachable
    BY <2>1, <2>3 DEF TypeOK, Reachable
  <2>5. QED
    BY <2>1, <2>2, <2>3, <2>4 DEF TypeOK, HandlersOK
<1>1. /\ attr[chan] = a /\ chan \notin pages /\ chan \in Channels
      /\ \A d \in pages : attr[d] = a /\ Alive(d) /\ d \in Channels
      /\ pages = {} => Alive(chan) \/ \E k \in Loops : th[k].pc = "drop" /\ th[k].sid = a
  BY <1>0 DEF SerialInv, SerialPagesInv, Session, Channels
<1>2. ASSUME NEW d \in Channels, d # c, attr[d] = a, Alive(d)
      PROVE  Alive(d)'
  <2>1. ASSUME NEW k \in Loops, RemoveSession(k)
        PROVE  th[k].ctx # d
    <3>1. th[k].pc = "remove" /\ (Goto(k, "drop") \/ Goto(k, "leave"))
      BY <2>1 DEF RemoveSession
    <3>2. th'[k] # th[k]
      BY <1>0, <3>1 DEF Goto, Thread
    <3>3. k = l
      BY <1>0, <3>2, LoopFrame DEF LoopStep
    <3>4. QED
      BY <1>2, <3>3
  <2>2. QED
    BY <1>0, <1>2, <2>1, AliveStep
<1>3. Source(chan) = "websocket"
  BY <1>0 DEF Source
<1>4. ASSUME Goto(l, "drop")
      PROVE  \E k \in Loops : th'[k].pc = "drop" /\ th'[k].sid = a
  BY <1>0, <1>4 DEF Goto, Thread
<1>5. NoOtherPages({})
  BY FS_EmptySet DEF NoOtherPages
<1>6. CASE chan = c
  <2>1. UNCHANGED sess /\ (NoOtherPages(pages) => Goto(l, "drop"))
    BY <1>0, <1>3, <1>6 DEF RemoveSession
  <2>2. QED
    BY <1>1, <1>2, <1>4, <1>5, <1>6, <2>1
<1>7. CASE chan # c /\ c \in pages
  <2>1. sess' = [sess EXCEPT ![n].pages = rest] /\ (NoOtherPages(rest) => Goto(l, "drop"))
    BY <1>0, <1>3, <1>7 DEF RemoveSession
  <2>2. sess'[n].pages = rest
    BY <1>0, <2>1 DEF Session
  <2>3. QED
    BY <1>1, <1>2, <1>4, <1>5, <2>1, <2>2
<1>8. CASE chan # c /\ c \notin pages
  <2>1. UNCHANGED sess
    BY <1>0, <1>3, <1>8 DEF RemoveSession
  <2>2. ASSUME NEW k \in Loops, th[k].pc = "drop", th[k].sid = a
        PROVE  th'[k].pc = "drop" /\ th'[k].sid = a
    BY <1>0, <2>2, LoopFrame DEF RemoveSession, LoopStep
  <2>3. \A d \in pages : Alive(d)'
    BY <1>1, <1>2, <1>8
  <2>4. pages = {} => Alive(chan)' \/ \E k \in Loops : th'[k].pc = "drop" /\ th'[k].sid = a
    BY <1>1, <1>2, <1>8, <2>2
  <2>5. QED
    BY <2>1, <2>3, <2>4
<1>9. QED
  BY <1>6, <1>7, <1>8

LEMMA SerialPagesInductive ==
  ASSUME OneLoginId, SocketInv, RacedInv, SerialInv, [Next]_vars, Unraced' \subseteq Unraced
  PROVE  SerialPagesInv'
<1>0. /\ TypeOK /\ HandlerInv /\ BindInv /\ AccountInv
      /\ th \in [Loops -> Thread] /\ sess \in [SessionIds -> Session]
      /\ sessions \in [Accounts -> SessionIds \cup {None}]
  BY DEF SocketInv, PresenceInv, OfflineInv, TypeOK, HandlersOK
<1>1. SUFFICES ASSUME NEW a \in Unraced, NEW n, n = sessions'[a], n # None,
                      NEW chan \in WebChannels, chan = sess'[n].chan
               PROVE  /\ attr'[chan] = a /\ chan \notin sess'[n].pages
                      /\ \A d \in sess'[n].pages : attr'[d] = a /\ Alive(d)'
                      /\ sess'[n].pages = {} =>
                           Alive(chan)' \/ \E k \in Loops : th'[k].pc = "drop" /\ th'[k].sid = a
  BY DEF SerialPagesInv, Alive
<1>2. a \in Accounts /\ a # None /\ chan \in Channels
  BY NoneAssumption DEF Unraced, NoneAssumption, Channels
<1>3. CASE n = sessions[a]
  <2> DEFINE pages == sess[n].pages
  <2>1. n \in SessionIds /\ n \in Reachable /\ sess[n].account = a
    BY <1>0, <1>1, <1>2, <1>3 DEF Reachable, AccountInv
  <2>2. sess[n].chan = chan
    BY <1>0, <1>1, <2>1, SessionsPersist
  <2>3. /\ attr[chan] = a /\ chan \notin pages
        /\ \A d \in pages : attr[d] = a /\ Alive(d) /\ d \in Channels
        /\ pages = {} => Alive(chan) \/ \E k \in Loops : th[k].pc = "drop" /\ th[k].sid = a
    BY <1>0, <1>1, <1>3, <2>1, <2>2 DEF SerialInv, SerialPagesInv, Session
  <2>4. attr'[chan] = a /\ \A d \in pages : attr'[d] = a
    BY <1>0, <1>2, <2>3, StaysBound
  <2>5. CASE \E l \in Loops : RemoveSession(l) /\ th[l].sid = a
    <3>1. PICK l \in Loops : RemoveSession(l) /\ th[l].sid = a
      BY <2>5
    <3>2. /\ sess'[n].pages \subseteq sess[n].pages
          /\ \A d \in sess'[n].pages : Alive(d)'
          /\ sess'[n].pages = {} => Alive(chan)' \/ \E k \in Loops : th'[k].pc = "drop" /\ th'[k].sid = a
      BY <1>1, <1>3, <2>2, <3>1, PagesRemove
    <3>3. QED
      BY <2>3, <2>4, <3>2
  <2>6. CASE ~\E l \in Loops : RemoveSession(l) /\ th[l].sid = a
    <3>1. ASSUME NEW d \in Channels, attr[d] = a, Alive(d)
          PROVE  Alive(d)'
      BY <1>1, <1>2, <1>3, <2>6, <3>1, AliveStep
    <3>2. ASSUME NEW k \in Loops, th[k].pc = "drop", th[k].sid = a
          PROVE  th'[k].pc = "drop" /\ th'[k].sid = a
      <4>1. ~LoopStep(k)
        <5>1. ~RemoveFromMap(k)
          BY <1>0, <1>1, <1>2, <3>2 DEF RemoveFromMap
        <5>2. QED
          BY <3>2, <5>1 DEF LoopStep, CreateSession, KickFromGroup, KickFromMap, AddSession,
             AddSessionJoin, AddPageRead, AddPageStore, UpdateSession, AddPageJoin, CloseLookup,
             RemoveSession, BroadcastOffline, LeaveGroup
      <4>2. th'[k] = th[k]
        BY <3>2, <4>1, OthersStep DEF LoopIdle
      <4>3. QED
        BY <3>2, <4>2
    <3>3. CASE sess'[n] = sess[n]
      BY <1>2, <2>3, <2>4, <3>1, <3>2, <3>3
    <3>4. CASE sess'[n] # sess[n]
      <4>1. PICK l \in Loops : th[l].sid = a /\ AddPageStore(l) /\ th[l].ref = n
        BY <1>0, <2>1, <2>6, <3>4, PagesStep
      <4>0. PICK c \in Channels : c = th[l].ctx
        BY <1>0, <4>1, HandlerLogin DEF AddPageStore, LoopIdle
      <4>2. attr[c] = a /\ c # chan /\ th[l].view = pages
        BY <2>2, <4>0, <4>1 DEF AddPageStore, SerialInv, SerialHandlerInv, StillSo
      <4>3. c \in open' /\ UNCHANGED attr
        <5>1. c \in open
          BY <1>0, <4>0, <4>1 DEF AddPageStore, HandlerInv, LoopIdle, LoginSteps
        <5>2. QED
          BY <4>1, <5>1 DEF AddPageStore, transport
      <4>4. sess'[n].pages = pages \cup {c}
        BY <1>0, <2>1, <4>0, <4>1, <4>2 DEF AddPageStore, Session
      <4>5. Alive(c)'
        BY <4>3 DEF Alive
      <4>6. QED
        BY <2>3, <2>4, <3>1, <4>2, <4>3, <4>4, <4>5
    <3>5. QED
      BY <3>3, <3>4
  <2>7. QED
    BY <2>5, <2>6
<1>4. ASSUME NEW l \in Loops, AddSession(l), a = th[l].sid, n = FreshSession,
             sess'[FreshSession] = NewSession(th[l].ctx, a)
      PROVE  /\ attr'[chan] = a /\ sess'[n].pages = {} /\ Alive(chan)'
  <2>1. th[l].ctx = chan /\ sess'[n].pages = {}
    BY <1>1, <1>4 DEF NewSession
  <2>2. attr'[chan] = a
    BY <1>0, <1>2, <1>4, <2>1 DEF AddSession, Bind, TypeOK
  <2>3. chan \in open'
    BY <1>0, <1>4, <2>1 DEF AddSession, HandlerInv, LoopIdle, LoginSteps, transport
  <2>4. QED
    BY <2>1, <2>2, <2>3 DEF Alive
<1>5. ASSUME NEW l \in Loops, UpdateSession(l), n = th[l].ref, sess[th[l].ref].account = a
      PROVE  n = sessions[a]
  BY <1>0, <1>5 DEF UpdateSession, FoundSteps, AccountInv, SerialInv, SerialHandlerInv, StillSo
<1>6. QED
  BY <1>0, <1>1, <1>2, <1>3, <1>4, <1>5, MapStep

LEMMA SerialStart == Init => SerialInv
<1> SUFFICES ASSUME Init
             PROVE  SerialInv
  OBVIOUS
<1>1. \A l \in Loops : th[l].pc = "idle" /\ th[l].ref = None
  BY DEF Init, Idle
<1>2. \A a \in Accounts : sessions[a] = None
  BY DEF Init
<1>3. ClientInv
  BY <1>1, <1>2 DEF ClientInv, Reachable
<1>4. SerialHandlerInv
  BY <1>1 DEF SerialHandlerInv, StillSo, FoundSteps
<1>5. SerialGroupInv
  BY <1>1 DEF Init, SerialGroupInv
<1>6. SerialPagesInv
  BY <1>2 DEF SerialPagesInv, Unraced
<1>7. QED
  BY <1>3, <1>4, <1>5, <1>6 DEF SerialInv

LEMMA SerialInvariant == OneLoginId => (RaceSpec => [](SocketInv /\ SerialInv))
<1> SUFFICES ASSUME OneLoginId
             PROVE  RaceSpec => [](SocketInv /\ SerialInv)
  OBVIOUS
<1>1. Init /\ raced = {} => SerialInv /\ RacedInv
  <2> SUFFICES ASSUME Init, raced = {}
               PROVE  SerialInv /\ RacedInv
    OBVIOUS
  <2>1. \A l \in Loops : th[l].pc = "idle"
    BY DEF Init, Idle
  <2>2. QED
    BY <2>1, SerialStart DEF RacedInv, Racing, LoginSteps
<1>2. /\ SocketInv /\ SerialInv /\ RacedInv
      /\ [Next /\ raced' = raced \cup Racing']_<<vars, raced>>
      => SerialInv' /\ RacedInv'
  <2> SUFFICES ASSUME SocketInv, SerialInv, RacedInv,
                      [Next /\ raced' = raced \cup Racing']_<<vars, raced>>
               PROVE  SerialInv' /\ RacedInv'
    OBVIOUS
  <2>1. [Next]_vars /\ Unraced' \subseteq Unraced /\ RacedInv'
    BY RaceStep
  <2>2. ClientInv'
    BY <2>1, ClientInductive DEF SerialInv, SocketInv, PresenceInv, OfflineInv
  <2>3. SerialHandlerInv' /\ SerialGroupInv' /\ SerialPagesInv'
    BY <2>1, SerialHandlerInductive, SerialGroupInductive, SerialPagesInductive
  <2>4. QED
    BY <2>1, <2>2, <2>3 DEF SerialInv
<1>3. [Next /\ raced' = raced \cup Racing']_<<vars, raced>> => [Next]_vars
  BY DEF vars
<1>4. RaceSpec => Spec
  BY <1>3, PTL DEF RaceSpec, Spec
<1>5. Spec => []SocketInv
  BY SocketInvariant
<1>6. QED
  BY <1>1, <1>2, <1>4, <1>5, PTL DEF RaceSpec

\* When every client keeps to one device id that is not blank, an account of
\* which no login has run along with another handler is as good as synchronized,
\* whatever the loops of its clients are, be they watches or pages, and whatever
\* others do: what a handler has found in the registry is there when it uses it,
\* the group has no watch without a session, and no page of a session is gone.
THEOREM SerialLogins == OneLoginId => (RaceSpec => []SerialInv)
<1>1. SocketInv /\ SerialInv => SerialInv
  OBVIOUS
<1>2. QED
  BY <1>1, SerialInvariant, PTL

\* The handler that runs for a channel is for the device id of its client.
LEMMA NotAt ==
  ASSUME OneLoginId, TypeOK, HandlerInv, BindInv, NEW a, Settled(a),
         NEW c \in Channels, a \in LoginIds[c], NEW steps, "idle" \notin steps
  PROVE  ~At(c, steps)
<1> SUFFICES ASSUME At(c, steps)
             PROVE  FALSE
  OBVIOUS
<1>1. /\ LoopOf[c] \in Loops /\ th[LoopOf[c]].ctx = c /\ ~LoopIdle(LoopOf[c])
  BY LoopOfType DEF At, LoopIdle
<1>2. th[LoopOf[c]].sid \in LoginIds[c]
  BY <1>1, HandlerLogin
<1>3. QED
  BY <1>1, <1>2 DEF OneLoginId, Settled

\* Under the same condition the broadcast group has a connected watch exactly
\* when the account is registered with it, while no handler of the account runs:
\* a login leaves no other watch of the account behind.
THEOREM GroupIsRegistry == OneLoginId => (RaceSpec => []GroupMatchesRegistry)
<1> SUFFICES ASSUME OneLoginId
             PROVE  RaceSpec => []GroupMatchesRegistry
  OBVIOUS
<1>1. SocketInv /\ SerialInv => GroupMatchesRegistry
  <2> SUFFICES ASSUME SocketInv, SerialInv, NEW c \in Connected, NEW a \in Unraced,
                      a \in LoginIds[c], Settled(a)
               PROVE  c \in group <=> attr[c] = a /\ Registered(a, c)
    BY DEF GroupMatchesRegistry
  <2>0. /\ TypeOK /\ HandlerInv /\ BindInv /\ AccountInv
        /\ c \in Channels /\ c \in SocketChannels /\ c \in open
        /\ a \in Accounts /\ LoginIds[c] \subseteq {a}
    BY DEF SocketInv, PresenceInv, OfflineInv, Connected, Channels, Unraced, OneLoginId
  <2>1. ASSUME c \in group
        PROVE  attr[c] = a /\ Registered(a, c)
    <3>1. attr[c] # None /\ Registered(attr[c], c)
      BY <2>0, <2>1 DEF SerialInv, SerialGroupInv
    <3>2. attr[c] = a
      BY <2>0, <3>1 DEF BindInv
    <3>3. QED
      BY <3>1, <3>2
  <2>2. ASSUME attr[c] = a, Registered(a, c)
        PROVE  c \in group
    <3>1. ~At(c, {"join"})
      BY <2>0, NotAt
    <3>2. ~\E l \in Loops : th[l].pc = "unmap" /\ th[l].ref = sessions[a]
      <4>1. SUFFICES ASSUME NEW l \in Loops, th[l].pc = "unmap", th[l].ref = sessions[a]
                     PROVE  FALSE
        OBVIOUS
      <4>2. sess[th[l].ref].account = th[l].sid /\ sess[sessions[a]].account = a
        BY <2>0, <2>2, <4>1 DEF AccountInv, Registered, FoundSteps
      <4>3. QED
        BY <4>1, <4>2 DEF Settled
    <3>3. QED
      BY <2>0, <2>2, <3>1, <3>2 DEF SocketInv, RegisteredInGroup
  <2>3. QED
    BY <2>1, <2>2
<1>2. QED
  BY <1>1, SerialInvariant, PTL

\* Under the same condition the session of the account has a connection that is
\* open or whose end is still to be handled, while no handler of the account runs.
THEOREM SessionsAreActive == OneLoginId => (RaceSpec => []OnlyActiveSessions)
<1> SUFFICES ASSUME OneLoginId
             PROVE  RaceSpec => []OnlyActiveSessions
  OBVIOUS
<1>1. SocketInv /\ SerialInv => OnlyActiveSessions
  <2> SUFFICES ASSUME SocketInv, SerialInv, NEW a \in Unraced, sessions[a] # None, Settled(a)
               PROVE  ({sess[sessions[a]].chan} \cup sess[sessions[a]].pages) \cap (open \cup inactive) # {}
    BY DEF OnlyActiveSessions
  <2> DEFINE s == sess[sessions[a]]
  <2>1. /\ s \in Session /\ sessions[a] \in Reachable /\ a \in Accounts
        /\ s.chan \in Channels /\ s.account = a /\ a \in LoginIds[s.chan]
    BY DEF SocketInv, PresenceInv, OfflineInv, TypeOK, AccountInv, Reachable, SerialInv, ClientInv, Unraced
  <2>2. TypeOK /\ HandlerInv /\ BindInv
    BY DEF SocketInv, PresenceInv, OfflineInv
  <2>3. \A d \in Channels :
          a \in LoginIds[d] => ~At(d, {"close", "remove", "drop"}) /\ ~At(d, {"close", "remove"})
    BY <2>2, NotAt
  <2>4. CASE s.chan \in SocketChannels
    <3>1. s.chan \in open \cup inactive
      BY <2>1, <2>3, <2>4 DEF SocketInv, SocketSessionLive, Registered
    <3>2. QED
      BY <3>1
  <2>5. CASE s.chan \in WebChannels
    <3>1. /\ \A d \in s.pages : attr[d] = a /\ Alive(d)
          /\ s.pages = {} => Alive(s.chan) \/ \E l \in Loops : th[l].pc = "drop" /\ th[l].sid = a
      BY <2>5 DEF SerialInv, SerialPagesInv
    <3>2. \A d \in Channels : a \in LoginIds[d] /\ Alive(d) => d \in open \cup inactive
      BY <2>3 DEF Alive
    <3>3. s.pages = {} => s.chan \in open \cup inactive
      BY <2>1, <3>1, <3>2 DEF Settled
    <3>4. \A d \in s.pages : d \in open \cup inactive
      <4>1. SUFFICES ASSUME NEW d \in s.pages
                     PROVE  d \in open \cup inactive
        OBVIOUS
      <4>2. d \in Channels /\ attr[d] = a /\ a # None
        BY <2>1, <3>1, NoneAssumption DEF Session, NoneAssumption
      <4>3. a \in LoginIds[d]
        BY <2>2, <4>2 DEF BindInv
      <4>4. QED
        BY <3>1, <3>2, <4>2, <4>3
    <3>5. QED
      BY <3>3, <3>4
  <2>6. QED
    BY <2>1, <2>4, <2>5 DEF Channels
<1>2. QED
  BY <1>1, SerialInvariant, PTL

=============================================================================
