--------------------------- MODULE SessionManager ---------------------------
(***************************************************************************)
(* The session registry of the watch server: SessionManagerImpl, the       *)
(* connection half of WatchConnertorImpl (heartbeat and close), the        *)
(* connection events of the two channel handlers, and WatchChannelGroup.   *)
(*                                                                         *)
(* Every channel belongs to one event loop, and an event loop is a thread  *)
(* that runs one handler at a time.  Handlers of channels of different     *)
(* loops interleave at every access to shared state: the map `sessions`    *)
(* (a ConcurrentHashMap), the page table of a Session (an unsynchronized   *)
(* HashMap), the channel group, and the monitor of the SessionManagerImpl, *)
(* which addSession, updateSession and removeSession hold and              *)
(* createSession does not.                                                 *)
(***************************************************************************)
EXTENDS Naturals, FiniteSets

CONSTANTS
  SocketChannels,  \* TCP connections of watches, accepted by WatchServer
  WebChannels,     \* connections of web pages, accepted by WatchWebSocketServer
  Accounts,        \* device ids that clients log in with
  Blank,           \* the empty device id
  Loops,           \* event loops of the two worker groups
  LoopOf,          \* the event loop each channel is registered with
  LoginIds,        \* the device ids the client of each channel may send in an LK
  SessionIds,      \* identities of Session objects
  None             \* Java's null

Channels == SocketChannels \cup WebChannels

ASSUME ChannelAssumption == SocketChannels \cap WebChannels = {}

\* Each server has a NioEventLoopGroup of its own, so a watch and a page never
\* share a loop.
ASSUME LoopAssumption ==
  /\ LoopOf \in [Channels -> Loops]
  /\ \A w \in SocketChannels, p \in WebChannels : LoopOf[w] # LoopOf[p]

ASSUME LoginAssumption == LoginIds \in [Channels -> SUBSET Accounts]

ASSUME NoneAssumption == None \notin Channels \cup Accounts \cup Loops \cup SessionIds

VARIABLES
  open,      \* channels whose transport is open
  closing,   \* channels with a close() of another thread queued on their loop
  inactive,  \* closed channels whose channelInactive event is still queued
  attr,      \* attribute SERVER_SESSION_ID of each channel
  sessions,  \* SessionManagerImpl.sessions, account -> Session
  sess,      \* the Session objects
  group,     \* members of WatchChannelGroup
  monitor,   \* the loop that holds the SessionManagerImpl monitor
  th         \* what each event loop is executing

vars == <<open, closing, inactive, attr, sessions, sess, group, monitor, th>>
transport == <<open, closing, inactive>>

Source(c) == IF c \in WebChannels THEN "websocket" ELSE "socket"

\* A Session: its account, its channel, and the pages that joined it later.
\* Its source is the source of its channel: the handler of the channel sets it.
Session == [account : Accounts \cup {None}, chan : Channels \cup {None}, pages : SUBSET Channels]

NoSession == [account |-> None, chan |-> None, pages |-> {}]

NewSession(c, a) == [account |-> a, chan |-> c, pages |-> {}]

LoginSteps == {"get", "ungroup", "unmap", "add", "join", "putpage", "storepage", "update", "joinpage"}
FoundSteps == {"ungroup", "unmap", "putpage", "storepage", "update"}  \* with a session found
CloseSteps == {"close", "remove", "drop", "broadcast", "leave"}

Thread == [pc   : {"idle"} \cup LoginSteps \cup CloseSteps,
           ctx  : Channels \cup {None},       \* the channel whose event is handled
           sid  : Accounts \cup {None},       \* local sessionId
           ref  : SessionIds \cup {None},     \* local session of createSession
           view : SUBSET Channels]            \* HashMap contents a put() started from

Idle == [pc |-> "idle", ctx |-> None, sid |-> None, ref |-> None, view |-> {}]

Running(step, c, a) == [pc |-> step, ctx |-> c, sid |-> a, ref |-> None, view |-> {}]

Goto(l, step) == th' = [th EXCEPT ![l].pc = step]
Finish(l)     == th' = [th EXCEPT ![l] = Idle]
LoopIdle(l)   == th[l].pc = "idle"
Quiet         == \A l \in Loops : LoopIdle(l)

\* Session objects that the map or a running createSession refers to.
Reachable == {sessions[a] : a \in Accounts} \cup {th[l].ref : l \in Loops}

\* Bound on Session objects: an account and a loop refer to one each, so that
\* |Accounts| + |Loops| of them never run out.
Unused == SessionIds \ Reachable
FreshSession == CHOOSE n \in SessionIds : n \in Unused

-----------------------------------------------------------------------------
(* The conditions and updates that several handlers share.  A definition   *)
(* named Faulty... is the next one with a bug, for checking that the       *)
(* properties can tell.                                                    *)

\* Faulty: the methods of SessionManagerImpl are not synchronized.
FaultyCanEnter(l) == TRUE

\* Loop l can enter the monitor of the SessionManagerImpl.
CanEnter(l) == monitor = None

\* Faulty: only a change of source replaces a session.
FaultyKicks(s, c) == Source(sess[s].chan) # Source(c)

\* A login on channel c replaces session s unless both belong to web pages.
Kicks(s, c) == \/ Source(sess[s].chan) # Source(c)
               \/ Source(sess[s].chan) = "socket"

\* Faulty: the channel does not remember its device id.
FaultyBind(c, a) == attr

\* Session.setAccount stores the account as SERVER_SESSION_ID of the channel,
\* and setChannelSessionId stores it once more.
Bind(c, a) == [attr EXCEPT ![c] = a]

\* Faulty: a login does not join the group.
FaultyJoin(c) == group

\* WatchChannelGroup.add().
Join(c) == group \cup {c}

\* Faulty: a channel that never logged in is closed like any other.
FaultyUnbound(c) == attr[c] = Blank

\* getChannelSessionId() is blank: close(ctx, wrapper) has nothing to do.
Unbound(c) == attr[c] \in {None, Blank}

\* Faulty: off by one, the session of the last page stays.
FaultyNoOtherPages(pages) == Cardinality(pages) < 0

\* session.otherSessionSize() < 1.
NoOtherPages(pages) == Cardinality(pages) < 1

Init ==
  /\ open = Channels
  /\ closing = {}
  /\ inactive = {}
  /\ attr = [c \in Channels |-> None]
  /\ sessions = [a \in Accounts |-> None]
  /\ sess = [n \in SessionIds |-> NoSession]
  /\ group = {}
  /\ monitor = None
  /\ th = [l \in Loops |-> Idle]

-----------------------------------------------------------------------------
(* Closing a channel.                                                      *)

\* The transport closes: the group's close listener removes the channel at
\* once, channelInactive is fired by a later task of the loop.
TransportClosed(c) ==
  /\ open' = open \ {c}
  /\ inactive' = inactive \cup ({c} \cap open)
  /\ group' = group \ {c}

\* Session.close(): Channel.close() acts at once on the channel's own loop and
\* is queued when another thread calls it.
CloseChannel(l, c) ==
  \/ /\ LoopOf[c] = l
     /\ TransportClosed(c)
     /\ UNCHANGED closing
  \/ /\ LoopOf[c] # l
     /\ closing' = closing \cup ({c} \cap open)
     /\ UNCHANGED <<open, inactive, group>>

\* The loop runs a queued close().
RunQueuedClose(c) ==
  /\ c \in closing
  /\ LoopIdle(LoopOf[c])
  /\ closing' = closing \ {c}
  /\ TransportClosed(c)
  /\ UNCHANGED <<attr, sessions, sess, monitor, th>>

\* The peer disconnects.
PeerClose(c) ==
  /\ c \in open
  /\ LoopIdle(LoopOf[c])
  /\ TransportClosed(c)
  /\ UNCHANGED <<closing, attr, sessions, sess, monitor, th>>

-----------------------------------------------------------------------------
(* An LK message with a device id the channel is not bound to: heartbeat() *)
(* and createSession().  An LK with the bound id only pushes the reply and *)
(* leaves the registry alone.                                              *)

Heartbeat(c, a) ==
  /\ c \in open
  /\ LoopIdle(LoopOf[c])
  /\ a \in LoginIds[c]
  /\ attr[c] # a
  /\ th' = [th EXCEPT ![LoopOf[c]] = Running("get", c, a)]
  /\ UNCHANGED <<open, closing, inactive, attr, sessions, sess, group, monitor>>

\* The unsynchronized sessions.get() of createSession and its three outcomes.
CreateSession(l) ==
  LET found == sessions[th[l].sid]
  IN  /\ th[l].pc = "get"
      /\ \/ /\ found = None
            /\ Goto(l, "add")
         \/ /\ found # None
            /\ Kicks(found, th[l].ctx)
            /\ th' = [th EXCEPT ![l].pc = "ungroup", ![l].ref = found]
         \/ /\ found # None
            /\ ~Kicks(found, th[l].ctx)
            /\ th' = [th EXCEPT ![l].pc = "putpage", ![l].ref = found]
      /\ UNCHANGED <<transport, attr, sessions, sess, group, monitor>>

\* WatchChannelGroup.remove(session.getSession()) of the replaced session.
KickFromGroup(l) ==
  /\ th[l].pc = "ungroup"
  /\ group' = group \ {sess[th[l].ref].chan}
  /\ Goto(l, "unmap")
  /\ UNCHANGED <<transport, attr, sessions, sess, monitor>>

\* sessions.remove(session.getAccount()): whatever the key holds by now.
KickFromMap(l) ==
  /\ th[l].pc = "unmap"
  /\ sessions' = [sessions EXCEPT ![sess[th[l].ref].account] = None]
  /\ th' = [th EXCEPT ![l].pc = "add", ![l].ref = None]
  /\ UNCHANGED <<transport, attr, sess, group, monitor>>

\* setSessionContent() and the put() of addSession(), which is synchronized.
AddSession(l) ==
  LET c == th[l].ctx
      n == FreshSession
  IN  /\ th[l].pc = "add"
      /\ CanEnter(l)
      /\ Unused # {}
      /\ monitor' = l
      /\ attr' = Bind(c, th[l].sid)
      /\ sess' = [sess EXCEPT ![n] = NewSession(c, th[l].sid)]
      /\ sessions' = [sessions EXCEPT ![th[l].sid] = n]
      /\ Goto(l, "join")
      /\ UNCHANGED <<transport, group>>

\* WatchChannelGroup.add() of addSession(), which then leaves the monitor.
AddSessionJoin(l) ==
  /\ th[l].pc = "join"
  /\ group' = Join(th[l].ctx)
  /\ monitor' = None
  /\ Finish(l)
  /\ UNCHANGED <<transport, attr, sessions, sess>>

\* session.addSessions(newsession) puts into a HashMap without a lock: a put
\* that overlaps another change of the same table may undo it.
AddPageRead(l) ==
  LET c == th[l].ctx
  IN  /\ th[l].pc = "putpage"
      /\ attr' = Bind(c, th[l].sid)
      /\ th' = [th EXCEPT ![l].pc = "storepage", ![l].view = sess[th[l].ref].pages]
      /\ UNCHANGED <<transport, sessions, sess, group, monitor>>

AddPageStore(l) ==
  /\ th[l].pc = "storepage"
  /\ sess' = [sess EXCEPT ![th[l].ref].pages = th[l].view \cup {th[l].ctx}]
  /\ th' = [th EXCEPT ![l].pc = "update", ![l].view = {}]
  /\ UNCHANGED <<transport, attr, sessions, group, monitor>>

\* updateSession() puts the session it was given back under its account.
UpdateSession(l) ==
  LET s == th[l].ref
  IN  /\ th[l].pc = "update"
      /\ CanEnter(l)
      /\ sessions' = [sessions EXCEPT ![sess[s].account] = s]
      /\ th' = [th EXCEPT ![l].pc = "joinpage", ![l].ref = None]
      /\ UNCHANGED <<transport, attr, sess, group, monitor>>

\* WatchChannelGroup.add(newsession.getSession()).
AddPageJoin(l) ==
  /\ th[l].pc = "joinpage"
  /\ group' = Join(th[l].ctx)
  /\ Finish(l)
  /\ UNCHANGED <<transport, attr, sessions, sess, monitor>>

-----------------------------------------------------------------------------
(* The end of a connection: channelInactive, and READER_IDLE after an      *)
(* unanswered heartbeat.                                                   *)

\* channelInactive(): a channel without a device id, or with a blank one, has
\* nothing to close.
ChannelInactive(c) ==
  LET l == LoopOf[c]
  IN  /\ c \in inactive
      /\ LoopIdle(l)
      /\ inactive' = inactive \ {c}
      /\ IF Unbound(c)
           THEN UNCHANGED th
           ELSE th' = [th EXCEPT ![l] = Running("close", c, attr[c])]
      /\ UNCHANGED <<open, closing, attr, sessions, sess, group, monitor>>

\* READER_IDLE with an expired heartbeat: connertor.close(ctx), which fails on
\* the null key of a channel that never logged in.
ReaderIdle(c) ==
  LET l == LoopOf[c]
  IN  /\ c \in open
      /\ LoopIdle(l)
      /\ attr[c] # None
      /\ th' = [th EXCEPT ![l] = Running("close", c, attr[c])]
      /\ UNCHANGED <<transport, attr, sessions, sess, group, monitor>>

\* close(ctx): without a session there is nothing to do.
CloseLookup(l) ==
  /\ th[l].pc = "close"
  /\ IF sessions[th[l].sid] = None THEN Finish(l) ELSE Goto(l, "remove")
  /\ UNCHANGED <<transport, attr, sessions, sess, group, monitor>>

\* removeSession(sessionId, nid) reads the map again inside the monitor.  A
\* watch session closes its channel; a page closes itself only and keeps the
\* session while other pages remain; an unknown page fails with a swallowed
\* NullPointerException.
RemoveSession(l) ==
  LET c == th[l].ctx
      s == sessions[th[l].sid]
      rest == sess[s].pages \ {c}
      Drop  == monitor' = l /\ Goto(l, "drop")
      Leave == UNCHANGED monitor /\ Goto(l, "leave")
  IN  /\ th[l].pc = "remove"
      /\ CanEnter(l)
      /\ \/ /\ s = None
            /\ Leave
            /\ UNCHANGED <<transport, sess, group>>
         \/ /\ s # None
            /\ Source(sess[s].chan) = "socket"
            /\ CloseChannel(l, sess[s].chan)
            /\ Drop
            /\ UNCHANGED sess
         \/ /\ s # None
            /\ Source(sess[s].chan) = "websocket"
            /\ sess[s].chan = c
            /\ CloseChannel(l, c)
            /\ IF NoOtherPages(sess[s].pages) THEN Drop ELSE Leave
            /\ UNCHANGED sess
         \/ /\ s # None
            /\ Source(sess[s].chan) = "websocket"
            /\ sess[s].chan # c
            /\ c \in sess[s].pages
            /\ CloseChannel(l, c)
            /\ sess' = [sess EXCEPT ![s].pages = rest]
            /\ IF NoOtherPages(rest) THEN Drop ELSE Leave
         \/ /\ s # None
            /\ Source(sess[s].chan) = "websocket"
            /\ sess[s].chan # c
            /\ c \notin sess[s].pages
            /\ Leave
            /\ UNCHANGED <<transport, sess, group>>
      /\ UNCHANGED <<attr, sessions>>

\* sessions.remove(sessionId) of removeSession.
RemoveFromMap(l) ==
  /\ th[l].pc = "drop"
  /\ sessions' = [sessions EXCEPT ![th[l].sid] = None]
  /\ Goto(l, "broadcast")
  /\ UNCHANGED <<transport, attr, sess, group, monitor>>

\* Faulty: the monitor is not left.
FaultyBroadcastOffline(l) ==
  /\ th[l].pc = "broadcast"
  /\ Goto(l, "leave")
  /\ UNCHANGED <<transport, attr, sessions, sess, group, monitor>>

\* The OFFLINE broadcast to the group ends removeSession.
BroadcastOffline(l) ==
  /\ th[l].pc = "broadcast"
  /\ monitor' = None
  /\ Goto(l, "leave")
  /\ UNCHANGED <<transport, attr, sessions, sess, group>>

\* WatchChannelGroup.remove(hander.channel()) ends close(ctx).
LeaveGroup(l) ==
  /\ th[l].pc = "leave"
  /\ group' = group \ {th[l].ctx}
  /\ Finish(l)
  /\ UNCHANGED <<transport, attr, sessions, sess, monitor>>

-----------------------------------------------------------------------------
\* All clients are gone and the server waits for new connections.
Drained ==
  /\ open = {} /\ closing = {} /\ inactive = {}
  /\ Quiet
  /\ UNCHANGED vars

LoopStep(l) ==
  \/ CreateSession(l) \/ KickFromGroup(l) \/ KickFromMap(l)
  \/ AddSession(l) \/ AddSessionJoin(l)
  \/ AddPageRead(l) \/ AddPageStore(l) \/ UpdateSession(l) \/ AddPageJoin(l)
  \/ CloseLookup(l) \/ RemoveSession(l) \/ RemoveFromMap(l)
  \/ BroadcastOffline(l) \/ LeaveGroup(l)

ChannelEvent(c) ==
  \/ \E a \in Accounts : Heartbeat(c, a)
  \/ PeerClose(c) \/ RunQueuedClose(c) \/ ChannelInactive(c) \/ ReaderIdle(c)

Next == \/ \E l \in Loops : LoopStep(l)
        \/ \E c \in Channels : ChannelEvent(c)
        \/ Drained

Spec == Init /\ [][Next]_vars

\* An event loop runs the handler it has started to its end, and the tasks in
\* its queue between the handlers of later events, so that those cannot put a
\* task off forever.  Logins, disconnects and idle timers are the clients'
\* business.
Fairness == /\ \A l \in Loops : WF_vars(LoopStep(l))
            /\ \A c \in Channels : SF_vars(RunQueuedClose(c)) /\ SF_vars(ChannelInactive(c))

FairSpec == Spec /\ Fairness

-----------------------------------------------------------------------------
(* Properties.                                                             *)

\* A running handler has a channel and a device id, and the session it found
\* where it goes on to use one: the guards against null come before every use.
HandlersOK ==
  /\ th \in [Loops -> Thread]
  /\ \A l \in Loops :
       /\ ~LoopIdle(l) => th[l].ctx \in Channels /\ th[l].sid \in Accounts
       /\ th[l].pc \in FoundSteps => th[l].ref \in SessionIds

\* The values of the variables, with the guards that handlers rely on.
TypeOK ==
  /\ open \subseteq Channels
  /\ closing \subseteq Channels
  /\ inactive \subseteq Channels
  /\ attr \in [Channels -> Accounts \cup {None}]
  /\ sessions \in [Accounts -> SessionIds \cup {None}]
  /\ sess \in [SessionIds -> Session]
  /\ group \subseteq Channels
  /\ monitor \in Loops \cup {None}
  /\ HandlersOK

\* The channel of the session registered under account a.
Registered(a, c) == sessions[a] # None /\ sess[sessions[a]].chan = c

\* Channel c's own loop is executing one of the given steps for c.
At(c, steps) == th[LoopOf[c]].ctx = c /\ th[LoopOf[c]].pc \in steps

\* While removeSession broadcasts that an account is offline, the account is
\* not registered, whatever logins and disconnects run on other loops.
OfflineTruth ==
  \A l \in Loops : th[l].pc = "broadcast" => sessions[th[l].sid] = None

\* A watch session never outlives its connection: its channel is open, or the
\* disconnect is queued or being handled up to the removal from the map.
SocketSessionLive ==
  \A a \in Accounts, c \in SocketChannels :
    Registered(a, c) => c \in open \cup inactive \/ At(c, {"close", "remove", "drop"})

\* A registered watch is in the broadcast group, except between the two steps
\* of its own addSession and while a newer login is replacing it.
RegisteredInGroup ==
  \A a \in Accounts, c \in SocketChannels :
    /\ Registered(a, c)
    /\ c \in open
    /\ ~At(c, {"join"})
    /\ ~\E l \in Loops : th[l].pc = "unmap" /\ th[l].ref = sessions[a]
    => c \in group

\* A handler that has started comes to its end: no loop waits forever for the
\* monitor.
HandlersFinish == \A l \in Loops : ~LoopIdle(l) ~> LoopIdle(l)

\* The registry forgets a watch whose connection has ended, and the close that
\* a login or a disconnect of another loop queued for it takes place.
DisconnectForgotten ==
  \A a \in Accounts, c \in SocketChannels :
    (c \in closing \/ c \notin open) ~> (c \notin open /\ ~Registered(a, c))

=============================================================================
