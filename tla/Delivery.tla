------------------------------ MODULE Delivery ------------------------------
(***************************************************************************)
(* How the messages of clients reach other clients: the handlers and       *)
(* MessageProxyImpl decide what a message is, WatchConnertorImpl looks up  *)
(* the session it is for, Session.write writes it to the pages of the      *)
(* session and then to its own channel, and pushGroupMessage writes it to  *)
(* everybody.                                                              *)
(*                                                                         *)
(* A write to a channel of another loop is a task of that loop, which the  *)
(* writer waits for up to five seconds while its own loop stands still; a  *)
(* loop cannot wait for itself.  A page that joins or leaves meanwhile     *)
(* changes the HashMap that Session.write iterates over.                   *)
(***************************************************************************)
EXTENDS Naturals, SequencesExt

CONSTANTS
  Channels,  \* connections
  Loops,     \* event loops
  LoopOf,    \* the loop of each channel
  Accounts,  \* device ids
  Login,     \* the device id that each channel is bound to, or None
  Owner,     \* the channel of the session of each account, or None
  Messages,  \* what clients may send, once each, with its `from` channel
  MaxSent,   \* bound on the messages of a behaviour
  None       \* Java's null

Members(a) == {c \in Channels : Login[c] = a}

\* A session has the channel of a client of the account.
ASSUME DeliveryAssumption ==
  /\ MaxSent \in Nat
  /\ IsFiniteSet(Channels) /\ None \notin Channels
  /\ LoopOf \in [Channels -> Loops]
  /\ Login \in [Channels -> Accounts \cup {None}] /\ None \notin Accounts
  /\ \A a \in Accounts : Owner[a] = None \/ Owner[a] \in Members(a)

ASSUME MessageAssumption == None \notin Messages /\ \A m \in Messages : m.from \in Channels

VARIABLES
  open,      \* channels whose transport is open
  online,    \* accounts with a session in the map
  pages,     \* the page table of the session of each account
  tasks,     \* writes queued on each loop
  outbound,  \* messages in the outbound buffer of each channel
  out,       \* messages each channel has taken, in order
  sent,      \* messages the server has received, in order
  th,        \* the write that each loop is executing
  audience,  \* for the properties: who was in the session for each message and still is
  ended      \* for the properties: how the write of each message ended

vars == <<open, online, pages, tasks, outbound, out, sent, th, audience, ended>>
traffic == <<tasks, outbound, out>>

Thread == [pc    : {"idle", "write", "wait"},
           msg   : Messages \cup {None},
           acc   : Accounts \cup {None},   \* the account of the session
           left  : SUBSET Channels,        \* pages the iteration has still to come to
           to    : Channels \cup {None},   \* the channel whose write is waited for
           stale : BOOLEAN]                \* the page table has changed meanwhile

Idle == [pc |-> "idle", msg |-> None, acc |-> None, left |-> {}, to |-> None, stale |-> FALSE]

LoopIdle(l) == th[l].pc = "idle"

Init ==
  /\ open = Channels
  /\ online = {a \in Accounts : Owner[a] # None}
  /\ pages = [a \in Accounts |-> {}]
  /\ tasks = [l \in Loops |-> <<>>]
  /\ outbound = [c \in Channels |-> <<>>]
  /\ out = [c \in Channels |-> <<>>]
  /\ sent = <<>>
  /\ th = [l \in Loops |-> Idle]
  /\ audience = [m \in Messages |-> {}]
  /\ ended = [m \in Messages |-> "no"]

\* Faulty: the channel that has the session is forgotten.
FaultyBound(c) == Login[c] # None /\ c \in pages[Login[c]]

\* Channel c has logged in: it has the session of its account or is in its page
\* table.
Bound(c) == /\ Login[c] # None
            /\ c = Owner[Login[c]] \/ c \in pages[Login[c]]

In(m, s) == \E i \in DOMAIN s : s[i] = m

\* The future of a write of m to c is not done.
Pending(c, m) == In(m, outbound[c]) \/ In(<<c, m>>, tasks[LoopOf[c]])

\* Writes of another thread are tasks at the end of the queue of loop k.
Queued(k, writes) == tasks[k] \o writes

-----------------------------------------------------------------------------
(* What the event loops do for their channels.                             *)

\* Netty writes m to channels of the running loop.  The socket takes it, or it
\* stays in the outbound buffer; the write to a closed channel fails at once.
WriteOnLoop(cs, m) ==
  \E taken \in SUBSET {c \in cs \cap open : outbound[c] = <<>>} :
    /\ out' = [c \in Channels |-> IF c \in taken THEN Append(out[c], m) ELSE out[c]]
    /\ outbound' = [c \in Channels |->
                      IF c \in (cs \cap open) \ taken THEN Append(outbound[c], m) ELSE outbound[c]]

\* The loop runs the first task of its queue.
RunTask(l) ==
  /\ LoopIdle(l)
  /\ tasks[l] # <<>>
  /\ WriteOnLoop({Head(tasks[l])[1]}, Head(tasks[l])[2])
  /\ tasks' = [tasks EXCEPT ![l] = Tail(@)]
  /\ UNCHANGED <<open, online, pages, sent, th, audience, ended>>

\* The peer reads, and the loop writes on.
Drain(c) ==
  /\ LoopIdle(LoopOf[c])
  /\ outbound[c] # <<>>
  /\ out' = [out EXCEPT ![c] = Append(@, Head(outbound[c]))]
  /\ outbound' = [outbound EXCEPT ![c] = Tail(@)]
  /\ UNCHANGED <<open, online, pages, tasks, sent, th, audience, ended>>

\* The peer disconnects: what is in the outbound buffer fails.
Close(c) ==
  /\ c \in open
  /\ LoopIdle(LoopOf[c])
  /\ open' = open \ {c}
  /\ outbound' = [outbound EXCEPT ![c] = <<>>]
  /\ UNCHANGED <<online, pages, tasks, out, sent, th, audience, ended>>

\* The page table of account a changes, under the iterations that are going on:
\* one that has not come to its last page may see a page that joins.
ChangePages(a, cs) ==
  /\ pages' = [pages EXCEPT ![a] = cs]
  /\ \E seeing \in SUBSET {l \in Loops : th[l].acc = a /\ th[l].left \ {th[l].to} # {}} :
       th' = [l \in Loops |->
                IF th[l].acc # a THEN th[l]
                ELSE [th[l] EXCEPT !.stale = TRUE,
                                   !.left = IF l \in seeing THEN @ \cup (cs \ pages[a]) ELSE @]]

\* addSessions(): a further page of the account logs in.
JoinPage(c) ==
  LET a == Login[c]
  IN  /\ c \in open
      /\ LoopIdle(LoopOf[c])
      /\ a \in online
      /\ ~Bound(c)
      /\ ChangePages(a, pages[a] \cup {c})
      /\ UNCHANGED <<open, online, traffic, sent, audience, ended>>

\* removeSession() for a channel that has closed: the account goes with the
\* last page.
Leave(c) ==
  LET a == Login[c]
      rest == pages[a] \ {c}
  IN  /\ c \notin open
      /\ LoopIdle(LoopOf[c])
      /\ Bound(c) /\ a \in online
      /\ c \in pages[a] \/ rest = {}
      /\ IF c \in pages[a] THEN ChangePages(a, rest) ELSE UNCHANGED <<pages, th>>
      /\ online' = IF rest = {} THEN online \ {a} ELSE online
      /\ UNCHANGED <<open, traffic, sent, audience, ended>>

-----------------------------------------------------------------------------
(* What a message is, and whom it is for.                                  *)

\* convertToMessageWrapper().
Protocol(m) ==
  IF m.type \in {"LK", "UD"} THEN m.type
  ELSE IF m.receiver # None THEN "REPLY"
  ELSE IF m.group THEN "GROUP"
  ELSE "SEND"

\* Faulty: a reply goes back to the device it comes from.
FaultyAddressee(m) == m.device

\* The account to whose session pushMessage() writes.
Addressee(m) == IF Protocol(m) = "REPLY" THEN m.receiver ELSE m.device

\* Nothing is done with positions.  The sender is stored in a message of
\* another type, which fails on the null id of a channel without a login; a
\* reply fails without a session of its device id; no session, no write.
Writes(m) ==
  /\ Protocol(m) # "UD"
  /\ Protocol(m) # "LK" => Bound(m.from)
  /\ Protocol(m) = "REPLY" => m.device \in online
  /\ Protocol(m) # "GROUP" => Addressee(m) \in online

\* Faulty: the writing is left to another thread, and the loop goes on.
FaultyReceive(m) ==
  /\ m.from \in open
  /\ ~In(m, sent) /\ Len(sent) < MaxSent
  /\ Protocol(m) = "LK" => Bound(m.from)
  /\ sent' = Append(sent, m)
  /\ UNCHANGED <<open, online, pages>>

\* channelRead() on the loop of the sender.  The LK of a channel that is not
\* bound is a login: JoinPage.
Receive(m) ==
  /\ m.from \in open
  /\ LoopIdle(LoopOf[m.from])
  /\ ~In(m, sent) /\ Len(sent) < MaxSent
  /\ Protocol(m) = "LK" => Bound(m.from)
  /\ sent' = Append(sent, m)
  /\ UNCHANGED <<open, online, pages>>

\* A message that is not written to anybody.
Ignore(m) ==
  /\ Receive(m)
  /\ ~Writes(m)
  /\ UNCHANGED <<traffic, th, audience, ended>>

\* pushMessage() up to Session.write() of the session it found.
PushMessage(m) ==
  LET a == Addressee(m)
  IN  /\ Receive(m)
      /\ Writes(m)
      /\ Protocol(m) # "GROUP"
      /\ th' = [th EXCEPT ![LoopOf[m.from]] =
                  [Idle EXCEPT !.pc = "write", !.msg = m, !.acc = a, !.left = pages[a]]]
      /\ audience' = [audience EXCEPT ![m] = pages[a] \cup {Owner[a]}]
      /\ UNCHANGED <<traffic, ended>>

\* pushGroupMessage(): the channel group writes to all channels that have
\* logged in, and the handler waits for none.
PushGroupMessage(m) ==
  LET l == LoopOf[m.from]
      group == {c \in open : Bound(c)}
      On(k) == {c \in group : LoopOf[c] = k}
  IN  /\ Receive(m)
      /\ Writes(m)
      /\ Protocol(m) = "GROUP"
      /\ WriteOnLoop(On(l), m)
      /\ tasks' = [k \in Loops |-> IF k = l THEN tasks[k]
                                   ELSE Queued(k, SetToSeq({<<c, m>> : c \in On(k)}))]
      /\ audience' = [audience EXCEPT ![m] = group]
      /\ ended' = [ended EXCEPT ![m] = "ok"]
      /\ UNCHANGED th

-----------------------------------------------------------------------------
(* Session.write().                                                        *)

Finish(l, how) ==
  /\ th' = [th EXCEPT ![l] = Idle]
  /\ ended' = [ended EXCEPT ![th[l].msg] = how]

\* Faulty: returns after the first page.
FaultyGoOn(l, c) == Finish(l, "ok")

\* The write to channel c is over: the session's own channel is the last one.
GoOn(l, c) ==
  IF c = Owner[th[l].acc] THEN Finish(l, "ok")
  ELSE /\ th' = [th EXCEPT ![l].pc = "write", ![l].left = @ \ {c}, ![l].to = None]
       /\ UNCHANGED ended

\* writeAndFlush(msg).awaitUninterruptibly(5000): a loop fails to wait for a
\* write of its own that is not done at once, and waits for another loop's.
WriteTo(l, c) ==
  \/ /\ LoopOf[c] = l
     /\ WriteOnLoop({c}, th[l].msg)
     /\ IF In(th[l].msg, outbound'[c]) THEN Finish(l, "failed") ELSE GoOn(l, c)
     /\ UNCHANGED tasks
  \/ /\ LoopOf[c] # l
     /\ tasks' = [tasks EXCEPT ![LoopOf[c]] = Queued(LoopOf[c], << <<c, th[l].msg>> >>)]
     /\ th' = [th EXCEPT ![l].pc = "wait", ![l].to = c]
     /\ UNCHANGED <<outbound, out, ended>>

\* The next page of the iteration, if it is still in the table.
WritePage(l) ==
  /\ th[l].pc = "write"
  /\ \E c \in th[l].left :
       IF c \in pages[th[l].acc] THEN WriteTo(l, c)
       ELSE GoOn(l, c) /\ UNCHANGED traffic
  /\ UNCHANGED <<open, online, pages, sent, audience>>

\* The iterator finds that the table has changed, which nothing makes certain:
\* ConcurrentModificationException.
IterationFails(l) ==
  /\ th[l].pc = "write"
  /\ th[l].left # {} /\ th[l].stale
  /\ Finish(l, "failed")
  /\ UNCHANGED <<open, online, pages, traffic, sent, audience>>

\* The session's own channel comes last.
WriteOwn(l) ==
  /\ th[l].pc = "write"
  /\ th[l].left = {}
  /\ WriteTo(l, Owner[th[l].acc])
  /\ UNCHANGED <<open, online, pages, sent, audience>>

\* The other loop has done the write.
WriteDone(l) ==
  /\ th[l].pc = "wait"
  /\ ~Pending(th[l].to, th[l].msg)
  /\ GoOn(l, th[l].to)
  /\ UNCHANGED <<open, online, pages, traffic, sent, audience>>

\* Faulty: await() without the five seconds.
FaultyForever(l) == th[l].pc = "wait" /\ UNCHANGED vars

\* Faulty: after the five seconds it writes once more.
FaultyRetry(l) ==
  LET c == th[l].to
  IN  /\ th[l].pc = "wait"
      /\ Pending(c, th[l].msg)
      /\ tasks' = [tasks EXCEPT ![LoopOf[c]] = Queued(LoopOf[c], << <<c, th[l].msg>> >>)]
      /\ GoOn(l, c)
      /\ UNCHANGED <<open, online, pages, outbound, out, sent, audience>>

\* Faulty: after the five seconds it cancels the write.
FaultyCancel(l) ==
  LET c == th[l].to
  IN  /\ th[l].pc = "wait"
      /\ In(<<c, th[l].msg>>, tasks[LoopOf[c]])
      /\ tasks' = [tasks EXCEPT ![LoopOf[c]] = SelectSeq(@, LAMBDA t : t # <<c, th[l].msg>>)]
      /\ GoOn(l, c)
      /\ UNCHANGED <<open, online, pages, outbound, out, sent, audience>>

\* Five seconds have passed: Session.write() goes on as if it were done.
WaitTimeout(l) ==
  /\ th[l].pc = "wait"
  /\ Pending(th[l].to, th[l].msg)
  /\ GoOn(l, th[l].to)
  /\ UNCHANGED <<open, online, pages, traffic, sent, audience>>

WriteStep(l) == \/ WritePage(l) \/ IterationFails(l) \/ WriteOwn(l)
                \/ WriteDone(l) \/ WaitTimeout(l)

\* Nothing is left to do but to wait for clients.
Quiescent ==
  /\ \A l \in Loops : LoopIdle(l) /\ tasks[l] = <<>>
  /\ \A c \in Channels : outbound[c] = <<>>
  /\ UNCHANGED vars

Next ==
  \/ \E l \in Loops : WriteStep(l) \/ RunTask(l)
  \/ \E c \in Channels : Drain(c) \/ Close(c) \/ JoinPage(c) \/ Leave(c)
  \/ \E m \in Messages : Ignore(m) \/ PushMessage(m) \/ PushGroupMessage(m)
  \/ Quiescent

Spec == Init /\ [][Next]_vars

\* A loop goes on with the write it is executing, which ends after five seconds
\* at the latest; it runs its tasks between the events of its channels; clients
\* read what is sent to them.
Fairness == /\ \A l \in Loops : WF_vars(WriteStep(l)) /\ SF_vars(RunTask(l))
            /\ \A c \in Channels : SF_vars(Drain(c))

FairSpec == Spec /\ Fairness

-----------------------------------------------------------------------------
(* Properties.                                                             *)

\* The values of the variables; the page table of a session is without the
\* session's own channel, a loop that writes has a message and a session, and
\* one that waits, waits for another loop.
TypeOK ==
  /\ open \subseteq Channels
  /\ online \subseteq {a \in Accounts : Owner[a] # None}
  /\ pages \in [Accounts -> SUBSET Channels]
  /\ \A a \in Accounts : pages[a] \subseteq Members(a) \ {Owner[a]}
  /\ tasks \in [Loops -> Seq(Channels \X Messages)]
  /\ \A l \in Loops, c \in Channels, m \in Messages : In(<<c, m>>, tasks[l]) => LoopOf[c] = l
  /\ outbound \in [Channels -> Seq(Messages)] /\ out \in [Channels -> Seq(Messages)]
  /\ \A c \in Channels : c \notin open => outbound[c] = <<>>
  /\ sent \in Seq(Messages)
  /\ th \in [Loops -> Thread]
  /\ \A l \in Loops :
       /\ ~LoopIdle(l) => th[l].msg # None /\ th[l].acc # None /\ Owner[th[l].acc] # None
       /\ th[l].pc = "wait" => th[l].to # None /\ LoopOf[th[l].to] # l
  /\ audience \in [Messages -> SUBSET Channels]
  /\ ended \in [Messages -> {"no", "ok", "failed"}]

\* No channel gets a message twice, whatever times out.
OnceEach ==
  \A c \in Channels :
    LET taken == out[c] \o outbound[c]
        queue == tasks[LoopOf[c]]
    IN  /\ IsInjective(taken) /\ IsInjective(queue)
        /\ \A m \in Messages : ~(In(m, taken) /\ In(<<c, m>>, queue))

\* A channel gets the messages of one client in the order in which the client
\* sent them, although the writer does not wait for them to the end.
InOrder ==
  \A c \in Channels : \A i, j \in DOMAIN out[c] :
    i < j /\ out[c][i].from = out[c][j].from
      => \E k, n \in DOMAIN sent : k < n /\ sent[k] = out[c][i] /\ sent[n] = out[c][j]

\* Only the clients of the receiver get a message, only those of its device id
\* one without a receiver.  The answer to a heartbeat goes to the device id
\* whatever the receiver is.
ForItsReceiver ==
  \A c \in Channels : \A i \in DOMAIN out[c] :
    LET m == out[c][i]
    IN  Protocol(m) # "GROUP" =>
          Login[c] = IF m.receiver = None \/ m.type = "LK" THEN m.device ELSE m.receiver

\* A write that came to its end without an exception has left no connection of
\* the session out, although pages may have joined and left.
ReachesAll ==
  \A m \in Messages : ended[m] = "ok" =>
    \A c \in audience[m] \cap open : In(m, out[c]) \/ Pending(c, m)

\* No write keeps a loop for good, also when loops wait for each other.
WritesEnd == \A l \in Loops : []<>LoopIdle(l)

\* What was written gets to the clients that stay, also after a time out: time
\* and again nothing that they are to get is outstanding.
Delivered ==
  []<>(\A m \in Messages : ended[m] = "ok" => \A c \in audience[m] \cap open : In(m, out[c]))

=============================================================================
