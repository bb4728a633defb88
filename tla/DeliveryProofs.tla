--------------------------- MODULE DeliveryProofs ---------------------------
(***************************************************************************)
(* Theorems about Delivery, for any channels, loops, accounts and messages.*)
(***************************************************************************)
EXTENDS DeliveryInvariants, TLAPS, FiniteSetTheorems, SequenceTheorems

-----------------------------------------------------------------------------
(* Sequences.                                                              *)

\* What is in a sequence that has become longer.
LEMMA InAppend ==
  ASSUME NEW S, NEW s \in Seq(S), NEW e \in S
  PROVE  /\ Append(s, e) \in Seq(S)
         /\ \A x : In(x, Append(s, e)) <=> In(x, s) \/ x = e
<1>1. /\ Append(s, e) \in Seq(S) /\ Len(Append(s, e)) = Len(s) + 1
      /\ \A i \in 1 .. Len(s) : Append(s, e)[i] = s[i]
      /\ Append(s, e)[Len(s) + 1] = e
      /\ Len(s) \in Nat
  BY AppendProperties, LenProperties
<1>2. DOMAIN s = 1 .. Len(s) /\ DOMAIN Append(s, e) = 1 .. Len(s) + 1
  BY <1>1, LenProperties
<1>3. QED
  BY <1>1, <1>2 DEF In

\* What is in a sequence without its head.
LEMMA InTail ==
  ASSUME NEW S, NEW s \in Seq(S), s # <<>>
  PROVE  /\ Head(s) \in S /\ Tail(s) \in Seq(S)
         /\ \A x : In(x, s) <=> x = Head(s) \/ In(x, Tail(s))
<1>1. /\ Head(s) \in S /\ Tail(s) \in Seq(S) /\ Len(Tail(s)) = Len(s) - 1
      /\ \A i \in 1 .. Len(Tail(s)) : Tail(s)[i] = s[i + 1]
      /\ Len(s) \in Nat \ {0} /\ Head(s) = s[1]
  BY HeadTailProperties, EmptySeq
<1>2. DOMAIN s = 1 .. Len(s) /\ DOMAIN Tail(s) = 1 .. Len(s) - 1
  BY <1>1, LenProperties
<1>3. ASSUME NEW x, In(x, s)
      PROVE  x = Head(s) \/ In(x, Tail(s))
  <2>1. PICK i \in 1 .. Len(s) : s[i] = x
    BY <1>2, <1>3 DEF In
  <2>2. CASE i # 1
    <3>1. i - 1 \in 1 .. Len(s) - 1 /\ (i - 1) + 1 = i
      BY <1>1, <2>1, <2>2
    <3>2. QED
      BY <1>1, <1>2, <2>1, <3>1 DEF In
  <2>3. QED
    BY <1>1, <2>1, <2>2
<1>4. ASSUME NEW x, x = Head(s) \/ In(x, Tail(s))
      PROVE  In(x, s)
  <2>1. CASE x = Head(s)
    BY <1>1, <1>2, <2>1 DEF In
  <2>2. ASSUME NEW i \in 1 .. Len(s) - 1, Tail(s)[i] = x
        PROVE  In(x, s)
    <3>1. i + 1 \in 1 .. Len(s) /\ s[i + 1] = x
      BY <1>1, <2>2
    <3>2. QED
      BY <1>2, <3>1 DEF In
  <2>3. QED
    BY <1>2, <1>4, <2>1, <2>2 DEF In
<1>5. QED
  BY <1>1, <1>3, <1>4

\* What is in a concatenation.
LEMMA InConcat ==
  ASSUME NEW S, NEW s \in Seq(S), NEW t \in Seq(S)
  PROVE  /\ s \o t \in Seq(S)
         /\ \A x : In(x, s \o t) <=> In(x, s) \/ In(x, t)
<1>1. s \o t \in Seq(S) /\ Range(s \o t) = Range(s) \cup Range(t)
  BY ConcatProperties, RangeConcatenation
<1>2. \A x, r : In(x, r) <=> x \in Range(r)
  BY DEF In, Range
<1>3. QED
  BY <1>1, <1>2

\* SetToSeq lists the elements of a finite set, each once.
LEMMA SetToSeqLists ==
  ASSUME NEW S, IsFiniteSet(S)
  PROVE  /\ SetToSeq(S) \in Seq(S)
         /\ \A x : In(x, SetToSeq(S)) <=> x \in S
         /\ \A i, j \in DOMAIN SetToSeq(S) : SetToSeq(S)[i] = SetToSeq(S)[j] => i = j
<1>1. Cardinality(S) \in Nat /\ ExistsBijection(1 .. Cardinality(S), S)
  BY FS_CardinalityType
<1>2. \E f \in [1 .. Cardinality(S) -> S] : IsInjective(f)
  BY <1>1 DEF ExistsBijection, Bijection, Injection, IsInjective
<1>3. SetToSeq(S) \in [1 .. Cardinality(S) -> S] /\ IsInjective(SetToSeq(S))
  BY <1>2 DEF SetToSeq
<1>4. SetToSeq(S) \in Seq(S)
  BY <1>1, <1>3, SeqDef
<1>5. SetToSeq(S) \in Injection(1 .. Cardinality(S), S)
  BY <1>3 DEF Injection, IsInjective
<1>6. Cardinality(1 .. Cardinality(S)) = Cardinality(S)
  BY <1>1, FS_Interval
<1>7. SetToSeq(S) \in Surjection(1 .. Cardinality(S), S)
  BY <1>5, <1>6, FS_Injection
<1>8. QED
  BY <1>3, <1>4, <1>7 DEF Surjection, IsInjective, In

-----------------------------------------------------------------------------
(* Type correctness.                                                       *)

LEMMA OwnerType == \A a \in Accounts : Owner[a] # None => Owner[a] \in Channels /\ Login[Owner[a]] = a
BY DeliveryAssumption DEF DeliveryAssumption, Members

\* The initial state is well typed.
LEMMA InitTypeOK == Init => TypeOK
<1> SUFFICES ASSUME Init
             PROVE  TypeOK
  OBVIOUS
<1>1. \A l \in Loops, c \in Channels, m \in Messages : ~In(<<c, m>>, tasks[l])
  BY DEF Init, In
<1>2. th \in [Loops -> Thread] /\ \A l \in Loops : th[l].pc = "idle"
  BY DEF Init, Idle, Thread
<1>3. QED
  BY <1>1, <1>2 DEF Init, TypeOK, LoopIdle

\* What Netty does with a message that the loop writes to some channels: the
\* socket takes it, it stays in the buffer, or the channel is closed.
LEMMA OnLoop ==
  ASSUME TypeOK, NEW cs \in SUBSET Channels, NEW m \in Messages, WriteOnLoop(cs, m)
  PROVE  /\ out' \in [Channels -> Seq(Messages)] /\ outbound' \in [Channels -> Seq(Messages)]
         /\ \A c \in Channels :
              \/ c \notin cs \cap open /\ out'[c] = out[c] /\ outbound'[c] = outbound[c]
              \/ /\ c \in cs \cap open /\ outbound[c] = <<>>
                 /\ out'[c] = Append(out[c], m) /\ outbound'[c] = outbound[c]
              \/ c \in cs \cap open /\ out'[c] = out[c] /\ outbound'[c] = Append(outbound[c], m)
<1>1. PICK taken \in SUBSET {c \in cs \cap open : outbound[c] = <<>>} :
        /\ out' = [c \in Channels |-> IF c \in taken THEN Append(out[c], m) ELSE out[c]]
        /\ outbound' = [c \in Channels |->
                          IF c \in (cs \cap open) \ taken THEN Append(outbound[c], m) ELSE outbound[c]]
  BY DEF WriteOnLoop
<1>2. \A c \in Channels : /\ out[c] \in Seq(Messages) /\ outbound[c] \in Seq(Messages)
                          /\ Append(out[c], m) \in Seq(Messages)
                          /\ Append(outbound[c], m) \in Seq(Messages)
  BY AppendProperties DEF TypeOK
<1>3. QED
  BY <1>1, <1>2

\* The part of TypeOK about writes.
TrafficOK ==
  /\ tasks \in [Loops -> Seq(Channels \X Messages)]
  /\ \A l \in Loops, c \in Channels, m \in Messages : In(<<c, m>>, tasks[l]) => LoopOf[c] = l
  /\ outbound \in [Channels -> Seq(Messages)] /\ out \in [Channels -> Seq(Messages)]
  /\ \A c \in Channels : c \notin open => outbound[c] = <<>>

\* A write to a channel of the running loop keeps it.
LEMMA OnLoopTraffic ==
  ASSUME TypeOK, NEW cs \in SUBSET Channels, NEW m \in Messages, WriteOnLoop(cs, m),
         UNCHANGED open, UNCHANGED tasks
  PROVE  TrafficOK'
BY OnLoop DEF TypeOK, TrafficOK

\* So do writes that are queued on a loop.
LEMMA QueuedType ==
  ASSUME TypeOK, NEW k \in Loops, NEW writes \in Seq(Channels \X Messages),
         \A c \in Channels, m \in Messages : In(<<c, m>>, writes) => LoopOf[c] = k
  PROVE  /\ Queued(k, writes) \in Seq(Channels \X Messages)
         /\ \A c \in Channels, m \in Messages :
              /\ In(<<c, m>>, Queued(k, writes)) <=> In(<<c, m>>, tasks[k]) \/ In(<<c, m>>, writes)
              /\ In(<<c, m>>, Queued(k, writes)) => LoopOf[c] = k
<1>1. tasks[k] \in Seq(Channels \X Messages)
  BY DEF TypeOK
<1>2. QED
  BY <1>1, InConcat DEF TypeOK, Queued

\* The queue of one write.
LEMMA OneWrite ==
  ASSUME NEW c \in Channels, NEW m \in Messages
  PROVE  /\ << <<c, m>> >> \in Seq(Channels \X Messages)
         /\ \A x : In(x, << <<c, m>> >>) <=> x = <<c, m>>
BY DEF In

\* The first task of a queue.
LEMMA HeadTask ==
  ASSUME TypeOK, NEW l \in Loops, tasks[l] # <<>>
  PROVE  /\ Head(tasks[l])[1] \in Channels /\ Head(tasks[l])[2] \in Messages
         /\ LoopOf[Head(tasks[l])[1]] = l
         /\ Tail(tasks[l]) \in Seq(Channels \X Messages)
         /\ \A x : In(x, tasks[l]) <=> x = <<Head(tasks[l])[1], Head(tasks[l])[2]>> \/ In(x, Tail(tasks[l]))
<1>1. tasks[l] \in Seq(Channels \X Messages)
  BY DEF TypeOK
<1>2. /\ Head(tasks[l]) \in Channels \X Messages
      /\ Tail(tasks[l]) \in Seq(Channels \X Messages)
      /\ \A x : In(x, tasks[l]) <=> x = Head(tasks[l]) \/ In(x, Tail(tasks[l]))
  BY <1>1, InTail
<1>3. Head(tasks[l]) = <<Head(tasks[l])[1], Head(tasks[l])[2]>>
  BY <1>2
<1>4. QED
  BY <1>2, <1>3 DEF TypeOK

\* The part of TypeOK about the writers.
WritersOK ==
  /\ th \in [Loops -> Thread]
  /\ \A l \in Loops :
       /\ ~LoopIdle(l) => th[l].msg # None /\ th[l].acc # None /\ Owner[th[l].acc] # None
       /\ th[l].pc = "wait" => th[l].to # None /\ LoopOf[th[l].to] # l
  /\ ended \in [Messages -> {"no", "ok", "failed"}]

\* What a loop that is in a write has.
LEMMA WriterType ==
  ASSUME TypeOK, NEW l \in Loops, ~LoopIdle(l)
  PROVE  /\ th[l] \in Thread /\ th[l].msg \in Messages /\ th[l].acc \in Accounts
         /\ Owner[th[l].acc] \in Channels /\ th[l].left \subseteq Channels
         /\ th[l].pc = "wait" => th[l].to \in Channels
<1>1. th[l] \in Thread
  BY DEF TypeOK
<1>2. QED
  BY <1>1, OwnerType DEF TypeOK, Thread

\* A write that ends, or goes on after a channel.
LEMMA GoOnType ==
  ASSUME TypeOK, NEW l \in Loops, ~LoopIdle(l), NEW c \in Channels, NEW how \in {"ok", "failed"},
         Finish(l, how) \/ GoOn(l, c)
  PROVE  WritersOK'
<1>1. th[l] \in Thread /\ th \in [Loops -> Thread]
  BY DEF TypeOK
<1>2. CASE Finish(l, how)
  <2>1. th' \in [Loops -> Thread]
    BY <1>1, <1>2 DEF Finish, Idle, Thread
  <2>2. QED
    BY <1>1, <1>2, <2>1 DEF Finish, Idle, TypeOK, WritersOK, LoopIdle
<1>3. CASE Finish(l, "ok")
  <2>1. th' \in [Loops -> Thread]
    BY <1>1, <1>3 DEF Finish, Idle, Thread
  <2>2. QED
    BY <1>1, <1>3, <2>1 DEF Finish, Idle, TypeOK, WritersOK, LoopIdle
<1>4. CASE /\ th' = [th EXCEPT ![l].pc = "write", ![l].left = @ \ {c}, ![l].to = None]
           /\ UNCHANGED ended
  <2>1. th' = [th EXCEPT ![l] = [th[l] EXCEPT !.pc = "write", !.left = th[l].left \ {c}, !.to = None]]
    BY <1>4
  <2>2. [th[l] EXCEPT !.pc = "write", !.left = @ \ {c}, !.to = None] \in Thread
    BY <1>1 DEF Thread
  <2>3. QED
    BY <1>1, <1>4, <2>1, <2>2 DEF TypeOK, WritersOK, LoopIdle, Thread
<1>5. QED
  BY <1>2, <1>3, <1>4 DEF GoOn

\* A write of Session.write to a channel.
LEMMA WriteToType ==
  ASSUME TypeOK, NEW l \in Loops, ~LoopIdle(l), NEW c \in Channels, WriteTo(l, c), UNCHANGED open
  PROVE  WritersOK' /\ TrafficOK'
<1>1. th[l].msg \in Messages /\ th[l] \in Thread /\ th \in [Loops -> Thread]
  BY WriterType DEF TypeOK
<1>2. ASSUME LoopOf[c] = l, WriteOnLoop({c}, th[l].msg), UNCHANGED tasks,
             Finish(l, "failed") \/ GoOn(l, c)
      PROVE  WritersOK' /\ TrafficOK'
  BY <1>1, <1>2, OnLoopTraffic, GoOnType
<1>3. ASSUME LoopOf[c] # l,
             tasks' = [tasks EXCEPT ![LoopOf[c]] = Queued(LoopOf[c], << <<c, th[l].msg>> >>)],
             th' = [th EXCEPT ![l].pc = "wait", ![l].to = c],
             UNCHANGED <<outbound, out, ended>>
      PROVE  WritersOK' /\ TrafficOK'
  <2>1. LoopOf[c] \in Loops
    BY DeliveryAssumption DEF DeliveryAssumption
  <2>2. TrafficOK'
    <3> DEFINE writes == << <<c, th[l].msg>> >>
               queue == Queued(LoopOf[c], writes)
    <3>1. /\ writes \in Seq(Channels \X Messages)
          /\ \A d \in Channels, m \in Messages : In(<<d, m>>, writes) => LoopOf[d] = LoopOf[c]
      BY <1>1, OneWrite
    <3> HIDE DEF writes
    <3>2. /\ queue \in Seq(Channels \X Messages)
          /\ \A d \in Channels, m \in Messages : In(<<d, m>>, queue) => LoopOf[d] = LoopOf[c]
      BY <2>1, <3>1, QueuedType
    <3>3. tasks' = [tasks EXCEPT ![LoopOf[c]] = queue]
      BY <1>3 DEF writes
    <3> HIDE DEF queue
    <3>4. /\ tasks' \in [Loops -> Seq(Channels \X Messages)]
          /\ \A k \in Loops : tasks'[k] = IF k = LoopOf[c] THEN queue ELSE tasks[k]
      BY <3>2, <3>3 DEF TypeOK
    <3>5. ASSUME NEW k \in Loops, NEW d \in Channels, NEW m \in Messages, In(<<d, m>>, tasks'[k])
          PROVE  LoopOf[d] = k
      <4>1. In(<<d, m>>, tasks[k]) => LoopOf[d] = k
        BY DEF TypeOK
      <4>2. QED
        BY <3>2, <3>4, <3>5, <4>1
    <3>6. QED
      BY <1>3, <3>4, <3>5 DEF TypeOK, TrafficOK
  <2>3. th' = [th EXCEPT ![l] = [@ EXCEPT !.pc = "wait", !.to = c]]
    BY <1>3
  <2>4. [th[l] EXCEPT !.pc = "wait", !.to = c] \in Thread
    BY <1>1 DEF Thread
  <2>5. c # None
    BY DeliveryAssumption DEF DeliveryAssumption
  <2>6. WritersOK'
    BY <1>1, <1>3, <2>3, <2>4, <2>5 DEF TypeOK, WritersOK, LoopIdle, Thread
  <2>7. QED
    BY <2>2, <2>6
<1>4. QED
  BY <1>2, <1>3 DEF WriteTo

\* What a change of the page table of account a does to the writers: those of
\* the account learn that it has changed, and may come to the pages that join.
LEMMA ChangePagesThread ==
  ASSUME TypeOK, NEW a \in Accounts, NEW cs \in SUBSET Channels, ChangePages(a, cs)
  PROVE  /\ th' \in [Loops -> Thread]
         /\ \A l \in Loops :
              /\ th'[l].pc = th[l].pc /\ th'[l].msg = th[l].msg
              /\ th'[l].acc = th[l].acc /\ th'[l].to = th[l].to
              /\ \/ th'[l].left = th[l].left
                 \/ /\ th[l].acc = a /\ th[l].left \ {th[l].to} # {}
                    /\ th'[l].left = th[l].left \cup (cs \ pages[a])
<1>1. PICK seeing \in SUBSET {l \in Loops : th[l].acc = a /\ th[l].left \ {th[l].to} # {}} :
        th' = [l \in Loops |->
                 IF th[l].acc # a THEN th[l]
                 ELSE [th[l] EXCEPT !.stale = TRUE,
                                    !.left = IF l \in seeing THEN @ \cup (cs \ pages[a]) ELSE @]]
  BY DEF ChangePages
<1> DEFINE Stale(t, left) == [t EXCEPT !.stale = TRUE, !.left = left]
<1>2. \A t \in Thread, left \in SUBSET Channels :
        /\ Stale(t, left) \in Thread
        /\ Stale(t, left).pc = t.pc /\ Stale(t, left).msg = t.msg
        /\ Stale(t, left).acc = t.acc /\ Stale(t, left).to = t.to
        /\ Stale(t, left).left = left
  BY DEF Thread
<1>3. ASSUME NEW l \in Loops
      PROVE  /\ th'[l] \in Thread
             /\ th'[l].pc = th[l].pc /\ th'[l].msg = th[l].msg
             /\ th'[l].acc = th[l].acc /\ th'[l].to = th[l].to
             /\ \/ th'[l].left = th[l].left
                \/ /\ th[l].acc = a /\ th[l].left \ {th[l].to} # {}
                   /\ th'[l].left = th[l].left \cup (cs \ pages[a])
  <2> DEFINE left == IF l \in seeing THEN th[l].left \cup (cs \ pages[a]) ELSE th[l].left
  <2>1. th[l] \in Thread /\ left \in SUBSET Channels
    BY DEF TypeOK, Thread
  <2>2. th'[l] = IF th[l].acc # a THEN th[l] ELSE Stale(th[l], left)
    BY <1>1
  <2>3. left = th[l].left \/ (/\ th[l].acc = a /\ th[l].left \ {th[l].to} # {}
                             /\ left = th[l].left \cup (cs \ pages[a]))
    OBVIOUS
  <2> HIDE DEF left, Stale
  <2>4. QED
    BY <1>2, <2>1, <2>2, <2>3
<1>4. QED
  BY <1>1, <1>3

\* The page table of a session changes under the writers.
LEMMA ChangePagesType ==
  ASSUME TypeOK, NEW a \in Accounts, NEW cs \in SUBSET (Members(a) \ {Owner[a]}),
         ChangePages(a, cs), UNCHANGED ended
  PROVE  /\ pages' \in [Accounts -> SUBSET Channels]
         /\ \A b \in Accounts : pages'[b] \subseteq Members(b) \ {Owner[b]}
         /\ WritersOK'
<1>1. Members(a) \subseteq Channels
  BY DEF Members
<1>2. pages' = [pages EXCEPT ![a] = cs]
  BY DEF ChangePages
<1>3. WritersOK'
  <2>1. /\ th' \in [Loops -> Thread]
        /\ \A l \in Loops : th'[l].pc = th[l].pc /\ th'[l].msg = th[l].msg
                           /\ th'[l].acc = th[l].acc /\ th'[l].to = th[l].to
    BY <1>1, ChangePagesThread
  <2>2. QED
    BY <2>1 DEF TypeOK, WritersOK, LoopIdle
<1>4. QED
  BY <1>1, <1>2, <1>3 DEF TypeOK

\* The rest of TypeOK.
StateOK ==
  /\ open \subseteq Channels
  /\ online \subseteq {a \in Accounts : Owner[a] # None}
  /\ pages \in [Accounts -> SUBSET Channels]
  /\ \A a \in Accounts : pages[a] \subseteq Members(a) \ {Owner[a]}
  /\ sent \in Seq(Messages)
  /\ audience \in [Messages -> SUBSET Channels]

LEMMA TypeParts == StateOK' /\ TrafficOK' /\ WritersOK' => TypeOK'
BY DEF TypeOK, StateOK, TrafficOK, WritersOK, LoopIdle

\* Parts of the state that a step leaves alone.
LEMMA StateFrame ==
  ASSUME TypeOK, UNCHANGED <<open, online, pages, sent, audience>>
  PROVE  StateOK'
BY DEF TypeOK, StateOK

LEMMA TrafficFrame ==
  ASSUME TypeOK, UNCHANGED <<open, tasks, outbound, out>>
  PROVE  TrafficOK'
BY DEF TypeOK, TrafficOK

LEMMA WritersFrame ==
  ASSUME TypeOK, UNCHANGED <<th, ended>>
  PROVE  WritersOK'
BY DEF TypeOK, WritersOK, LoopIdle

\* The steps of Session.write keep the variables well typed.
LEMMA WriteStepType ==
  ASSUME TypeOK, NEW l \in Loops, WriteStep(l)
  PROVE  TypeOK'
<1>1. ~LoopIdle(l) /\ UNCHANGED <<open, online, pages, sent, audience>>
  BY DEF WriteStep, WritePage, IterationFails, WriteOwn, WriteDone, WaitTimeout, LoopIdle
<1>2. StateOK'
  BY <1>1, StateFrame
<1>3. /\ th[l].left \subseteq Channels /\ Owner[th[l].acc] \in Channels
      /\ th[l].pc = "wait" => th[l].to \in Channels
  BY <1>1, WriterType
<1>4. ASSUME NEW c \in Channels, GoOn(l, c) \/ Finish(l, "failed"), UNCHANGED traffic
      PROVE  TrafficOK' /\ WritersOK'
  BY <1>1, <1>4, GoOnType, TrafficFrame DEF traffic
<1>5. CASE WritePage(l)
  <2>1. PICK c \in th[l].left : WriteTo(l, c) \/ (GoOn(l, c) /\ UNCHANGED traffic)
    BY <1>5 DEF WritePage
  <2>2. TrafficOK' /\ WritersOK'
    BY <1>1, <1>3, <1>4, <2>1, WriteToType
  <2>3. QED
    BY <1>2, <2>2, TypeParts
<1>6. CASE IterationFails(l)
  BY <1>2, <1>3, <1>4, <1>6, TypeParts DEF IterationFails
<1>7. CASE WriteOwn(l)
  BY <1>1, <1>2, <1>3, <1>7, WriteToType, TypeParts DEF WriteOwn
<1>8. CASE WriteDone(l) \/ WaitTimeout(l)
  BY <1>2, <1>3, <1>4, <1>8, TypeParts DEF WriteDone, WaitTimeout
<1>9. QED
  BY <1>5, <1>6, <1>7, <1>8 DEF WriteStep

\* So does what Netty and the peers do.
LEMMA NettyType ==
  ASSUME TypeOK, (\E l \in Loops : RunTask(l)) \/ (\E c \in Channels : Drain(c) \/ Close(c))
  PROVE  TypeOK'
<1>1. ASSUME NEW l \in Loops, RunTask(l)
      PROVE  TypeOK'
  <2>1. /\ tasks[l] # <<>> /\ tasks' = [tasks EXCEPT ![l] = Tail(@)]
        /\ WriteOnLoop({Head(tasks[l])[1]}, Head(tasks[l])[2])
        /\ UNCHANGED <<open, online, pages, sent, th, audience, ended>>
    BY <1>1 DEF RunTask
  <2>2. /\ Head(tasks[l])[1] \in Channels /\ Head(tasks[l])[2] \in Messages
        /\ Tail(tasks[l]) \in Seq(Channels \X Messages)
        /\ \A x : In(x, Tail(tasks[l])) => In(x, tasks[l])
    BY <2>1, HeadTask
  <2>3. out' \in [Channels -> Seq(Messages)] /\ outbound' \in [Channels -> Seq(Messages)]
    BY <2>1, <2>2, OnLoop
  <2>4. ASSUME NEW c \in Channels, c \notin open
        PROVE  outbound'[c] = <<>>
    <3>1. outbound[c] = <<>>
      BY <2>4 DEF TypeOK
    <3>2. outbound'[c] = outbound[c]
      BY <2>1, <2>2, <2>4, OnLoop
    <3>3. QED
      BY <3>1, <3>2
  <2>5. /\ tasks' \in [Loops -> Seq(Channels \X Messages)]
        /\ \A k \in Loops : tasks'[k] = IF k = l THEN Tail(tasks[l]) ELSE tasks[k]
    BY <2>1, <2>2 DEF TypeOK
  <2>6. ASSUME NEW k \in Loops, NEW c \in Channels, NEW m \in Messages, In(<<c, m>>, tasks'[k])
        PROVE  LoopOf[c] = k
    <3>1. In(<<c, m>>, tasks[k])
      BY <2>2, <2>5, <2>6
    <3>2. QED
      BY <3>1 DEF TypeOK
  <2>7. TrafficOK'
    BY <2>1, <2>3, <2>4, <2>5, <2>6 DEF TrafficOK
  <2>8. QED
    BY <2>1, <2>7, StateFrame, WritersFrame, TypeParts
<1>2. ASSUME NEW c \in Channels, Drain(c)
      PROVE  TypeOK'
  <2>1. outbound[c] \in Seq(Messages) /\ outbound[c] # <<>> /\ out[c] \in Seq(Messages)
    BY <1>2 DEF Drain, TypeOK
  <2>2. Tail(outbound[c]) \in Seq(Messages) /\ Append(out[c], Head(outbound[c])) \in Seq(Messages)
    BY <2>1, HeadTailProperties, AppendProperties
  <2>3. TrafficOK'
    BY <1>2, <2>1, <2>2 DEF Drain, TypeOK, TrafficOK
  <2>4. QED
    BY <1>2, <2>3, StateFrame, WritersFrame, TypeParts DEF Drain
<1>3. ASSUME NEW c \in Channels, Close(c)
      PROVE  TypeOK'
  <2>1. TrafficOK'
    BY <1>3 DEF Close, TypeOK, TrafficOK
  <2>2. StateOK'
    BY <1>3 DEF Close, TypeOK, StateOK
  <2>3. QED
    BY <1>3, <2>1, <2>2, WritersFrame, TypeParts DEF Close
<1>4. QED
  BY <1>1, <1>2, <1>3

\* So do pages that join and leave.
LEMMA PagesType ==
  ASSUME TypeOK, NEW c \in Channels, JoinPage(c) \/ Leave(c)
  PROVE  TypeOK'
<1>1. CASE JoinPage(c)
  <2>1. Login[c] \in Accounts /\ c # Owner[Login[c]]
    BY <1>1, DeliveryAssumption DEF JoinPage, Bound, TypeOK, DeliveryAssumption
  <2>2. pages[Login[c]] \cup {c} \in SUBSET (Members(Login[c]) \ {Owner[Login[c]]})
    BY <2>1 DEF TypeOK, Members
  <2>3. /\ pages' \in [Accounts -> SUBSET Channels]
        /\ \A b \in Accounts : pages'[b] \subseteq Members(b) \ {Owner[b]}
        /\ WritersOK'
    BY <1>1, <2>1, <2>2, ChangePagesType DEF JoinPage
  <2>4. TrafficOK'
    BY <1>1, TrafficFrame DEF JoinPage, traffic
  <2>5. StateOK'
    BY <1>1, <2>3 DEF JoinPage, TypeOK, StateOK
  <2>6. QED
    BY <2>3, <2>4, <2>5, TypeParts
<1>2. CASE Leave(c)
  <2>1. Login[c] \in Accounts
    BY <1>2 DEF Leave, TypeOK
  <2>2. pages[Login[c]] \ {c} \in SUBSET (Members(Login[c]) \ {Owner[Login[c]]})
    BY <2>1 DEF TypeOK
  <2>3. /\ pages' \in [Accounts -> SUBSET Channels]
        /\ \A b \in Accounts : pages'[b] \subseteq Members(b) \ {Owner[b]}
        /\ WritersOK'
    <3>1. CASE c \in pages[Login[c]]
      BY <1>2, <2>1, <2>2, <3>1, ChangePagesType DEF Leave
    <3>2. CASE c \notin pages[Login[c]]
      BY <1>2, <3>2, WritersFrame DEF Leave, TypeOK
    <3>3. QED
      BY <3>1, <3>2
  <2>4. TrafficOK'
    BY <1>2, TrafficFrame DEF Leave, traffic
  <2>5. StateOK'
    BY <1>2, <2>3 DEF Leave, TypeOK, StateOK
  <2>6. QED
    BY <2>3, <2>4, <2>5, TypeParts
<1>3. QED
  BY <1>1, <1>2

\* The writes of a group message that other loops have to do.
LEMMA GroupWrites ==
  ASSUME TypeOK, NEW m \in Messages, NEW cs \in SUBSET Channels
  PROVE  LET writes == SetToSeq({<<c, m>> : c \in cs})
         IN  /\ writes \in Seq(Channels \X Messages)
             /\ \A x : In(x, writes) <=> \E c \in cs : x = <<c, m>>
             /\ \A i, j \in DOMAIN writes : writes[i] = writes[j] => i = j
<1> DEFINE set == {<<c, m>> : c \in cs}
<1>1. set \in SUBSET (Channels \X {m})
  OBVIOUS
<1>2. IsFiniteSet(set)
  <2>1. IsFiniteSet(Channels) /\ IsFiniteSet({m})
    BY FS_Singleton, DeliveryAssumption DEF DeliveryAssumption
  <2>2. IsFiniteSet(Channels \X {m})
    BY <2>1, FS_Product
  <2> HIDE DEF set
  <2>3. QED
    BY <1>1, <2>2, FS_Subset
<1>3. \A x : x \in set <=> \E c \in cs : x = <<c, m>>
  OBVIOUS
<1> HIDE DEF set
<1>4. /\ SetToSeq(set) \in Seq(set)
      /\ \A x : In(x, SetToSeq(set)) <=> x \in set
      /\ \A i, j \in DOMAIN SetToSeq(set) : SetToSeq(set)[i] = SetToSeq(set)[j] => i = j
  BY <1>2, SetToSeqLists
<1>5. set \subseteq Channels \X Messages
  BY <1>3
<1>6. SetToSeq(set) \in Seq(Channels \X Messages)
  BY <1>4, <1>5, SeqMonotonic
<1>7. QED
  BY <1>3, <1>4, <1>6 DEF set

\* The receipt of a message leaves the state well typed.
LEMMA ReceiveState ==
  ASSUME TypeOK, NEW m \in Messages, Receive(m), audience' \in [Messages -> SUBSET Channels]
  PROVE  StateOK'
<1>1. sent' \in Seq(Messages)
  BY AppendProperties DEF Receive, TypeOK
<1>2. QED
  BY <1>1 DEF Receive, TypeOK, StateOK

\* The session that a message is written to.
LEMMA AddresseeType ==
  ASSUME TypeOK, NEW m \in Messages, Writes(m), Protocol(m) # "GROUP"
  PROVE  /\ Addressee(m) \in Accounts /\ Addressee(m) # None
         /\ Owner[Addressee(m)] \in Channels /\ Owner[Addressee(m)] # None
         /\ pages[Addressee(m)] \subseteq Channels
BY OwnerType, DeliveryAssumption DEF TypeOK, Writes, DeliveryAssumption

\* The messages that are received keep the variables well typed.
LEMMA ReceiveType ==
  ASSUME TypeOK, NEW m \in Messages, Ignore(m) \/ PushMessage(m) \/ PushGroupMessage(m)
  PROVE  TypeOK'
<1> DEFINE l == LoopOf[m.from]
<1>1. m.from \in Channels /\ l \in Loops /\ m # None
  BY MessageAssumption, DeliveryAssumption DEF MessageAssumption, DeliveryAssumption
<1>2. CASE Ignore(m)
  <2>1. StateOK'
    BY <1>2, ReceiveState DEF Ignore, TypeOK
  <2>2. QED
    BY <1>2, <2>1, TrafficFrame, WritersFrame, TypeParts DEF Ignore, Receive, traffic
<1>3. CASE PushMessage(m)
  <2> DEFINE a == Addressee(m)
             t == [Idle EXCEPT !.pc = "write", !.msg = m, !.acc = a, !.left = pages[a]]
  <2>1. /\ a \in Accounts /\ a # None /\ Owner[a] \in Channels /\ Owner[a] # None
        /\ pages[a] \subseteq Channels
    BY <1>3, AddresseeType DEF PushMessage
  <2>2. /\ Receive(m) /\ th' = [th EXCEPT ![l] = t]
        /\ audience' = [audience EXCEPT ![m] = pages[a] \cup {Owner[a]}]
        /\ UNCHANGED <<traffic, ended>>
    BY <1>3 DEF PushMessage
  <2>3. StateOK'
    BY <2>1, <2>2, ReceiveState DEF TypeOK
  <2>4. t \in Thread /\ t.msg = m /\ t.acc = a /\ t.pc = "write"
    BY <2>1 DEF Thread, Idle
  <2> HIDE DEF t
  <2>5. WritersOK'
    BY <1>1, <2>1, <2>2, <2>4 DEF TypeOK, WritersOK, LoopIdle
  <2>6. QED
    BY <2>2, <2>3, <2>5, TrafficFrame, TypeParts DEF Receive, traffic
<1>4. CASE PushGroupMessage(m)
  <2> DEFINE group == {c \in open : Bound(c)}
             On(k) == {c \in group : LoopOf[c] = k}
             writes(k) == SetToSeq({<<c, m>> : c \in On(k)})
  <2>1. /\ Receive(m) /\ WriteOnLoop(On(l), m)
        /\ tasks' = [k \in Loops |-> IF k = l THEN tasks[k] ELSE Queued(k, writes(k))]
        /\ audience' = [audience EXCEPT ![m] = group]
        /\ ended' = [ended EXCEPT ![m] = "ok"]
        /\ UNCHANGED th
    BY <1>4 DEF PushGroupMessage
  <2>2. group \subseteq Channels /\ \A k : On(k) \in SUBSET Channels
    BY DEF TypeOK
  <2>3. StateOK'
    BY <2>1, <2>2, ReceiveState DEF TypeOK
  <2>4. WritersOK'
    BY <2>1 DEF TypeOK, WritersOK, LoopIdle
  <2>5. \A k \in Loops : /\ writes(k) \in Seq(Channels \X Messages)
                         /\ \A c \in Channels, n \in Messages : In(<<c, n>>, writes(k)) => LoopOf[c] = k
    <3> SUFFICES ASSUME NEW k \in Loops
                 PROVE  /\ writes(k) \in Seq(Channels \X Messages)
                        /\ \A c \in Channels, n \in Messages : In(<<c, n>>, writes(k)) => LoopOf[c] = k
      OBVIOUS
    <3>1. /\ writes(k) \in Seq(Channels \X Messages)
          /\ \A x : In(x, writes(k)) <=> \E c \in On(k) : x = <<c, m>>
      BY <2>2, GroupWrites
    <3>2. \A c \in On(k) : LoopOf[c] = k
      OBVIOUS
    <3> HIDE DEF writes, On
    <3>3. QED
      BY <3>1, <3>2
  <2> HIDE DEF writes
  <2>6. \A k \in Loops : /\ Queued(k, writes(k)) \in Seq(Channels \X Messages)
                         /\ \A c \in Channels, n \in Messages :
                              In(<<c, n>>, Queued(k, writes(k))) => LoopOf[c] = k
    BY <2>5, QueuedType
  <2>7. out' \in [Channels -> Seq(Messages)] /\ outbound' \in [Channels -> Seq(Messages)]
    BY <2>1, <2>2, OnLoop
  <2>8. ASSUME NEW c \in Channels, c \notin open'
        PROVE  outbound'[c] = <<>>
    <3>1. c \notin open /\ outbound[c] = <<>>
      BY <2>1, <2>8 DEF Receive, TypeOK
    <3>2. outbound'[c] = outbound[c]
      BY <2>1, <2>2, <3>1, OnLoop
    <3>3. QED
      BY <3>1, <3>2
  <2>9. /\ tasks' \in [Loops -> Seq(Channels \X Messages)]
        /\ \A k \in Loops, c \in Channels, n \in Messages : In(<<c, n>>, tasks'[k]) => LoopOf[c] = k
    BY <2>1, <2>6 DEF TypeOK
  <2>10. TrafficOK'
    BY <2>7, <2>8, <2>9 DEF TrafficOK
  <2>11. QED
    BY <2>3, <2>4, <2>10, TypeParts
<1>5. QED
  BY <1>2, <1>3, <1>4

\* Every step keeps the variables well typed.
LEMMA NextTypeOK == TypeOK /\ [Next]_vars => TypeOK'
<1> SUFFICES ASSUME TypeOK, [Next]_vars
             PROVE  TypeOK'
  OBVIOUS
<1>1. CASE UNCHANGED vars
  BY <1>1 DEF vars, TypeOK, LoopIdle
<1>2. CASE Next
  BY <1>1, <1>2, WriteStepType, NettyType, PagesType, ReceiveType DEF Next, Quiescent
<1>3. QED
  BY <1>1, <1>2

\* The variables of Delivery have their types in every state: no write is queued
\* on a loop that is not its channel's, nothing is left in the outbound buffer
\* of a closed channel, and no loop waits for a write of its own
\* (ChannelFuture.awaitUninterruptibly in Session.write()).
THEOREM TypeCorrect == Spec => []TypeOK
<1>1. Init => TypeOK
  BY InitTypeOK
<1>2. TypeOK /\ [Next]_vars => TypeOK'
  BY NextTypeOK
<1>3. QED
  BY <1>1, <1>2, PTL DEF Spec

-----------------------------------------------------------------------------
(* Orders.                                                                 *)

\* What is in order stays so when more messages come in.
LEMMA PrecedesLater ==
  ASSUME NEW S, NEW s \in Seq(S), NEW e \in S
  PROVE  \A m, n : Precedes(s, m, n) => Precedes(Append(s, e), m, n)
<1>1. /\ \A i \in 1 .. Len(s) : Append(s, e)[i] = s[i]
      /\ Len(s) \in Nat /\ Len(Append(s, e)) = Len(s) + 1 /\ Append(s, e) \in Seq(S)
  BY AppendProperties, LenProperties
<1>2. DOMAIN s = 1 .. Len(s) /\ DOMAIN Append(s, e) = 1 .. Len(s) + 1
  BY <1>1, LenProperties
<1>3. QED
  BY <1>1, <1>2 DEF Precedes

\* A message that has just come in is the last of its client.
LEMMA PrecedesNew ==
  ASSUME NEW S, NEW s \in Seq(S), NEW e \in S, ~In(e, s)
  PROVE  \A m : In(m, s) => Precedes(Append(s, e), m, e)
<1>1. /\ \A i \in 1 .. Len(s) : Append(s, e)[i] = s[i]
      /\ Len(s) \in Nat /\ Len(Append(s, e)) = Len(s) + 1 /\ Append(s, e) \in Seq(S)
      /\ Append(s, e)[Len(s) + 1] = e
  BY AppendProperties, LenProperties
<1>2. DOMAIN s = 1 .. Len(s) /\ DOMAIN Append(s, e) = 1 .. Len(s) + 1
  BY <1>1, LenProperties
<1>3. QED
  BY <1>1, <1>2 DEF Precedes, In

\* A sequence of messages stays in order when more messages come in.
LEMMA AscendingLater ==
  ASSUME NEW S, NEW s \in Seq(S), NEW e \in S
  PROVE  /\ \A seq : Ascending(s, seq) => Ascending(Append(s, e), seq)
         /\ \A queue : AscendingTasks(s, queue) => AscendingTasks(Append(s, e), queue)
BY PrecedesLater DEF Ascending, AscendingTasks

\* A sequence of messages is in order with one more at its end.
LEMMA AppendAscending ==
  ASSUME NEW msgs, NEW S, NEW s \in Seq(S), NEW e \in S, Ascending(msgs, s),
         \A x \in S : In(x, s) => Precedes(msgs, x, e)
  PROVE  Ascending(msgs, Append(s, e))
<1>1. /\ \A i \in 1 .. Len(s) : Append(s, e)[i] = s[i]
      /\ Len(s) \in Nat /\ Len(Append(s, e)) = Len(s) + 1 /\ Append(s, e) \in Seq(S)
      /\ Append(s, e)[Len(s) + 1] = e
  BY AppendProperties, LenProperties
<1>2. /\ DOMAIN s = 1 .. Len(s) /\ DOMAIN Append(s, e) = 1 .. Len(s) + 1
      /\ \A i \in 1 .. Len(s) : s[i] \in S
  BY <1>1, LenProperties, ElementOfSeq
<1>3. \A i \in 1 .. Len(s) : Precedes(msgs, s[i], e)
  BY <1>2 DEF In
<1>4. ASSUME NEW i \in 1 .. Len(s) + 1, NEW j \in 1 .. Len(s) + 1, i < j
      PROVE  Precedes(msgs, Append(s, e)[i], Append(s, e)[j])
  <2>1. i \in 1 .. Len(s) /\ (j \in 1 .. Len(s) \/ j = Len(s) + 1)
    BY <1>1, <1>4
  <2>2. CASE j = Len(s) + 1
    BY <1>1, <1>3, <2>1, <2>2
  <2>3. CASE j \in 1 .. Len(s)
    BY <1>1, <1>2, <1>4, <2>1, <2>3 DEF Ascending
  <2>4. QED
    BY <2>1, <2>2, <2>3
<1>5. QED
  BY <1>2, <1>4 DEF Ascending

\* The head of a sequence in order is in front of the rest, which is in order.
LEMMA TailAscending ==
  ASSUME NEW msgs, NEW S, NEW s \in Seq(S), s # <<>>, Ascending(msgs, s)
  PROVE  /\ Ascending(msgs, Tail(s))
         /\ \A x : In(x, Tail(s)) => Precedes(msgs, Head(s), x)
<1>1. /\ Tail(s) \in Seq(S) /\ Len(Tail(s)) = Len(s) - 1
      /\ \A i \in 1 .. Len(Tail(s)) : Tail(s)[i] = s[i + 1]
      /\ Len(s) \in Nat \ {0} /\ Head(s) = s[1]
  BY HeadTailProperties, EmptySeq
<1>2. DOMAIN s = 1 .. Len(s) /\ DOMAIN Tail(s) = 1 .. Len(s) - 1
  BY <1>1, LenProperties
<1>3. \A i \in 1 .. Len(s) - 1 : i + 1 \in 1 .. Len(s) /\ 1 < i + 1 /\ 1 \in 1 .. Len(s) /\ i \in Int
  BY <1>1
<1>4. \A i, j \in 1 .. Len(s) - 1 : i < j => i + 1 < j + 1
  BY <1>1
<1>5. QED
  BY <1>1, <1>2, <1>3, <1>4 DEF Ascending, In

\* The same for a queue of tasks.
LEMMA TailAscendingTasks ==
  ASSUME NEW msgs, NEW S, NEW s \in Seq(S), s # <<>>, AscendingTasks(msgs, s)
  PROVE  /\ AscendingTasks(msgs, Tail(s))
         /\ \A x : In(x, Tail(s)) /\ x[1] = Head(s)[1] => Precedes(msgs, Head(s)[2], x[2])
<1>1. /\ Tail(s) \in Seq(S) /\ Len(Tail(s)) = Len(s) - 1
      /\ \A i \in 1 .. Len(Tail(s)) : Tail(s)[i] = s[i + 1]
      /\ Len(s) \in Nat \ {0} /\ Head(s) = s[1]
  BY HeadTailProperties, EmptySeq
<1>2. DOMAIN s = 1 .. Len(s) /\ DOMAIN Tail(s) = 1 .. Len(s) - 1
  BY <1>1, LenProperties
<1>3. \A i \in 1 .. Len(s) - 1 : i + 1 \in 1 .. Len(s) /\ 1 < i + 1 /\ 1 \in 1 .. Len(s) /\ i \in Int
  BY <1>1
<1>4. \A i, j \in 1 .. Len(s) - 1 : i < j => i + 1 < j + 1
  BY <1>1
<1>5. QED
  BY <1>1, <1>2, <1>3, <1>4 DEF AscendingTasks, In

\* A queue is in order with more writes at its end.
LEMMA ConcatAscendingTasks ==
  ASSUME NEW msgs, NEW S, NEW s \in Seq(S), NEW t \in Seq(S),
         AscendingTasks(msgs, s), AscendingTasks(msgs, t),
         \A x, y \in S : In(x, s) /\ In(y, t) /\ x[1] = y[1] => Precedes(msgs, x[2], y[2])
  PROVE  AscendingTasks(msgs, s \o t)
<1>1. /\ s \o t \in Seq(S) /\ Len(s \o t) = Len(s) + Len(t)
      /\ \A i \in 1 .. Len(s) + Len(t) :
           (s \o t)[i] = IF i <= Len(s) THEN s[i] ELSE t[i - Len(s)]
      /\ Len(s) \in Nat /\ Len(t) \in Nat
  BY ConcatProperties, LenProperties
<1>2. /\ DOMAIN s = 1 .. Len(s) /\ DOMAIN t = 1 .. Len(t)
      /\ DOMAIN (s \o t) = 1 .. Len(s) + Len(t)
      /\ \A i \in 1 .. Len(s) : s[i] \in S
      /\ \A i \in 1 .. Len(t) : t[i] \in S
  BY <1>1, LenProperties, ElementOfSeq
<1>3. ASSUME NEW i \in 1 .. Len(s) + Len(t), NEW j \in 1 .. Len(s) + Len(t), i < j,
             (s \o t)[i][1] = (s \o t)[j][1]
      PROVE  Precedes(msgs, (s \o t)[i][2], (s \o t)[j][2])
  <2>1. CASE j <= Len(s)
    <3>1. i \in 1 .. Len(s) /\ j \in 1 .. Len(s) /\ (s \o t)[i] = s[i] /\ (s \o t)[j] = s[j]
      BY <1>1, <1>3, <2>1
    <3>2. QED
      BY <1>2, <1>3, <3>1 DEF AscendingTasks
  <2>2. CASE i <= Len(s) /\ ~(j <= Len(s))
    <3>1. /\ i \in 1 .. Len(s) /\ j - Len(s) \in 1 .. Len(t)
          /\ (s \o t)[i] = s[i] /\ (s \o t)[j] = t[j - Len(s)]
      BY <1>1, <1>3, <2>2
    <3>2. In(s[i], s) /\ In(t[j - Len(s)], t)
      BY <1>2, <3>1 DEF In
    <3>3. QED
      BY <1>2, <1>3, <3>1, <3>2
  <2>3. CASE ~(i <= Len(s)) /\ ~(j <= Len(s))
    <3>1. /\ i - Len(s) \in 1 .. Len(t) /\ j - Len(s) \in 1 .. Len(t)
          /\ i - Len(s) < j - Len(s)
          /\ (s \o t)[i] = t[i - Len(s)] /\ (s \o t)[j] = t[j - Len(s)]
      BY <1>1, <1>3, <2>3
    <3>2. QED
      BY <1>2, <1>3, <3>1 DEF AscendingTasks
  <2>4. QED
    BY <1>1, <1>3, <2>1, <2>2, <2>3
<1>4. QED
  BY <1>2, <1>3 DEF AscendingTasks

-----------------------------------------------------------------------------
(* What the writes of a step reach.                                        *)

LoopOK == \A c \in Channels : LoopOf[c] \in Loops

LEMMA LoopType == LoopOK /\ \A m \in Messages : m.from \in Channels /\ LoopOf[m.from] \in Loops
BY DeliveryAssumption, MessageAssumption DEF DeliveryAssumption, MessageAssumption, LoopOK

\* A write on the running loop gets to the channels that are open.
LEMMA OnLoopReached ==
  ASSUME TypeOK, NEW cs \in SUBSET Channels, NEW m \in Messages, WriteOnLoop(cs, m)
  PROVE  \A c \in Channels, n \in Messages :
           In(n, out'[c]) \/ In(n, outbound'[c])
             <=> In(n, out[c]) \/ In(n, outbound[c]) \/ (n = m /\ c \in cs \cap open)
<1> SUFFICES ASSUME NEW c \in Channels, NEW n \in Messages
             PROVE  In(n, out'[c]) \/ In(n, outbound'[c])
                      <=> In(n, out[c]) \/ In(n, outbound[c]) \/ (n = m /\ c \in cs \cap open)
  OBVIOUS
<1>1. out[c] \in Seq(Messages) /\ outbound[c] \in Seq(Messages)
  BY DEF TypeOK
<1>2. /\ In(n, Append(out[c], m)) <=> In(n, out[c]) \/ n = m
      /\ In(n, Append(outbound[c], m)) <=> In(n, outbound[c]) \/ n = m
  BY <1>1, InAppend
<1>3. \/ c \notin cs \cap open /\ out'[c] = out[c] /\ outbound'[c] = outbound[c]
      \/ /\ c \in cs \cap open /\ outbound[c] = <<>>
         /\ out'[c] = Append(out[c], m) /\ outbound'[c] = outbound[c]
      \/ c \in cs \cap open /\ out'[c] = out[c] /\ outbound'[c] = Append(outbound[c], m)
  BY OnLoop
<1>4. QED
  BY <1>2, <1>3

\* A step that writes to nobody.
LEMMA NoWrite ==
  ASSUME TypeOK, UNCHANGED <<out, outbound>>, NEW m \in Messages
  PROVE  WriteOnLoop({}, m)
<1>1. /\ out' = [c \in Channels |-> IF c \in {} THEN Append(out[c], m) ELSE out[c]]
      /\ outbound' = [c \in Channels |->
                        IF c \in ({} \cap open) \ {} THEN Append(outbound[c], m) ELSE outbound[c]]
  BY DEF TypeOK
<1>2. {} \in SUBSET {c \in {} \cap open : outbound[c] = <<>>}
  OBVIOUS
<1>3. QED
  BY <1>1, <1>2 DEF WriteOnLoop

\* The messages of a channel stay in order when a message is written behind
\* those that it already has, and in front of the tasks that are left.
LEMMA OnLoopPipeline ==
  ASSUME TypeOK, PipelineInv, NEW cs \in SUBSET Channels, NEW m \in Messages, WriteOnLoop(cs, m),
         \A n, k \in Messages : Precedes(sent, n, k) => Precedes(sent', n, k),
         \A c \in cs, n \in Messages :
           In(n, out[c]) \/ In(n, outbound[c]) => Precedes(sent', n, m),
         \A c \in Channels, n \in Messages : In(<<c, n>>, tasks'[LoopOf[c]]) =>
           /\ \A k \in Messages : In(k, out[c]) \/ In(k, outbound[c]) => Precedes(sent', k, n)
           /\ c \in cs => Precedes(sent', m, n)
  PROVE  \A c \in Channels :
           /\ Ascending(sent', out'[c]) /\ Ascending(sent', outbound'[c])
           /\ \A n, k \in Messages : In(n, out'[c]) /\ In(k, outbound'[c]) => Precedes(sent', n, k)
           /\ \A n, k \in Messages :
                (In(n, out'[c]) \/ In(n, outbound'[c])) /\ In(<<c, k>>, tasks'[LoopOf[c]])
                  => Precedes(sent', n, k)
<1> SUFFICES ASSUME NEW c \in Channels
             PROVE  /\ Ascending(sent', out'[c]) /\ Ascending(sent', outbound'[c])
                    /\ \A n, k \in Messages :
                         In(n, out'[c]) /\ In(k, outbound'[c]) => Precedes(sent', n, k)
                    /\ \A n, k \in Messages :
                         (In(n, out'[c]) \/ In(n, outbound'[c])) /\ In(<<c, k>>, tasks'[LoopOf[c]])
                           => Precedes(sent', n, k)
  OBVIOUS
<1>1. out[c] \in Seq(Messages) /\ outbound[c] \in Seq(Messages)
  BY DEF TypeOK
<1>2. Ascending(sent', out[c]) /\ Ascending(sent', outbound[c])
  <2>1. Ascending(sent, out[c]) /\ Ascending(sent, outbound[c])
    BY DEF PipelineInv
  <2>2. /\ \A i \in DOMAIN out[c] : out[c][i] \in Messages
        /\ \A i \in DOMAIN outbound[c] : outbound[c][i] \in Messages
    BY <1>1, ElementOfSeq, LenProperties
  <2>3. QED
    BY <2>1, <2>2 DEF Ascending
<1>3. \A n, k \in Messages : In(n, out[c]) /\ In(k, outbound[c]) => Precedes(sent', n, k)
  BY DEF PipelineInv
<1>4. \A n, k \in Messages :
        (In(n, out'[c]) \/ In(n, outbound'[c])) /\ In(<<c, k>>, tasks'[LoopOf[c]])
          => Precedes(sent', n, k)
  BY OnLoopReached
<1>5. CASE out'[c] = out[c] /\ outbound'[c] = outbound[c]
  BY <1>2, <1>3, <1>4, <1>5
<1>6. CASE /\ c \in cs /\ outbound[c] = <<>>
           /\ out'[c] = Append(out[c], m) /\ outbound'[c] = outbound[c]
  <2>1. \A n \in Messages : In(n, out[c]) => Precedes(sent', n, m)
    BY <1>6
  <2>2. Ascending(sent', out'[c])
    BY <1>1, <1>2, <1>6, <2>1, AppendAscending
  <2>3. \A k : ~In(k, outbound'[c])
    BY <1>6 DEF In
  <2>4. QED
    BY <1>2, <1>4, <1>6, <2>2, <2>3
<1>7. CASE c \in cs /\ out'[c] = out[c] /\ outbound'[c] = Append(outbound[c], m)
  <2>1. \A n \in Messages : In(n, outbound[c]) \/ In(n, out[c]) => Precedes(sent', n, m)
    BY <1>7
  <2>2. Ascending(sent', outbound'[c])
    BY <1>1, <1>2, <1>7, <2>1, AppendAscending
  <2>3. \A k : In(k, outbound'[c]) <=> In(k, outbound[c]) \/ k = m
    BY <1>1, <1>7, InAppend
  <2>4. QED
    BY <1>2, <1>3, <1>4, <1>7, <2>1, <2>2, <2>3
<1>8. QED
  BY <1>5, <1>6, <1>7, OnLoop

-----------------------------------------------------------------------------
(* Netty and the peers.                                                    *)

\* Before and after every step.
IInv == TypeOK /\ WriteInv /\ ReachesAll

\* A step that only moves messages on, or fails the writes to channels that are
\* closed, keeps everything but the order of the messages.
LEMMA NettyFrame ==
  ASSUME IInv, UNCHANGED <<online, pages, sent, th, audience, ended>>, open' \subseteq open,
         \A c \in Channels, n \in Messages : Reached(c, n)' => Reached(c, n),
         \A c \in open', n \in Messages : Reached(c, n) => Reached(c, n)',
         \A c \in Channels, n \in Messages :
           In(<<c, n>>, tasks'[LoopOf[c]]) => In(<<c, n>>, tasks[LoopOf[c]]),
         PipelineInv'
  PROVE  WriteInv' /\ ReachesAll'
<1>1. TypeOK /\ open \subseteq Channels
  BY DEF IInv, TypeOK
<1>2. TaskInv'
  BY DEF IInv, WriteInv, TaskInv
<1>3. ReachedInv'
  BY DEF IInv, WriteInv, ReachedInv, Bound
<1>4. WriterInv'
  BY DEF IInv, WriteInv, WriterInv, LoopIdle
<1>5. LeftInv'
  BY DEF IInv, WriteInv, LeftInv, LoopIdle
<1>6. ProgressInv'
  <2> SUFFICES ASSUME NEW l \in Loops, ~LoopIdle(l)
               PROVE  /\ \A c \in ToWrite(l) : ~Reached(c, th[l].msg)'
                      /\ \A c \in audience[th[l].msg] \cap open' :
                           c \in ToWrite(l) \/ Reached(c, th[l].msg)'
                      /\ ended[th[l].msg] = "no"
    BY DEF ProgressInv, LoopIdle, ToWrite, Reached, Pending
  <2>1. th[l].msg \in Messages /\ ToWrite(l) \subseteq Channels
    BY <1>1, WriterType DEF ToWrite
  <2>2. /\ \A c \in ToWrite(l) : ~Reached(c, th[l].msg)
        /\ \A c \in audience[th[l].msg] \cap open : c \in ToWrite(l) \/ Reached(c, th[l].msg)
        /\ ended[th[l].msg] = "no"
    BY DEF IInv, WriteInv, ProgressInv
  <2>3. QED
    BY <2>1, <2>2
<1>7. EndedInv'
  BY DEF IInv, WriteInv, EndedInv
<1>8. ReachesAll'
  BY DEF IInv, ReachesAll, Reached, Pending
<1>9. QED
  BY <1>2, <1>3, <1>4, <1>5, <1>6, <1>7 , <1>8 DEF WriteInv

\* A task that is run.
LEMMA RunTaskKeeps ==
  ASSUME IInv, NEW l \in Loops, RunTask(l)
  PROVE  WriteInv' /\ ReachesAll'
<1> DEFINE c == Head(tasks[l])[1]
           m == Head(tasks[l])[2]
<1>1. /\ tasks[l] # <<>> /\ tasks' = [tasks EXCEPT ![l] = Tail(tasks[l])]
      /\ WriteOnLoop({c}, m)
      /\ UNCHANGED <<open, online, pages, sent, th, audience, ended>>
  BY DEF RunTask
<1>2. TypeOK /\ PipelineInv
  BY DEF IInv, WriteInv
<1>3. tasks[l] \in Seq(Channels \X Messages) /\ tasks \in [Loops -> Seq(Channels \X Messages)]
  BY <1>2 DEF TypeOK
<1>4. /\ c \in Channels /\ m \in Messages /\ LoopOf[c] = l
      /\ \A x : In(x, tasks[l]) <=> x = <<c, m>> \/ In(x, Tail(tasks[l]))
  BY <1>1, <1>2, HeadTask
<1>5. /\ AscendingTasks(sent, Tail(tasks[l]))
      /\ \A n \in Messages : In(<<c, n>>, Tail(tasks[l])) => Precedes(sent, m, n)
  <2>1. AscendingTasks(sent, tasks[l])
    BY <1>2 DEF PipelineInv
  <2>2. /\ AscendingTasks(sent, Tail(tasks[l]))
        /\ \A x : In(x, Tail(tasks[l])) /\ x[1] = c => Precedes(sent, m, x[2])
    BY <1>1, <1>3, <2>1, TailAscendingTasks
  <2> HIDE DEF c, m
  <2>3. QED
    BY <2>2
<1> HIDE DEF c, m
<1>6. \A k \in Loops : tasks'[k] = IF k = l THEN Tail(tasks[l]) ELSE tasks[k]
  BY <1>1, <1>3
<1>7. \A d \in Channels, n \in Messages :
        /\ In(<<d, n>>, tasks'[LoopOf[d]]) => In(<<d, n>>, tasks[LoopOf[d]])
        /\ In(<<d, n>>, tasks[LoopOf[d]]) => In(<<d, n>>, tasks'[LoopOf[d]]) \/ (d = c /\ n = m)
  <2> SUFFICES ASSUME NEW d \in Channels, NEW n \in Messages
               PROVE  /\ In(<<d, n>>, tasks'[LoopOf[d]]) => In(<<d, n>>, tasks[LoopOf[d]])
                      /\ In(<<d, n>>, tasks[LoopOf[d]])
                           => In(<<d, n>>, tasks'[LoopOf[d]]) \/ (d = c /\ n = m)
    OBVIOUS
  <2>1. LoopOf[d] \in Loops
    BY LoopType DEF LoopOK
  <2>2. In(<<d, n>>, tasks[l]) <=> (d = c /\ n = m) \/ In(<<d, n>>, Tail(tasks[l]))
    BY <1>4
  <2>3. QED
    BY <1>6, <2>1, <2>2
<1>8. In(<<c, m>>, tasks[LoopOf[c]])
  BY <1>4
<1>9. \A d \in Channels, n \in Messages :
        In(n, out'[d]) \/ In(n, outbound'[d])
          <=> In(n, out[d]) \/ In(n, outbound[d]) \/ (n = m /\ d = c /\ c \in open)
  BY <1>1, <1>2, <1>4, OnLoopReached
<1>10. PipelineInv'
  <2>1. \A d \in {c}, n \in Messages : In(n, out[d]) \/ In(n, outbound[d]) => Precedes(sent', n, m)
    BY <1>1, <1>2, <1>4, <1>8 DEF PipelineInv
  <2>2. ASSUME NEW d \in Channels, NEW n \in Messages, In(<<d, n>>, tasks'[LoopOf[d]])
        PROVE  /\ \A k \in Messages : In(k, out[d]) \/ In(k, outbound[d]) => Precedes(sent', k, n)
               /\ d \in {c} => Precedes(sent', m, n)
    <3>1. \A k \in Messages : In(k, out[d]) \/ In(k, outbound[d]) => Precedes(sent', k, n)
      BY <1>1, <1>2, <1>7, <2>2 DEF PipelineInv
    <3>2. d = c => Precedes(sent', m, n)
      BY <1>1, <1>4, <1>5, <1>6, <2>2
    <3>3. QED
      BY <3>1, <3>2
  <2>3. \A k \in Loops : AscendingTasks(sent', tasks'[k])
    BY <1>1, <1>2, <1>5, <1>6 DEF PipelineInv
  <2>4. \A d \in Channels :
           /\ Ascending(sent', out'[d]) /\ Ascending(sent', outbound'[d])
           /\ \A n, k \in Messages : In(n, out'[d]) /\ In(k, outbound'[d]) => Precedes(sent', n, k)
           /\ \A n, k \in Messages :
                (In(n, out'[d]) \/ In(n, outbound'[d])) /\ In(<<d, k>>, tasks'[LoopOf[d]])
                  => Precedes(sent', n, k)
    <3>1. /\ {c} \in SUBSET Channels
          /\ \A n, k \in Messages : Precedes(sent, n, k) => Precedes(sent', n, k)
      BY <1>1, <1>4
    <3>2. QED
      BY <1>1, <1>2, <1>4, <2>1, <2>2, <3>1, OnLoopPipeline
  <2>5. QED
    BY <2>3, <2>4 DEF PipelineInv
<1>11. \A d \in Channels, n \in Messages : Reached(d, n)' => Reached(d, n)
  BY <1>7, <1>8, <1>9 DEF Reached, Pending
<1>12. \A d \in open', n \in Messages : Reached(d, n) => Reached(d, n)'
  BY <1>1, <1>2, <1>7, <1>9 DEF Reached, Pending, TypeOK
<1>13. QED
  BY <1>1, <1>7, <1>10, <1>11, <1>12, NettyFrame

\* A peer that reads.
LEMMA DrainKeeps ==
  ASSUME IInv, NEW c \in Channels, Drain(c)
  PROVE  WriteInv' /\ ReachesAll'
<1> DEFINE m == Head(outbound[c])
<1>1. TypeOK /\ PipelineInv
  BY DEF IInv, WriteInv
<1>2. /\ outbound[c] # <<>>
      /\ out' = [out EXCEPT ![c] = Append(out[c], m)]
      /\ outbound' = [outbound EXCEPT ![c] = Tail(outbound[c])]
      /\ UNCHANGED <<open, online, pages, tasks, sent, th, audience, ended>>
  BY DEF Drain
<1>3. out[c] \in Seq(Messages) /\ outbound[c] \in Seq(Messages)
  BY <1>1 DEF TypeOK
<1>4. /\ m \in Messages /\ Tail(outbound[c]) \in Seq(Messages)
      /\ \A x : In(x, outbound[c]) <=> x = m \/ In(x, Tail(outbound[c]))
  BY <1>2, <1>3, InTail
<1>5. \A x : In(x, Append(out[c], m)) <=> In(x, out[c]) \/ x = m
  BY <1>3, <1>4, InAppend
<1>6. \A d \in Channels :
        /\ out'[d] = IF d = c THEN Append(out[c], m) ELSE out[d]
        /\ outbound'[d] = IF d = c THEN Tail(outbound[c]) ELSE outbound[d]
  BY <1>1, <1>2 DEF TypeOK
<1>7. /\ Ascending(sent, Tail(outbound[c]))
      /\ \A x : In(x, Tail(outbound[c])) => Precedes(sent, m, x)
  <2>1. Ascending(sent, outbound[c])
    BY <1>1 DEF PipelineInv
  <2>2. QED
    BY <1>2, <1>3, <2>1, TailAscending
<1>8. Ascending(sent, Append(out[c], m))
  <2>1. Ascending(sent, out[c]) /\ \A x \in Messages : In(x, out[c]) => Precedes(sent, x, m)
    BY <1>1, <1>4 DEF PipelineInv
  <2>2. QED
    BY <1>3, <1>4, <2>1, AppendAscending
<1> HIDE DEF m
<1>9. \A d \in Channels, n \in Messages :
        In(n, out'[d]) \/ In(n, outbound'[d]) <=> In(n, out[d]) \/ In(n, outbound[d])
  BY <1>4, <1>5, <1>6
<1>10. \A d \in Channels, n, k \in Messages :
         In(n, out'[d]) /\ In(k, outbound'[d]) => Precedes(sent, n, k)
  <2>1. \A d \in Channels, n, k \in Messages : In(n, out[d]) /\ In(k, outbound[d]) => Precedes(sent, n, k)
    BY <1>1 DEF PipelineInv
  <2>2. \A n, k \in Messages :
          In(n, Append(out[c], m)) /\ In(k, Tail(outbound[c])) => Precedes(sent, n, k)
    BY <1>4, <1>5, <1>7, <2>1
  <2>3. QED
    BY <1>6, <2>1, <2>2
<1>11. PipelineInv'
  <2>1. \A d \in Channels : Ascending(sent', out'[d]) /\ Ascending(sent', outbound'[d])
    BY <1>1, <1>2, <1>6, <1>7, <1>8 DEF PipelineInv
  <2>2. \A d \in Channels, n, k \in Messages :
           (In(n, out'[d]) \/ In(n, outbound'[d])) /\ In(<<d, k>>, tasks'[LoopOf[d]])
              => Precedes(sent', n, k)
    BY <1>1, <1>2, <1>9 DEF PipelineInv
  <2>3. \A k \in Loops : AscendingTasks(sent', tasks'[k])
    BY <1>1, <1>2 DEF PipelineInv
  <2>4. QED
    BY <1>2, <1>10, <2>1, <2>2, <2>3 DEF PipelineInv
<1>12. \A d \in Channels, n \in Messages : Reached(d, n)' <=> Reached(d, n)
  BY <1>2, <1>9 DEF Reached, Pending
<1>13. open' \subseteq Channels
  BY <1>1, <1>2 DEF TypeOK
<1>14. QED
  BY <1>2, <1>11, <1>12, <1>13, NettyFrame

\* A peer that disconnects.
LEMMA CloseKeeps ==
  ASSUME IInv, NEW c \in Channels, Close(c)
  PROVE  WriteInv' /\ ReachesAll'
<1>1. TypeOK /\ PipelineInv
  BY DEF IInv, WriteInv
<1>2. /\ open' = open \ {c} /\ outbound' = [outbound EXCEPT ![c] = <<>>]
      /\ UNCHANGED <<online, pages, tasks, out, sent, th, audience, ended>>
  BY DEF Close
<1>3. \A d \in Channels : outbound'[d] = IF d = c THEN <<>> ELSE outbound[d]
  BY <1>1, <1>2 DEF TypeOK
<1>4. \A x : ~In(x, <<>>)
  BY DEF In
<1>5. PipelineInv'
  <2>1. \A msgs : Ascending(msgs, <<>>)
    BY DEF Ascending
  <2>2. QED
    BY <1>1, <1>2, <1>3, <1>4, <2>1 DEF PipelineInv
<1>6. \A d \in Channels, n \in Messages : Reached(d, n)' => Reached(d, n)
  BY <1>2, <1>3, <1>4 DEF Reached, Pending
<1>7. \A d \in open', n \in Messages : Reached(d, n) => Reached(d, n)'
  BY <1>1, <1>2, <1>3 DEF Reached, Pending, TypeOK
<1>8. QED
  BY <1>2, <1>5, <1>6, <1>7, NettyFrame

-----------------------------------------------------------------------------
(* Pages that join and leave.                                              *)

\* The page table of account a changes under the writers: those that it loses
\* have closed, and nothing has been written to those that it gains.
LEMMA ChangePagesKeeps ==
  ASSUME IInv, NEW a \in Accounts, NEW cs \in SUBSET (Members(a) \ {Owner[a]}), ChangePages(a, cs),
         UNCHANGED <<open, traffic, sent, audience, ended>>,
         \A c \in pages[a] \ cs : c \notin open,
         \A c \in cs \ pages[a], n \in Messages : ~Reached(c, n)
  PROVE  WriteInv' /\ ReachesAll'
<1>1. TypeOK /\ UNCHANGED <<open, tasks, outbound, out, sent, audience, ended>>
  BY DEF IInv, traffic
<1>2. Members(a) \subseteq Channels
  BY DEF Members
<1>3. pages' = [pages EXCEPT ![a] = cs] /\ pages \in [Accounts -> SUBSET Channels]
  BY <1>1 DEF ChangePages, TypeOK
<1>4. \A l \in Loops :
        /\ th'[l].pc = th[l].pc /\ th'[l].msg = th[l].msg
        /\ th'[l].acc = th[l].acc /\ th'[l].to = th[l].to
        /\ \/ th'[l].left = th[l].left
           \/ /\ th[l].acc = a /\ th[l].left \ {th[l].to} # {}
              /\ th'[l].left = th[l].left \cup (cs \ pages[a])
  BY <1>1, <1>2, ChangePagesThread
<1>5. PipelineInv' /\ TaskInv' /\ EndedInv' /\ ReachesAll'
  BY <1>1 DEF IInv, WriteInv, PipelineInv, TaskInv, EndedInv, ReachesAll, Pending
<1>6. ReachedInv'
  <2>1. \A c \in Channels : Bound(c) => Bound(c)' \/ c \notin open
    BY <1>3 DEF Bound
  <2>2. \A c \in Channels, m \in Messages : Reached(c, m)' <=> Reached(c, m)
    BY <1>1 DEF Reached, Pending
  <2>3. QED
    BY <1>1, <2>1, <2>2 DEF IInv, WriteInv, ReachedInv
<1>7. WriterInv'
  BY <1>1, <1>4 DEF IInv, WriteInv, WriterInv, LoopIdle
<1>8. LeftInv'
  <2> SUFFICES ASSUME NEW l \in Loops, ~LoopIdle(l)'
               PROVE  /\ th'[l].left \subseteq Members(th'[l].acc) \ {Owner[th'[l].acc]}
                      /\ \A c \in th'[l].left : c \in pages'[th'[l].acc] \/ c \notin open'
                      /\ th'[l].pc = "write" => th'[l].to = None
                      /\ th'[l].pc = "wait" =>
                           th'[l].to \in th'[l].left \/ (th'[l].to = Owner[th'[l].acc] /\ th'[l].left = {})
    BY DEF LeftInv
  <2>1. ~LoopIdle(l)
    BY <1>4 DEF LoopIdle
  <2>2. /\ th[l].left \subseteq Members(th[l].acc) \ {Owner[th[l].acc]}
        /\ \A c \in th[l].left : c \in pages[th[l].acc] \/ c \notin open
        /\ th[l].pc = "write" => th[l].to = None
        /\ th[l].pc = "wait" => th[l].to \in th[l].left \/ (th[l].to = Owner[th[l].acc] /\ th[l].left = {})
    BY <2>1 DEF IInv, WriteInv, LeftInv
  <2>3. th[l].acc \in Accounts
    BY <1>1, <2>1, WriterType
  <2>4. pages'[th[l].acc] = IF th[l].acc = a THEN cs ELSE pages[th[l].acc]
    BY <1>3, <2>3
  <2>5. QED
    BY <1>1, <1>4, <2>2, <2>4
<1>9. ProgressInv'
  <2> SUFFICES ASSUME NEW l \in Loops, ~LoopIdle(l)'
               PROVE  /\ \A c \in ToWrite(l)' : ~Reached(c, th[l].msg)'
                      /\ \A c \in audience'[th'[l].msg] \cap open' :
                           c \in ToWrite(l)' \/ Reached(c, th[l].msg)'
                      /\ ended'[th'[l].msg] = "no"
    BY DEF ProgressInv
  <2>1. ~LoopIdle(l)
    BY <1>4 DEF LoopIdle
  <2>2. th[l].msg \in Messages
    BY <1>1, <2>1, WriterType
  <2>3. /\ \A c \in ToWrite(l) : ~Reached(c, th[l].msg)
        /\ \A c \in audience[th[l].msg] \cap open : c \in ToWrite(l) \/ Reached(c, th[l].msg)
        /\ ended[th[l].msg] = "no"
    BY <2>1 DEF IInv, WriteInv, ProgressInv
  <2>4. \A c : Reached(c, th[l].msg)' <=> Reached(c, th[l].msg)
    BY <1>1, <1>4 DEF Reached, Pending
  <2>5. ToWrite(l) \subseteq ToWrite(l)' /\ ToWrite(l)' \subseteq ToWrite(l) \cup (cs \ pages[a])
    BY <1>4 DEF ToWrite
  <2>6. QED
    BY <1>1, <1>4, <2>2, <2>3, <2>4, <2>5
<1>10. QED
  BY <1>5, <1>6, <1>7, <1>8, <1>9 DEF WriteInv

\* A page that joins has got nothing before.
LEMMA JoinPageKeeps ==
  ASSUME IInv, NEW c \in Channels, JoinPage(c)
  PROVE  WriteInv' /\ ReachesAll'
<1> DEFINE a == Login[c]
<1>1. TypeOK /\ ReachedInv
  BY DEF IInv, WriteInv
<1>2. /\ c \in open /\ a \in online /\ ~Bound(c) /\ ChangePages(a, pages[a] \cup {c})
      /\ UNCHANGED <<open, online, traffic, sent, audience, ended>>
  BY DEF JoinPage
<1>3. a \in Accounts /\ c # Owner[a]
  BY <1>1, <1>2, DeliveryAssumption DEF Bound, TypeOK, DeliveryAssumption
<1>4. pages[a] \cup {c} \in SUBSET (Members(a) \ {Owner[a]})
  BY <1>1, <1>3 DEF TypeOK, Members
<1>5. \A n \in Messages : ~Reached(c, n)
  BY <1>1, <1>2 DEF ReachedInv
<1> HIDE DEF a
<1>6. /\ \A d \in pages[a] \ (pages[a] \cup {c}) : d \notin open
      /\ \A d \in (pages[a] \cup {c}) \ pages[a], n \in Messages : ~Reached(d, n)
  BY <1>5
<1>7. QED
  BY <1>2, <1>3, <1>4, <1>6, ChangePagesKeeps

\* One that leaves has closed.
LEMMA LeaveKeeps ==
  ASSUME IInv, NEW c \in Channels, Leave(c)
  PROVE  WriteInv' /\ ReachesAll'
<1> DEFINE a == Login[c]
<1>1. TypeOK
  BY DEF IInv
<1>2. /\ c \notin open /\ a \in online
      /\ IF c \in pages[a] THEN ChangePages(a, pages[a] \ {c}) ELSE UNCHANGED <<pages, th>>
      /\ UNCHANGED <<open, traffic, sent, audience, ended>>
  BY DEF Leave
<1>3. a \in Accounts /\ pages[a] \ {c} \in SUBSET (Members(a) \ {Owner[a]})
  BY <1>1, <1>2 DEF TypeOK
<1> HIDE DEF a
<1>4. CASE c \in pages[a]
  <2>1. /\ \A d \in pages[a] \ (pages[a] \ {c}) : d \notin open
        /\ \A d \in (pages[a] \ {c}) \ pages[a], n \in Messages : ~Reached(d, n)
    BY <1>2
  <2>2. QED
    BY <1>2, <1>3, <1>4, <2>1, ChangePagesKeeps
<1>5. CASE c \notin pages[a]
  BY <1>2, <1>5 DEF IInv, WriteInv, PipelineInv, TaskInv, ReachedInv, WriterInv, LeftInv, ProgressInv,
     EndedInv, ReachesAll, Reached, Pending, Bound, ToWrite, LoopIdle, traffic
<1>6. QED
  BY <1>4, <1>5

-----------------------------------------------------------------------------
(* Session.write().                                                        *)

\* Loop l has come to the end of its write, or has one channel less to write to.
Advanced(l, c) ==
  \/ /\ th'[l] = Idle
     /\ \/ ended'[th[l].msg] = "failed"
        \/ ended'[th[l].msg] = "ok" /\ ToWrite(l) \subseteq {c}
  \/ /\ ended'[th[l].msg] = ended[th[l].msg]
     /\ th'[l].msg = th[l].msg /\ th'[l].acc = th[l].acc
     /\ th'[l].left \subseteq th[l].left
     /\ ToWrite(l)' = ToWrite(l) \ {c}
     /\ th'[l].pc = "write" => th'[l].to = None
     /\ th'[l].pc = "wait" =>
          th'[l].to \in th'[l].left \/ (th'[l].to = Owner[th'[l].acc] /\ th'[l].left = {})

\* What a step of Session.write on loop l keeps: it writes its message to channel
\* c, or to none, and leaves the writes of other loops alone.
LEMMA WriterKeeps ==
  ASSUME IInv, NEW l \in Loops, ~LoopIdle(l), NEW c \in Channels,
         UNCHANGED <<open, online, pages, sent, audience>>,
         \A k \in Loops : k # l => th'[k] = th[k],
         \A n \in Messages : n # th[l].msg => ended'[n] = ended[n],
         \A d \in Channels, n \in Messages :
           n # th[l].msg \/ d # c => (Reached(d, n)' <=> Reached(d, n)),
         \A n \in Messages : n = th[l].msg =>
           /\ Reached(c, n) => Reached(c, n)'
           /\ Reached(c, n)' => Reached(c, n) \/ (Login[c] = th[l].acc /\ (Bound(c) \/ c \notin open))
           /\ c \in audience[n] \cap open => Reached(c, n)' \/ ended'[n] = "failed",
         Advanced(l, c), PipelineInv', TaskInv'
  PROVE  WriteInv' /\ ReachesAll'
<1> DEFINE m == th[l].msg
           a == th[l].acc
<1>1. TypeOK /\ m \in Messages /\ a \in Accounts /\ ToWrite(l) \subseteq Channels
  BY WriterType DEF IInv, ToWrite
<1>2. /\ In(m, sent) /\ LoopOf[m.from] = l
      /\ Protocol(m) \notin {"UD", "GROUP"} /\ a = Addressee(m)
  BY DEF IInv, WriteInv, WriterInv
<1>3. /\ \A d \in ToWrite(l) : ~Reached(d, m)
      /\ \A d \in audience[m] \cap open : d \in ToWrite(l) \/ Reached(d, m)
      /\ ended[m] = "no"
  BY DEF IInv, WriteInv, ProgressInv
<1>4. ASSUME NEW k \in Loops, k # l, ~LoopIdle(k)
      PROVE  th[k].msg \in Messages /\ th[k].msg # m
  BY <1>1, <1>2, <1>4, WriterType DEF IInv, WriteInv, WriterInv
<1>5. ReachedInv'
  <2> SUFFICES ASSUME NEW d \in Channels, NEW n \in Messages, Reached(d, n)'
               PROVE  /\ In(n, sent) /\ Protocol(n) # "UD"
                      /\ Protocol(n) # "GROUP" => Login[d] = Addressee(n)
                      /\ Bound(d) \/ d \notin open
    BY DEF ReachedInv, Bound
  <2>1. CASE Reached(d, n)
    BY <2>1 DEF IInv, WriteInv, ReachedInv
  <2>2. CASE ~Reached(d, n)
    <3>1. n = m /\ d = c
      BY <2>2
    <3>2. Login[c] = a /\ (Bound(c) \/ c \notin open)
      BY <2>2, <3>1
    <3>3. QED
      BY <1>2, <3>1, <3>2
  <2>3. QED
    BY <2>1, <2>2
<1>6. ~LoopIdle(l)' => th'[l].msg = m /\ th'[l].acc = a
  BY DEF Advanced, LoopIdle, Idle
<1>7. WriterInv'
  <2> SUFFICES ASSUME NEW k \in Loops, ~LoopIdle(k)'
               PROVE  LET n == th'[k].msg
                          b == th'[k].acc
                      IN  /\ In(n, sent') /\ LoopOf[n.from] = k
                          /\ \A x \in Messages :
                               In(x, sent') /\ x.from = n.from => x = n \/ Precedes(sent', x, n)
                          /\ Protocol(n) \notin {"UD", "GROUP"} /\ b = Addressee(n)
    BY DEF WriterInv
  <2>1. ~LoopIdle(k) /\ th'[k].msg = th[k].msg /\ th'[k].acc = th[k].acc
    BY <1>6 DEF LoopIdle
  <2>2. QED
    BY <2>1 DEF IInv, WriteInv, WriterInv
<1>8. LeftInv'
  <2> SUFFICES ASSUME NEW k \in Loops, ~LoopIdle(k)'
               PROVE  LET b == th'[k].acc
                      IN  /\ th'[k].left \subseteq Members(b) \ {Owner[b]}
                          /\ \A d \in th'[k].left : d \in pages'[b] \/ d \notin open'
                          /\ th'[k].pc = "write" => th'[k].to = None
                          /\ th'[k].pc = "wait" =>
                               th'[k].to \in th'[k].left \/ (th'[k].to = Owner[b] /\ th'[k].left = {})
    BY DEF LeftInv
  <2>1. CASE k = l
    <3>1. /\ th[l].left \subseteq Members(a) \ {Owner[a]}
          /\ \A d \in th[l].left : d \in pages[a] \/ d \notin open
      BY DEF IInv, WriteInv, LeftInv
    <3>2. th'[l] # Idle
      BY <2>1 DEF LoopIdle, Idle
    <3>3. QED
      BY <2>1, <3>1, <3>2 DEF Advanced
  <2>2. CASE k # l
    <3>1. th'[k] = th[k] /\ ~LoopIdle(k)
      BY <2>2 DEF LoopIdle
    <3>2. QED
      BY <3>1 DEF IInv, WriteInv, LeftInv
  <2>3. QED
    BY <2>1, <2>2
<1>9. ProgressInv'
  <2> SUFFICES ASSUME NEW k \in Loops, ~LoopIdle(k)'
               PROVE  /\ \A d \in ToWrite(k)' : ~Reached(d, th[k].msg)'
                      /\ \A d \in audience'[th'[k].msg] \cap open' :
                           d \in ToWrite(k)' \/ Reached(d, th[k].msg)'
                      /\ ended'[th'[k].msg] = "no"
    BY DEF ProgressInv
  <2>1. CASE k = l
    <3>1. /\ ended'[m] = ended[m] /\ th'[l].msg = m /\ ToWrite(l)' = ToWrite(l) \ {c}
      BY <2>1 DEF Advanced, LoopIdle, Idle
    <3>2. \A d : Reached(d, th[l].msg)' <=> \E n \in Messages : n = m /\ Reached(d, n)'
      BY <1>1, <3>1 DEF Reached, Pending
    <3>3. \A d \in ToWrite(l)' : ~Reached(d, th[l].msg)'
      BY <1>1, <1>3, <3>1, <3>2
    <3>4. ASSUME NEW d \in audience[m] \cap open
          PROVE  d \in ToWrite(l)' \/ Reached(d, th[l].msg)'
      <4>1. d \in Channels
        BY <1>1 DEF TypeOK
      <4>2. CASE d = c
        BY <1>1, <1>3, <3>1, <3>2, <3>4, <4>2
      <4>3. CASE d # c
        BY <1>1, <1>3, <3>1, <3>2, <3>4, <4>1, <4>3
      <4>4. QED
        BY <4>2, <4>3
    <3>5. QED
      BY <1>3, <2>1, <3>1, <3>3, <3>4
  <2>2. CASE k # l
    <3>1. th'[k] = th[k] /\ ~LoopIdle(k)
      BY <2>2 DEF LoopIdle
    <3>2. th[k].msg \in Messages /\ th[k].msg # m /\ ToWrite(k) \subseteq Channels
      BY <1>1, <1>4, <2>2, <3>1, WriterType DEF ToWrite
    <3>3. /\ \A d \in ToWrite(k) : ~Reached(d, th[k].msg)
          /\ \A d \in audience[th[k].msg] \cap open : d \in ToWrite(k) \/ Reached(d, th[k].msg)
          /\ ended[th[k].msg] = "no"
      BY <3>1 DEF IInv, WriteInv, ProgressInv
    <3>4. ToWrite(k)' = ToWrite(k)
      BY <3>1 DEF ToWrite
    <3>5. \A d : Reached(d, th[k].msg)' <=> \E n \in Messages : n = th[k].msg /\ Reached(d, n)'
      BY <3>1, <3>2 DEF Reached, Pending
    <3>6. \A d \in Channels : Reached(d, th[k].msg)' <=> Reached(d, th[k].msg)
      BY <3>2, <3>5
    <3>7. open \subseteq Channels
      BY <1>1 DEF TypeOK
    <3>8. QED
      BY <3>1, <3>2, <3>3, <3>4, <3>6, <3>7
  <2>3. QED
    BY <2>1, <2>2
<1>10. EndedInv'
  BY <1>2 DEF IInv, WriteInv, EndedInv
<1>11. ReachesAll'
  <2> SUFFICES ASSUME NEW n \in Messages, ended'[n] = "ok", NEW d \in audience[n] \cap open
               PROVE  Reached(d, n)'
    BY DEF ReachesAll, Reached, Pending
  <2>1. d \in Channels
    BY <1>1 DEF TypeOK
  <2>2. CASE n # m
    <3>1. Reached(d, n)
      BY <2>1, <2>2 DEF IInv, ReachesAll, Reached, Pending
    <3>2. QED
      BY <2>1, <2>2, <3>1
  <2>3. CASE n = m
    <3>1. ToWrite(l) \subseteq {c}
      BY <1>3, <2>3 DEF Advanced
    <3>2. CASE d = c
      BY <2>3, <3>2
    <3>3. CASE d # c
      BY <1>3, <2>1, <2>3, <3>1, <3>3
    <3>4. QED
      BY <3>2, <3>3
  <2>4. QED
    BY <2>2, <2>3
<1>12. QED
  BY <1>5, <1>7, <1>8, <1>9, <1>10, <1>11 DEF WriteInv

\* The write fails.
LEMMA FinishAdvances ==
  ASSUME TypeOK, NEW l \in Loops, ~LoopIdle(l), NEW c \in Channels, Finish(l, "failed")
  PROVE  /\ Advanced(l, c) /\ ended'[th[l].msg] = "failed"
         /\ \A k \in Loops : k # l => th'[k] = th[k]
         /\ \A n \in Messages : n # th[l].msg => ended'[n] = ended[n]
<1>1. /\ th[l].msg \in Messages
      /\ th \in [Loops -> Thread] /\ ended \in [Messages -> {"no", "ok", "failed"}]
  BY WriterType DEF TypeOK
<1>2. QED
  BY <1>1 DEF Finish, Advanced

\* The write goes on after channel c, or has written to all.
LEMMA GoOnAdvances ==
  ASSUME IInv, NEW l \in Loops, ~LoopIdle(l), NEW c \in Channels, GoOn(l, c),
         c \in th[l].left \/ (c = Owner[th[l].acc] /\ th[l].left = {}),
         th[l].to \in {None, c}
  PROVE  /\ Advanced(l, c)
         /\ \A k \in Loops : k # l => th'[k] = th[k]
         /\ \A n \in Messages : n # th[l].msg => ended'[n] = ended[n]
<1>1. /\ TypeOK /\ th[l].msg \in Messages /\ th[l].left \subseteq Channels /\ th[l] \in Thread
      /\ Owner[th[l].acc] \in Channels
      /\ th \in [Loops -> Thread] /\ ended \in [Messages -> {"no", "ok", "failed"}]
  BY WriterType DEF IInv, TypeOK
<1>2. Owner[th[l].acc] \notin th[l].left
  BY DEF IInv, WriteInv, LeftInv
<1>3. CASE c = Owner[th[l].acc]
  <2>1. Finish(l, "ok") /\ th[l].left = {}
    BY <1>2, <1>3 DEF GoOn
  <2>2. ToWrite(l) \subseteq {c}
    BY <1>3, <2>1 DEF ToWrite
  <2>3. QED
    BY <1>1, <2>1, <2>2 DEF Finish, Advanced
<1>4. CASE c # Owner[th[l].acc]
  <2>1. /\ th' = [th EXCEPT ![l].pc = "write", ![l].left = @ \ {c}, ![l].to = None]
        /\ UNCHANGED ended
    BY <1>4 DEF GoOn
  <2> DEFINE t == [th[l] EXCEPT !.pc = "write", !.left = th[l].left \ {c}, !.to = None]
  <2>2. th' = [th EXCEPT ![l] = t]
    BY <2>1
  <2>3. /\ t.pc = "write" /\ t.left = th[l].left \ {c} /\ t.to = None
        /\ t.msg = th[l].msg /\ t.acc = th[l].acc
    BY <1>1 DEF Thread
  <2> HIDE DEF t
  <2>4. th'[l] = t /\ \A k \in Loops : k # l => th'[k] = th[k]
    BY <1>1, <2>2
  <2>5. None \notin Channels
    BY DeliveryAssumption DEF DeliveryAssumption
  <2>6. ToWrite(l)' = ToWrite(l) \ {c}
    BY <1>1, <1>4, <2>3, <2>4, <2>5 DEF ToWrite
  <2>7. QED
    BY <2>1, <2>3, <2>4, <2>6 DEF Advanced
<1>5. QED
  BY <1>3, <1>4

\* A write of Session.write to the channel that is next: of the running loop or
\* of another one.
LEMMA WriteToKeeps ==
  ASSUME IInv, NEW l \in Loops, th[l].pc = "write", NEW c \in Channels, WriteTo(l, c),
         UNCHANGED <<open, online, pages, sent, audience>>,
         \/ c \in th[l].left
         \/ c = Owner[th[l].acc] /\ th[l].left = {}
  PROVE  WriteInv' /\ ReachesAll'
<1> DEFINE m == th[l].msg
           a == th[l].acc
<1>1. TypeOK /\ PipelineInv /\ ~LoopIdle(l)
  BY DEF IInv, WriteInv, LoopIdle
<1>2. /\ m \in Messages /\ a \in Accounts /\ th[l] \in Thread /\ th \in [Loops -> Thread]
      /\ Owner[a] \in Channels /\ None \notin Channels
  BY <1>1, WriterType, DeliveryAssumption DEF TypeOK, DeliveryAssumption
<1>3. /\ th[l].to = None
      /\ th[l].left \subseteq Members(a) \ {Owner[a]}
      /\ \A d \in th[l].left : d \in pages[a] \/ d \notin open
  BY <1>1 DEF IInv, WriteInv, LeftInv
<1>4. /\ In(m, sent) /\ LoopOf[m.from] = l
      /\ \A n \in Messages : In(n, sent) /\ n.from = m.from => n = m \/ Precedes(sent, n, m)
  BY <1>1 DEF IInv, WriteInv, WriterInv
<1>5. c \in ToWrite(l) /\ ~Reached(c, m)
  <2>1. c \in ToWrite(l)
    BY <1>2, <1>3 DEF ToWrite
  <2>2. QED
    BY <1>1, <2>1 DEF IInv, WriteInv, ProgressInv
<1>6. Login[c] = a /\ (Bound(c) \/ c \notin open)
  BY <1>2, <1>3, OwnerType, DeliveryAssumption DEF Members, Bound, DeliveryAssumption
<1>7. \A n \in Messages : Reached(c, n) => Precedes(sent, n, m)
  <2> SUFFICES ASSUME NEW n \in Messages, Reached(c, n)
               PROVE  Precedes(sent, n, m)
    OBVIOUS
  <2>1. In(n, sent) /\ n # m
    BY <1>5 DEF IInv, WriteInv, ReachedInv
  <2>2. QED
    BY <1>4, <2>1 DEF Precedes
<1>8. ASSUME LoopOf[c] = l, WriteOnLoop({c}, m), UNCHANGED tasks,
             Finish(l, "failed") \/ GoOn(l, c)
      PROVE  WriteInv' /\ ReachesAll'
  <2>1. {c} \in SUBSET Channels
    OBVIOUS
  <2>2. \A d \in Channels, n \in Messages :
          In(n, out'[d]) \/ In(n, outbound'[d])
            <=> In(n, out[d]) \/ In(n, outbound[d]) \/ (n = m /\ d = c /\ c \in open)
    BY <1>1, <1>2, <1>8, <2>1, OnLoopReached
  <2>3. \A d \in Channels, n \in Messages :
          Reached(d, n)' <=> Reached(d, n) \/ (n = m /\ d = c /\ c \in open)
    BY <1>8, <2>2 DEF Reached, Pending
  <2>4. TaskInv'
    BY <1>8 DEF IInv, WriteInv, TaskInv
  <2>5. PipelineInv'
    <3>1. \A n, k \in Messages : Precedes(sent, n, k) => Precedes(sent', n, k)
      OBVIOUS
    <3>2. \A d \in {c}, n \in Messages : In(n, out[d]) \/ In(n, outbound[d]) => Precedes(sent', n, m)
      BY <1>7 DEF Reached, Pending
    <3>3. ASSUME NEW d \in Channels, NEW n \in Messages, In(<<d, n>>, tasks'[LoopOf[d]])
          PROVE  /\ \A k \in Messages : In(k, out[d]) \/ In(k, outbound[d]) => Precedes(sent', k, n)
                 /\ d \in {c} => Precedes(sent', m, n)
      <4>1. \A k \in Messages : In(k, out[d]) \/ In(k, outbound[d]) => Precedes(sent', k, n)
        BY <1>1, <1>8, <3>3 DEF PipelineInv
      <4>2. LoopOf[n.from] # LoopOf[d]
        BY <1>8, <3>3 DEF IInv, WriteInv, TaskInv
      <4>3. d = c => Precedes(sent', m, n)
        BY <1>4, <1>8, <4>2 DEF Precedes
      <4>4. QED
        BY <4>1, <4>3
    <3>4. \A d \in Channels :
           /\ Ascending(sent', out'[d]) /\ Ascending(sent', outbound'[d])
           /\ \A n, k \in Messages : In(n, out'[d]) /\ In(k, outbound'[d]) => Precedes(sent', n, k)
           /\ \A n, k \in Messages :
                (In(n, out'[d]) \/ In(n, outbound'[d])) /\ In(<<d, k>>, tasks'[LoopOf[d]])
                  => Precedes(sent', n, k)
      BY <1>1, <1>2, <1>8, <2>1, <3>1, <3>2, <3>3, OnLoopPipeline
    <3>5. \A k \in Loops : AscendingTasks(sent', tasks'[k])
      BY <1>1, <1>8 DEF PipelineInv
    <3>6. QED
      BY <3>4, <3>5 DEF PipelineInv
  <2>6. /\ Advanced(l, c)
        /\ \A k \in Loops : k # l => th'[k] = th[k]
        /\ \A n \in Messages : n # m => ended'[n] = ended[n]
    BY <1>1, <1>3, <1>8, FinishAdvances, GoOnAdvances
  <2>7. QED
    BY <1>1, <1>2, <1>6, <2>3, <2>4, <2>5, <2>6, WriterKeeps
<1>9. ASSUME LoopOf[c] # l,
             tasks' = [tasks EXCEPT ![LoopOf[c]] = Queued(LoopOf[c], << <<c, m>> >>)],
             th' = [th EXCEPT ![l].pc = "wait", ![l].to = c],
             UNCHANGED <<outbound, out, ended>>
      PROVE  WriteInv' /\ ReachesAll'
  <2> DEFINE writes == << <<c, m>> >>
             queue == Queued(LoopOf[c], writes)
  <2>1. LoopOf[c] \in Loops /\ tasks \in [Loops -> Seq(Channels \X Messages)]
    BY <1>1, LoopType DEF LoopOK, TypeOK
  <2>2. /\ writes \in Seq(Channels \X Messages)
        /\ \A x : In(x, writes) <=> x = <<c, m>>
        /\ \A msgs : AscendingTasks(msgs, writes)
    BY <1>2, OneWrite DEF AscendingTasks
  <2> HIDE DEF writes
  <2>3. \A d \in Channels, n \in Messages :
           In(<<d, n>>, queue) <=> In(<<d, n>>, tasks[LoopOf[c]]) \/ (d = c /\ n = m)
    <3>1. \A d \in Channels, n \in Messages : In(<<d, n>>, writes) <=> d = c /\ n = m
      BY <2>2
    <3>2. \A d \in Channels, n \in Messages : In(<<d, n>>, writes) => LoopOf[d] = LoopOf[c]
      BY <3>1
    <3>3. \A d \in Channels, n \in Messages :
            In(<<d, n>>, queue) <=> In(<<d, n>>, tasks[LoopOf[c]]) \/ In(<<d, n>>, writes)
      BY <1>1, <2>1, <2>2, <3>2, QueuedType
    <3>4. QED
      BY <3>1, <3>3
  <2>4. AscendingTasks(sent, queue)
    <3>1. tasks[LoopOf[c]] \in Seq(Channels \X Messages) /\ AscendingTasks(sent, tasks[LoopOf[c]])
      BY <1>1, <2>1 DEF PipelineInv
    <3>2. ASSUME NEW x \in Channels \X Messages, NEW y \in Channels \X Messages,
                 In(x, tasks[LoopOf[c]]), In(y, writes), x[1] = y[1]
          PROVE  Precedes(sent, x[2], y[2])
      <4>1. y = <<c, m>> /\ x = <<c, x[2]>> /\ x[2] \in Messages
        BY <2>2, <3>2
      <4>2. In(<<c, x[2]>>, tasks[LoopOf[c]])
        BY <3>2, <4>1
      <4>3. QED
        BY <1>7, <4>1, <4>2 DEF Reached, Pending
    <3>3. QED
      BY <2>2, <3>1, <3>2, ConcatAscendingTasks DEF Queued
  <2>5. tasks' = [tasks EXCEPT ![LoopOf[c]] = queue]
    BY <1>9 DEF writes
  <2> HIDE DEF queue
  <2>6. \A k \in Loops : tasks'[k] = IF k = LoopOf[c] THEN queue ELSE tasks[k]
    BY <2>1, <2>5
  <2>7. \A d \in Channels, n \in Messages :
           In(<<d, n>>, tasks'[LoopOf[d]]) <=> In(<<d, n>>, tasks[LoopOf[d]]) \/ (d = c /\ n = m)
    <3> SUFFICES ASSUME NEW d \in Channels, NEW n \in Messages
                 PROVE  In(<<d, n>>, tasks'[LoopOf[d]])
                          <=> In(<<d, n>>, tasks[LoopOf[d]]) \/ (d = c /\ n = m)
      OBVIOUS
    <3>1. LoopOf[d] \in Loops
      BY LoopType DEF LoopOK
    <3>2. QED
      BY <2>3, <2>6, <3>1
  <2>8. \A d \in Channels, n \in Messages :
          Reached(d, n)' <=> Reached(d, n) \/ (n = m /\ d = c)
    BY <1>9, <2>7 DEF Reached, Pending
  <2>9. TaskInv'
    BY <1>4, <1>9, <2>7 DEF IInv, WriteInv, TaskInv
  <2>10. PipelineInv'
    <3>1. \A d \in Channels, n, k \in Messages :
            (In(n, out[d]) \/ In(n, outbound[d])) /\ In(<<d, k>>, tasks'[LoopOf[d]])
               => Precedes(sent, n, k)
      BY <1>1, <1>7, <2>7 DEF PipelineInv, Reached, Pending
    <3>2. \A k \in Loops : AscendingTasks(sent, tasks'[k])
      BY <1>1, <2>4, <2>6 DEF PipelineInv
    <3>3. QED
      BY <1>1, <1>9, <3>1, <3>2 DEF PipelineInv
  <2>11. /\ Advanced(l, c)
         /\ \A k \in Loops : k # l => th'[k] = th[k]
         /\ \A n \in Messages : n # m => ended'[n] = ended[n]
    <3> DEFINE t == [th[l] EXCEPT !.pc = "wait", !.to = c]
    <3>1. th' = [th EXCEPT ![l] = t]
      BY <1>9
    <3>2. /\ t.pc = "wait" /\ t.left = th[l].left /\ t.to = c
          /\ t.msg = th[l].msg /\ t.acc = th[l].acc
      BY <1>2 DEF Thread
    <3> HIDE DEF t
    <3>3. th'[l] = t /\ \A k \in Loops : k # l => th'[k] = th[k]
      BY <1>2, <3>1
    <3>4. ToWrite(l)' = ToWrite(l) \ {c}
      BY <1>2, <1>3, <3>2, <3>3, DeliveryAssumption DEF ToWrite, Members
    <3>5. QED
      BY <1>9, <3>2, <3>3, <3>4 DEF Advanced
  <2>12. QED
    BY <1>1, <1>2, <1>6, <2>8, <2>9, <2>10, <2>11, WriterKeeps
<1>10. QED
  BY <1>8, <1>9 DEF WriteTo

\* Every step of Session.write.
LEMMA WriteStepKeeps ==
  ASSUME IInv, NEW l \in Loops, WriteStep(l)
  PROVE  WriteInv' /\ ReachesAll'
<1> DEFINE m == th[l].msg
           a == th[l].acc
<1>1. ~LoopIdle(l) /\ UNCHANGED <<open, online, pages, sent, audience>>
  BY DEF WriteStep, WritePage, IterationFails, WriteOwn, WriteDone, WaitTimeout, LoopIdle
<1>2. /\ TypeOK /\ m \in Messages /\ th[l].left \subseteq Channels /\ Owner[a] \in Channels
      /\ th[l].pc = "wait" => th[l].to \in Channels
  BY <1>1, WriterType DEF IInv
<1>3. /\ th[l].left \subseteq Members(a) \ {Owner[a]}
      /\ \A d \in th[l].left : d \in pages[a] \/ d \notin open
      /\ th[l].pc = "write" => th[l].to = None
      /\ th[l].pc = "wait" => th[l].to \in th[l].left \/ (th[l].to = Owner[a] /\ th[l].left = {})
  BY <1>1 DEF IInv, WriteInv, LeftInv
<1>4. ASSUME UNCHANGED traffic
      PROVE  /\ PipelineInv' /\ TaskInv'
             /\ \A d \in Channels, n \in Messages : Reached(d, n)' <=> Reached(d, n)
  BY <1>1, <1>4 DEF IInv, WriteInv, PipelineInv, TaskInv, Reached, Pending, traffic
<1>5. ASSUME NEW c \in Channels, GoOn(l, c), UNCHANGED traffic,
             c \in th[l].left \/ (c = Owner[a] /\ th[l].left = {}),
             th[l].to \in {None, c}, c \in audience[m] \cap open => Reached(c, m)
      PROVE  WriteInv' /\ ReachesAll'
  <2>1. /\ Advanced(l, c)
        /\ \A k \in Loops : k # l => th'[k] = th[k]
        /\ \A n \in Messages : n # m => ended'[n] = ended[n]
    BY <1>1, <1>5, GoOnAdvances
  <2>2. QED
    BY <1>1, <1>2, <1>4, <1>5, <2>1, WriterKeeps
<1>6. CASE WritePage(l)
  <2>1. PICK c \in th[l].left :
          IF c \in pages[a] THEN WriteTo(l, c) ELSE GoOn(l, c) /\ UNCHANGED traffic
    BY <1>6 DEF WritePage
  <2>2. CASE c \in pages[a]
    BY <1>1, <1>2, <1>6, <2>1, <2>2, WriteToKeeps DEF WritePage
  <2>3. CASE c \notin pages[a]
    <3>1. c \notin open /\ th[l].to \in {None, c}
      BY <1>3, <1>6, <2>3 DEF WritePage
    <3>2. QED
      BY <1>2, <1>5, <2>1, <2>3, <3>1
  <2>4. QED
    BY <2>2, <2>3
<1>7. CASE WriteOwn(l)
  BY <1>1, <1>2, <1>7, WriteToKeeps DEF WriteOwn
<1>8. CASE IterationFails(l)
  <2>1. /\ Advanced(l, Owner[a]) /\ ended'[m] = "failed"
        /\ \A k \in Loops : k # l => th'[k] = th[k]
        /\ \A n \in Messages : n # m => ended'[n] = ended[n]
    BY <1>1, <1>2, <1>8, FinishAdvances DEF IterationFails
  <2>2. UNCHANGED traffic
    BY <1>8 DEF IterationFails
  <2>3. QED
    BY <1>1, <1>2, <1>4, <2>1, <2>2, WriterKeeps
<1>9. CASE WriteDone(l) \/ WaitTimeout(l)
  <2> DEFINE c == th[l].to
  <2>1. th[l].pc = "wait" /\ GoOn(l, c) /\ UNCHANGED traffic
    BY <1>9 DEF WriteDone, WaitTimeout
  <2>2. c \in audience[m] \cap open => Reached(c, m)
    <3>1. \A d \in audience[m] \cap open : d \in ToWrite(l) \/ Reached(d, m)
      BY <1>1 DEF IInv, WriteInv, ProgressInv
    <3>2. c \notin ToWrite(l)
      BY DEF ToWrite
    <3>3. QED
      BY <3>1, <3>2
  <2>3. QED
    BY <1>2, <1>3, <1>5, <2>1, <2>2
<1>10. QED
  BY <1>6, <1>7, <1>8, <1>9 DEF WriteStep

-----------------------------------------------------------------------------
(* A message that is received.                                             *)

\* The loop has begun to write the message, or is idle.
Begun(l, m) ==
  \/ th'[l] = th[l] /\ ended'[m] # "failed"
  \/ /\ th'[l].pc = "write" /\ th'[l].msg = m /\ th'[l].acc = Addressee(m)
     /\ Protocol(m) \notin {"UD", "GROUP"}
     /\ th'[l].left = pages[Addressee(m)] /\ th'[l].to = None
     /\ audience'[m] = pages[Addressee(m)] \cup {Owner[Addressee(m)]}
     /\ Addressee(m) \in Accounts /\ Owner[Addressee(m)] \in Channels
     /\ UNCHANGED ended

\* A new message comes behind the others of its client, and is not yet written
\* to anybody but the channel group.
LEMMA ReceiveKeeps ==
  ASSUME IInv, NEW m \in Messages, Receive(m),
         \A k \in Loops : k # LoopOf[m.from] => th'[k] = th[k],
         \A n \in Messages : n # m => ended'[n] = ended[n] /\ audience'[n] = audience[n],
         \A d \in Channels, n \in Messages : n # m => (Reached(d, n)' <=> Reached(d, n)),
         \A d \in Channels, n \in Messages : n = m =>
           /\ Reached(d, n)' => Protocol(n) = "GROUP" /\ d \in open /\ Bound(d)
           /\ ended'[n] = "ok" /\ d \in audience'[n] => Reached(d, n)',
         Begun(LoopOf[m.from], m), PipelineInv', TaskInv'
  PROVE  WriteInv' /\ ReachesAll'
<1> DEFINE l == LoopOf[m.from]
<1>1. TypeOK /\ sent \in Seq(Messages) /\ ended \in [Messages -> {"no", "ok", "failed"}]
  BY DEF IInv, TypeOK
<1>2. /\ l \in Loops /\ LoopIdle(l) /\ ~In(m, sent) /\ sent' = Append(sent, m)
      /\ UNCHANGED <<open, online, pages>>
  BY LoopType DEF Receive
<1>3. \A n : In(n, sent') <=> In(n, sent) \/ n = m
  BY <1>1, <1>2, InAppend
<1>4. /\ \A n, k : Precedes(sent, n, k) => Precedes(sent', n, k)
      /\ \A n : In(n, sent) => Precedes(sent', n, m)
  BY <1>1, <1>2, PrecedesLater, PrecedesNew
<1>5. ASSUME NEW k \in Loops, k # l, ~LoopIdle(k)'
      PROVE  /\ ~LoopIdle(k) /\ th'[k] = th[k]
             /\ th[k].msg \in Messages /\ th[k].msg # m /\ th[k].msg.from # m.from
             /\ ToWrite(k) \subseteq Channels
  <2>1. ~LoopIdle(k) /\ th'[k] = th[k]
    BY <1>5 DEF LoopIdle
  <2>2. In(th[k].msg, sent) /\ LoopOf[th[k].msg.from] = k
    BY <2>1 DEF IInv, WriteInv, WriterInv
  <2>3. QED
    BY <1>1, <1>2, <1>5, <2>1, <2>2, WriterType DEF ToWrite
<1>6. ReachedInv'
  <2> SUFFICES ASSUME NEW d \in Channels, NEW n \in Messages, Reached(d, n)'
               PROVE  /\ In(n, sent') /\ Protocol(n) # "UD"
                      /\ Protocol(n) # "GROUP" => Login[d] = Addressee(n)
                      /\ Bound(d) \/ d \notin open
    BY <1>2 DEF ReachedInv, Bound
  <2>1. CASE n = m
    BY <1>3, <2>1
  <2>2. CASE n # m
    BY <1>3, <2>2 DEF IInv, WriteInv, ReachedInv
  <2>3. QED
    BY <2>1, <2>2
<1>7. ~LoopIdle(l)' => /\ th'[l].pc = "write" /\ th'[l].msg = m /\ th'[l].acc = Addressee(m)
                       /\ Protocol(m) \notin {"UD", "GROUP"}
                       /\ th'[l].left = pages[Addressee(m)] /\ th'[l].to = None
                       /\ audience'[m] = pages[Addressee(m)] \cup {Owner[Addressee(m)]}
                       /\ Addressee(m) \in Accounts /\ Owner[Addressee(m)] \in Channels
                       /\ UNCHANGED ended
  BY <1>2 DEF Begun, LoopIdle
<1>8. WriterInv'
  <2> SUFFICES ASSUME NEW k \in Loops, ~LoopIdle(k)'
               PROVE  LET n == th'[k].msg
                          b == th'[k].acc
                      IN  /\ In(n, sent') /\ LoopOf[n.from] = k
                          /\ \A x \in Messages :
                               In(x, sent') /\ x.from = n.from => x = n \/ Precedes(sent', x, n)
                          /\ Protocol(n) \notin {"UD", "GROUP"} /\ b = Addressee(n)
    BY DEF WriterInv
  <2>1. CASE k = l
    BY <1>3, <1>4, <1>7, <2>1
  <2>2. CASE k # l
    <3>1. /\ In(th[k].msg, sent) /\ LoopOf[th[k].msg.from] = k
          /\ \A x \in Messages : In(x, sent) /\ x.from = th[k].msg.from
                                   => x = th[k].msg \/ Precedes(sent, x, th[k].msg)
          /\ Protocol(th[k].msg) \notin {"UD", "GROUP"} /\ th[k].acc = Addressee(th[k].msg)
      BY <1>5, <2>2 DEF IInv, WriteInv, WriterInv
    <3>2. QED
      BY <1>3, <1>4, <1>5, <2>2, <3>1
  <2>3. QED
    BY <2>1, <2>2
<1>9. LeftInv'
  <2> SUFFICES ASSUME NEW k \in Loops, ~LoopIdle(k)'
               PROVE  LET b == th'[k].acc
                      IN  /\ th'[k].left \subseteq Members(b) \ {Owner[b]}
                          /\ \A d \in th'[k].left : d \in pages'[b] \/ d \notin open'
                          /\ th'[k].pc = "write" => th'[k].to = None
                          /\ th'[k].pc = "wait" =>
                               th'[k].to \in th'[k].left \/ (th'[k].to = Owner[b] /\ th'[k].left = {})
    BY DEF LeftInv
  <2>1. CASE k = l
    <3>1. \A b \in Accounts : pages[b] \subseteq Members(b) \ {Owner[b]}
      BY <1>1 DEF TypeOK
    <3>2. QED
      BY <1>2, <1>7, <2>1, <3>1
  <2>2. CASE k # l
    BY <1>2, <1>5, <2>2 DEF IInv, WriteInv, LeftInv
  <2>3. QED
    BY <2>1, <2>2
<1>10. ProgressInv'
  <2> SUFFICES ASSUME NEW k \in Loops, ~LoopIdle(k)'
               PROVE  /\ \A d \in ToWrite(k)' : ~Reached(d, th[k].msg)'
                      /\ \A d \in audience'[th'[k].msg] \cap open' :
                           d \in ToWrite(k)' \/ Reached(d, th[k].msg)'
                      /\ ended'[th'[k].msg] = "no"
    BY DEF ProgressInv
  <2>1. CASE k = l
    <3>1. /\ pages[Addressee(m)] \subseteq Channels /\ None \notin Channels
          /\ Protocol(m) # "GROUP" /\ Owner[Addressee(m)] \in Channels
      BY <1>1, <1>7, <2>1, DeliveryAssumption DEF TypeOK, DeliveryAssumption
    <3>2. ToWrite(l)' = pages[Addressee(m)] \cup {Owner[Addressee(m)]}
      BY <1>7, <2>1, <3>1 DEF ToWrite
    <3>3. \A d : Reached(d, th[l].msg)' <=> \E n \in Messages : n = m /\ Reached(d, n)'
      <4>1. th'[l].msg = m
        BY <1>7, <2>1
      <4>2. QED
        BY <4>1 DEF Reached, Pending
    <3>4. \A d \in ToWrite(l)' : ~Reached(d, th[l].msg)'
      BY <3>1, <3>2, <3>3
    <3>5. ended[m] = "no"
      BY <1>2 DEF IInv, WriteInv, EndedInv
    <3>6. QED
      BY <1>7, <2>1, <3>2, <3>4, <3>5
  <2>2. CASE k # l
    <3>1. /\ th'[k] = th[k] /\ th[k].msg \in Messages /\ th[k].msg # m /\ ToWrite(k) \subseteq Channels
      BY <1>5, <2>2
    <3>2. /\ \A d \in ToWrite(k) : ~Reached(d, th[k].msg)
          /\ \A d \in audience[th[k].msg] \cap open : d \in ToWrite(k) \/ Reached(d, th[k].msg)
          /\ ended[th[k].msg] = "no"
      BY <1>5, <2>2 DEF IInv, WriteInv, ProgressInv
    <3>3. ToWrite(k)' = ToWrite(k)
      BY <3>1 DEF ToWrite
    <3>4. \A d : Reached(d, th[k].msg)' <=> \E n \in Messages : n = th[k].msg /\ Reached(d, n)'
      BY <3>1 DEF Reached, Pending
    <3>5. \A d \in Channels : Reached(d, th[k].msg)' <=> Reached(d, th[k].msg)
      BY <3>1, <3>4
    <3>6. open \subseteq Channels /\ open' = open
      BY <1>1, <1>2 DEF TypeOK
    <3>7. QED
      BY <3>1, <3>2, <3>3, <3>5, <3>6
  <2>3. QED
    BY <2>1, <2>2
<1>11. EndedInv'
  BY <1>3 DEF IInv, WriteInv, EndedInv
<1>12. ReachesAll'
  <2> SUFFICES ASSUME NEW n \in Messages, ended'[n] = "ok", NEW d \in audience'[n] \cap open
               PROVE  Reached(d, n)'
    BY <1>2 DEF ReachesAll, Reached, Pending
  <2>1. d \in Channels
    BY <1>1 DEF TypeOK
  <2>2. CASE n = m
    BY <2>1, <2>2
  <2>3. CASE n # m
    <3>1. Reached(d, n)
      BY <2>3 DEF IInv, ReachesAll, Reached, Pending
    <3>2. QED
      BY <2>1, <2>3, <3>1
  <2>4. QED
    BY <2>2, <2>3
<1>13. QED
  BY <1>6, <1>8, <1>9, <1>10, <1>11, <1>12 DEF WriteInv

\* A message that is not written when it is received.
LEMMA ReceiveQuietly ==
  ASSUME IInv, NEW m \in Messages, Receive(m), UNCHANGED <<traffic, ended>>
  PROVE  /\ PipelineInv' /\ TaskInv' /\ ended[m] = "no" /\ ended'[m] = "no"
         /\ \A d \in Channels, n \in Messages : n # m => (Reached(d, n)' <=> Reached(d, n))
         /\ \A d \in Channels, n \in Messages : n = m => ~Reached(d, n)'
<1>1. /\ sent \in Seq(Messages) /\ ~In(m, sent) /\ sent' = Append(sent, m)
      /\ UNCHANGED <<tasks, outbound, out, ended>>
  BY DEF IInv, TypeOK, Receive, traffic
<1>2. /\ \A n, k : Precedes(sent, n, k) => Precedes(sent', n, k)
      /\ \A seq : Ascending(sent, seq) => Ascending(sent', seq)
      /\ \A queue : AscendingTasks(sent, queue) => AscendingTasks(sent', queue)
  BY <1>1, PrecedesLater, AscendingLater
<1>3. PipelineInv'
  BY <1>1, <1>2 DEF IInv, WriteInv, PipelineInv
<1>4. TaskInv'
  BY <1>1 DEF IInv, WriteInv, TaskInv
<1>5. \A d \in Channels, n \in Messages : Reached(d, n)' <=> Reached(d, n)
  BY <1>1 DEF Reached, Pending
<1>6. \A d \in Channels : ~Reached(d, m)
  BY <1>1 DEF IInv, WriteInv, ReachedInv
<1>7. ended[m] = "no" /\ ended'[m] = "no"
  BY <1>1 DEF IInv, WriteInv, EndedInv
<1>8. QED
  BY <1>3, <1>4, <1>5, <1>6, <1>7

LEMMA IgnoreKeeps ==
  ASSUME IInv, NEW m \in Messages, Ignore(m)
  PROVE  WriteInv' /\ ReachesAll'
<1>1. Receive(m) /\ ~Writes(m) /\ UNCHANGED <<traffic, th, audience, ended>>
  BY DEF Ignore
<1>2. /\ PipelineInv' /\ TaskInv' /\ ended'[m] = "no"
      /\ \A d \in Channels, n \in Messages : n # m => (Reached(d, n)' <=> Reached(d, n))
      /\ \A d \in Channels, n \in Messages : n = m => ~Reached(d, n)'
  BY <1>1, ReceiveQuietly
<1>3. Begun(LoopOf[m.from], m)
  BY <1>1, <1>2 DEF Begun
<1>4. QED
  BY <1>1, <1>2, <1>3, ReceiveKeeps

LEMMA PushMessageKeeps ==
  ASSUME IInv, NEW m \in Messages, PushMessage(m)
  PROVE  WriteInv' /\ ReachesAll'
<1> DEFINE l == LoopOf[m.from]
           a == Addressee(m)
           t == [Idle EXCEPT !.pc = "write", !.msg = m, !.acc = a, !.left = pages[a]]
<1>1. /\ Receive(m) /\ Writes(m) /\ Protocol(m) # "GROUP"
      /\ th' = [th EXCEPT ![l] = t]
      /\ audience' = [audience EXCEPT ![m] = pages[a] \cup {Owner[a]}]
      /\ UNCHANGED <<traffic, ended>>
  BY DEF PushMessage
<1>2. /\ TypeOK /\ l \in Loops /\ th \in [Loops -> Thread]
      /\ audience \in [Messages -> SUBSET Channels]
  BY LoopType DEF IInv, TypeOK
<1>3. a \in Accounts /\ Owner[a] \in Channels
  BY <1>1, <1>2, AddresseeType
<1>4. /\ PipelineInv' /\ TaskInv' /\ ended'[m] = "no"
      /\ \A d \in Channels, n \in Messages : n # m => (Reached(d, n)' <=> Reached(d, n))
      /\ \A d \in Channels, n \in Messages : n = m => ~Reached(d, n)'
  BY <1>1, ReceiveQuietly
<1>5. t.pc = "write" /\ t.msg = m /\ t.acc = a /\ t.left = pages[a] /\ t.to = None
  BY DEF Idle
<1> HIDE DEF t
<1>6. Begun(l, m)
  BY <1>1, <1>2, <1>3, <1>5 DEF Begun, Writes
<1>7. /\ \A k \in Loops : k # l => th'[k] = th[k]
      /\ \A n \in Messages : n # m => ended'[n] = ended[n] /\ audience'[n] = audience[n]
  BY <1>1, <1>2
<1>8. QED
  BY <1>1, <1>4, <1>6, <1>7, ReceiveKeeps

\* The broadcast is written to the channels of the running loop and queued for
\* those of the others.
LEMMA PushGroupMessageKeeps ==
  ASSUME IInv, NEW m \in Messages, PushGroupMessage(m)
  PROVE  WriteInv' /\ ReachesAll'
<1> DEFINE l == LoopOf[m.from]
           group == {c \in open : Bound(c)}
           On(k) == {c \in group : LoopOf[c] = k}
           writes(k) == SetToSeq({<<c, m>> : c \in On(k)})
<1>1. /\ Receive(m) /\ WriteOnLoop(On(l), m) /\ Protocol(m) = "GROUP"
      /\ tasks' = [k \in Loops |-> IF k = l THEN tasks[k] ELSE Queued(k, writes(k))]
      /\ audience' = [audience EXCEPT ![m] = group]
      /\ ended' = [ended EXCEPT ![m] = "ok"]
      /\ UNCHANGED th
  BY DEF PushGroupMessage
<1>2. /\ TypeOK /\ PipelineInv /\ l \in Loops /\ sent \in Seq(Messages)
      /\ tasks \in [Loops -> Seq(Channels \X Messages)]
      /\ audience \in [Messages -> SUBSET Channels] /\ open \subseteq Channels
      /\ ended \in [Messages -> {"no", "ok", "failed"}]
  BY LoopType DEF IInv, WriteInv, TypeOK
<1>3. ~In(m, sent) /\ sent' = Append(sent, m) /\ UNCHANGED <<open, online, pages>>
  BY <1>1 DEF Receive
<1>4. /\ \A n, k : Precedes(sent, n, k) => Precedes(sent', n, k)
      /\ \A n : In(n, sent) => Precedes(sent', n, m)
      /\ \A queue : AscendingTasks(sent, queue) => AscendingTasks(sent', queue)
  BY <1>2, <1>3, PrecedesLater, PrecedesNew, AscendingLater
<1>5. \A d \in Channels, n \in Messages : Reached(d, n) => In(n, sent) /\ n # m /\ Precedes(sent', n, m)
  BY <1>3, <1>4 DEF IInv, WriteInv, ReachedInv
<1>6. On(l) \in SUBSET Channels /\ group \subseteq Channels /\ \A k : On(k) \in SUBSET Channels
  BY <1>2
<1>7. ASSUME NEW k \in Loops
      PROVE  /\ writes(k) \in Seq(Channels \X Messages)
             /\ \A x : In(x, writes(k)) <=> \E c \in On(k) : x = <<c, m>>
             /\ \A i, j \in DOMAIN writes(k) : writes(k)[i] = writes(k)[j] => i = j
  BY <1>2, <1>6, GroupWrites
<1>8. \A k, c : c \in On(k) <=> c \in group /\ LoopOf[c] = k
  OBVIOUS
<1> HIDE DEF writes, On
<1>9. ASSUME NEW k \in Loops
      PROVE  /\ \A d \in Channels, n \in Messages :
                  In(<<d, n>>, writes(k)) <=> d \in group /\ LoopOf[d] = k /\ n = m
             /\ \A x \in Channels \X Messages : In(x, writes(k)) => x[2] = m /\ x[1] \in group
             /\ \A msgs : AscendingTasks(msgs, writes(k))
  <2>1. \A d \in Channels, n \in Messages :
           In(<<d, n>>, writes(k)) <=> d \in group /\ LoopOf[d] = k /\ n = m
    BY <1>7, <1>8
  <2>2. \A x : In(x, writes(k)) => x[2] = m /\ x[1] \in group /\ x = <<x[1], m>>
    BY <1>7, <1>8
  <2>3. ASSUME NEW i \in DOMAIN writes(k), NEW j \in DOMAIN writes(k), i < j,
               writes(k)[i][1] = writes(k)[j][1]
        PROVE  FALSE
    <3>1. writes(k)[i] = writes(k)[j]
      BY <2>2, <2>3 DEF In
    <3>2. i = j /\ i \in Nat
      BY <1>7, <2>3, <3>1, LenProperties
    <3>3. QED
      BY <2>3, <3>2
  <2>4. QED
    BY <2>1, <2>2, <2>3 DEF AscendingTasks
<1>10. \A k \in Loops : tasks'[k] = IF k = l THEN tasks[k] ELSE Queued(k, writes(k))
  BY <1>1
<1>11. ASSUME NEW k \in Loops
       PROVE  /\ \A d \in Channels, n \in Messages : In(<<d, n>>, tasks'[k]) <=>
                   In(<<d, n>>, tasks[k]) \/ (k # l /\ d \in group /\ LoopOf[d] = k /\ n = m)
              /\ AscendingTasks(sent', tasks'[k])
  <2>1. tasks[k] \in Seq(Channels \X Messages) /\ AscendingTasks(sent', tasks[k])
    BY <1>2, <1>4 DEF PipelineInv
  <2>2. CASE k = l
    BY <1>10, <2>1, <2>2
  <2>3. CASE k # l
    <3>1. \A d \in Channels, n \in Messages : In(<<d, n>>, writes(k)) => LoopOf[d] = k
      BY <1>9
    <3>2. \A d \in Channels, n \in Messages :
            In(<<d, n>>, Queued(k, writes(k))) <=> In(<<d, n>>, tasks[k]) \/ In(<<d, n>>, writes(k))
      BY <1>2, <1>7, <3>1, QueuedType
    <3>3. ASSUME NEW x \in Channels \X Messages, NEW y \in Channels \X Messages,
                 In(x, tasks[k]), In(y, writes(k)), x[1] = y[1]
          PROVE  Precedes(sent', x[2], y[2])
      <4>1. /\ y[2] = m /\ x = <<x[1], x[2]>> /\ x[1] \in Channels /\ x[2] \in Messages
        BY <1>9, <3>3
      <4>2. LoopOf[x[1]] = k
        BY <1>2, <3>3, <4>1 DEF TypeOK
      <4>3. Reached(x[1], x[2])
        BY <3>3, <4>1, <4>2 DEF Reached, Pending
      <4>4. QED
        BY <1>5, <4>1, <4>3
    <3>4. AscendingTasks(sent', Queued(k, writes(k)))
      BY <1>7, <1>9, <2>1, <3>3, ConcatAscendingTasks DEF Queued
    <3>5. QED
      BY <1>9, <1>10, <2>3, <3>2, <3>4
  <2>4. QED
    BY <2>2, <2>3
<1>12. \A d \in Channels, n \in Messages : In(<<d, n>>, tasks'[LoopOf[d]]) <=>
          In(<<d, n>>, tasks[LoopOf[d]]) \/ (LoopOf[d] # l /\ d \in group /\ n = m)
  BY <1>11, LoopType DEF LoopOK
<1>13. \A d \in Channels, n \in Messages :
         In(n, out'[d]) \/ In(n, outbound'[d])
           <=> In(n, out[d]) \/ In(n, outbound[d]) \/ (n = m /\ LoopOf[d] = l /\ d \in group)
  <2>1. \A d \in Channels, n \in Messages :
          In(n, out'[d]) \/ In(n, outbound'[d])
            <=> In(n, out[d]) \/ In(n, outbound[d]) \/ (n = m /\ d \in On(l) \cap open)
    BY <1>1, <1>2, <1>6, OnLoopReached
  <2>2. QED
    BY <1>8, <2>1
<1>14. \A d \in Channels, n \in Messages : Reached(d, n)' <=> Reached(d, n) \/ (n = m /\ d \in group)
  BY <1>12, <1>13 DEF Reached, Pending
<1>15. TaskInv'
  BY <1>12 DEF IInv, WriteInv, TaskInv
<1>16. PipelineInv'
  <2>1. \A c \in On(l), n \in Messages :
          In(n, out[c]) \/ In(n, outbound[c]) => Precedes(sent', n, m)
    BY <1>5, <1>6 DEF Reached, Pending
  <2>2. ASSUME NEW c \in Channels, NEW n \in Messages, In(<<c, n>>, tasks'[LoopOf[c]])
        PROVE  /\ \A k \in Messages : In(k, out[c]) \/ In(k, outbound[c]) => Precedes(sent', k, n)
               /\ c \in On(l) => Precedes(sent', m, n)
    <3>1. \A k \in Messages : In(k, out[c]) \/ In(k, outbound[c]) => Reached(c, k)
      BY DEF Reached, Pending
    <3>2. \A k \in Messages : In(k, out[c]) \/ In(k, outbound[c]) => Precedes(sent', k, n)
      <4>1. CASE In(<<c, n>>, tasks[LoopOf[c]])
        BY <1>2, <1>4, <4>1 DEF PipelineInv
      <4>2. CASE n = m
        BY <1>5, <3>1, <4>2
      <4>3. QED
        BY <1>12, <2>2, <4>1, <4>2
    <3>3. ASSUME c \in On(l)
          PROVE  Precedes(sent', m, n)
      <4>1. LoopOf[c] = l /\ In(<<c, n>>, tasks[LoopOf[c]])
        BY <1>8, <1>12, <2>2, <3>3
      <4>2. LoopOf[n.from] # l
        BY <4>1 DEF IInv, WriteInv, TaskInv
      <4>3. QED
        BY <4>2 DEF Precedes
    <3>4. QED
      BY <3>2, <3>3
  <2>3. \A c \in Channels :
           /\ Ascending(sent', out'[c]) /\ Ascending(sent', outbound'[c])
           /\ \A n, k \in Messages : In(n, out'[c]) /\ In(k, outbound'[c]) => Precedes(sent', n, k)
           /\ \A n, k \in Messages :
                (In(n, out'[c]) \/ In(n, outbound'[c])) /\ In(<<c, k>>, tasks'[LoopOf[c]])
                  => Precedes(sent', n, k)
    BY <1>1, <1>2, <1>4, <1>6, <2>1, <2>2, OnLoopPipeline
  <2>4. QED
    BY <1>11, <2>3 DEF PipelineInv
<1>17. Begun(l, m)
  BY <1>1, <1>2 DEF Begun
<1>18. /\ \A n \in Messages : n # m => ended'[n] = ended[n] /\ audience'[n] = audience[n]
       /\ audience'[m] = group
  BY <1>1, <1>2
<1>19. QED
  BY <1>1, <1>14, <1>15, <1>16, <1>17, <1>18, <1>5, ReceiveKeeps

-----------------------------------------------------------------------------
(* Theorems.                                                               *)

\* Nothing has been written at the start.
LEMMA InitInv == Init => IInv
<1> SUFFICES ASSUME Init
             PROVE  IInv
  OBVIOUS
<1>1. TypeOK
  BY InitTypeOK
<1>2. \A x : ~In(x, <<>>)
  BY DEF In
<1>3. /\ \A c \in Channels : out[c] = <<>> /\ outbound[c] = <<>>
      /\ \A l \in Loops : tasks[l] = <<>> /\ LoopIdle(l)
      /\ \A m \in Messages : ended[m] = "no"
  BY DEF Init, Idle, LoopIdle
<1>4. \A c \in Channels, m \in Messages : ~Reached(c, m)
  BY <1>2, <1>3, LoopType DEF Reached, Pending, LoopOK
<1>5. PipelineInv /\ TaskInv
  BY <1>2, <1>3, LoopType DEF PipelineInv, TaskInv, Ascending, AscendingTasks, LoopOK
<1>6. ReachedInv /\ WriterInv /\ LeftInv /\ ProgressInv /\ EndedInv /\ ReachesAll
  BY <1>3, <1>4 DEF ReachedInv, WriterInv, LeftInv, ProgressInv, EndedInv, ReachesAll
<1>7. QED
  BY <1>1, <1>5, <1>6 DEF IInv, WriteInv

\* Every step keeps the invariant.
LEMMA NextInv == IInv /\ [Next]_vars => IInv'
<1> SUFFICES ASSUME IInv, [Next]_vars
             PROVE  WriteInv' /\ ReachesAll'
  BY NextTypeOK DEF IInv
<1>1. CASE UNCHANGED vars
  BY <1>1 DEF vars, IInv, WriteInv, PipelineInv, TaskInv, ReachedInv, WriterInv, LeftInv, ProgressInv,
     EndedInv, ReachesAll, Reached, Pending, Bound, ToWrite, LoopIdle
<1>2. CASE Next
  BY <1>1, <1>2, WriteStepKeeps, RunTaskKeeps, DrainKeeps, CloseKeeps, JoinPageKeeps, LeaveKeeps,
     IgnoreKeeps, PushMessageKeeps, PushGroupMessageKeeps DEF Next, Quiescent
<1>3. QED
  BY <1>1, <1>2

LEMMA Invariant == Spec => []IInv
<1>1. Init => IInv
  BY InitInv
<1>2. IInv /\ [Next]_vars => IInv'
  BY NextInv
<1>3. QED
  BY <1>1, <1>2, PTL DEF Spec

\* WriteInv holds in every state: messages are in order all the way from
\* Session.write() to the client, tasks are writes of other loops, every message
\* is written for its account, and a loop knows what it has still to write.
THEOREM WritesSound == Spec => []WriteInv
<1>1. IInv => WriteInv
  BY DEF IInv
<1>2. QED
  BY <1>1, Invariant, PTL

\* A write that ended without an exception has left no connection out that was
\* in the session from the start to the end (ReachesAll of Session.write() and
\* pushGroupMessage()), whatever joins, leaves and times out meanwhile.
THEOREM NobodyLeftOut == Spec => []ReachesAll
<1>1. IInv => ReachesAll
  BY DEF IInv
<1>2. QED
  BY <1>1, Invariant, PTL

\* A channel gets the messages of a client in the order of the client, although
\* writeAndFlush() of another loop is not waited for longer than five seconds.
THEOREM OrderKept == Spec => []InOrder
<1>1. IInv => InOrder
  <2> SUFFICES ASSUME IInv, NEW c \in Channels, NEW i \in DOMAIN out[c], NEW j \in DOMAIN out[c],
                      i < j, out[c][i].from = out[c][j].from
               PROVE  \E k, n \in DOMAIN sent : k < n /\ sent[k] = out[c][i] /\ sent[n] = out[c][j]
    BY DEF InOrder
  <2>1. Precedes(sent, out[c][i], out[c][j])
    BY DEF IInv, WriteInv, PipelineInv, Ascending
  <2>2. QED
    BY <2>1 DEF Precedes
<1>2. QED
  BY <1>1, Invariant, PTL

\* Only the clients of the receiver of pushMessage() get its message.
THEOREM OnlyTheReceiver == Spec => []ForItsReceiver
<1>1. IInv => ForItsReceiver
  <2> SUFFICES ASSUME IInv, NEW c \in Channels, NEW i \in DOMAIN out[c],
                      Protocol(out[c][i]) # "GROUP"
               PROVE  LET m == out[c][i]
                      IN  Login[c] = IF m.receiver = None \/ m.type = "LK" THEN m.device ELSE m.receiver
    BY DEF ForItsReceiver
  <2> DEFINE m == out[c][i]
  <2>1. m \in Messages
    BY ElementOfSeq, LenProperties DEF IInv, TypeOK
  <2>2. Reached(c, m)
    BY DEF Reached, In
  <2>3. Protocol(m) # "UD" /\ Login[c] = Addressee(m)
    BY <2>1, <2>2 DEF IInv, WriteInv, ReachedInv
  <2>4. QED
    BY <2>3 DEF Protocol, Addressee
<1>2. QED
  BY <1>1, Invariant, PTL

\* One sequence in order behind another.
LEMMA ConcatAscending ==
  ASSUME NEW msgs, NEW S, NEW s \in Seq(S), NEW t \in Seq(S),
         Ascending(msgs, s), Ascending(msgs, t),
         \A x, y \in S : In(x, s) /\ In(y, t) => Precedes(msgs, x, y)
  PROVE  Ascending(msgs, s \o t) /\ IsInjective(s \o t)
<1>1. /\ s \o t \in Seq(S) /\ Len(s \o t) = Len(s) + Len(t)
      /\ \A i \in 1 .. Len(s) + Len(t) :
           (s \o t)[i] = IF i <= Len(s) THEN s[i] ELSE t[i - Len(s)]
      /\ Len(s) \in Nat /\ Len(t) \in Nat
  BY ConcatProperties, LenProperties
<1>2. /\ DOMAIN s = 1 .. Len(s) /\ DOMAIN t = 1 .. Len(t)
      /\ DOMAIN (s \o t) = 1 .. Len(s) + Len(t)
      /\ \A i \in 1 .. Len(s) : s[i] \in S
      /\ \A i \in 1 .. Len(t) : t[i] \in S
  BY <1>1, LenProperties, ElementOfSeq
<1>3. ASSUME NEW i \in 1 .. Len(s) + Len(t), NEW j \in 1 .. Len(s) + Len(t), i < j
      PROVE  Precedes(msgs, (s \o t)[i], (s \o t)[j])
  <2>1. CASE j <= Len(s)
    <3>1. i \in 1 .. Len(s) /\ j \in 1 .. Len(s) /\ (s \o t)[i] = s[i] /\ (s \o t)[j] = s[j]
      BY <1>1, <1>3, <2>1
    <3>2. QED
      BY <1>2, <1>3, <3>1 DEF Ascending
  <2>2. CASE i <= Len(s) /\ ~(j <= Len(s))
    <3>1. /\ i \in 1 .. Len(s) /\ j - Len(s) \in 1 .. Len(t)
          /\ (s \o t)[i] = s[i] /\ (s \o t)[j] = t[j - Len(s)]
      BY <1>1, <1>3, <2>2
    <3>2. In(s[i], s) /\ In(t[j - Len(s)], t)
      BY <1>2, <3>1 DEF In
    <3>3. QED
      BY <1>2, <3>1, <3>2
  <2>3. CASE ~(i <= Len(s)) /\ ~(j <= Len(s))
    <3>1. /\ i - Len(s) \in 1 .. Len(t) /\ j - Len(s) \in 1 .. Len(t)
          /\ i - Len(s) < j - Len(s)
          /\ (s \o t)[i] = t[i - Len(s)] /\ (s \o t)[j] = t[j - Len(s)]
      BY <1>1, <1>3, <2>3
    <3>2. QED
      BY <1>2, <3>1 DEF Ascending
  <2>4. QED
    BY <1>1, <1>3, <2>1, <2>2, <2>3
<1>4. ASSUME NEW i \in 1 .. Len(s) + Len(t), NEW j \in 1 .. Len(s) + Len(t),
             (s \o t)[i] = (s \o t)[j]
      PROVE  i = j
  <2>1. ~(i < j) /\ ~(j < i)
    BY <1>3, <1>4 DEF Precedes
  <2>2. QED
    BY <1>1, <2>1
<1>5. QED
  BY <1>2, <1>3, <1>4 DEF Ascending, IsInjective

\* No channel gets a message twice: not from a writer that has gone on after
\* five seconds, and not from a task and the writer.
THEOREM NothingTwice == Spec => []OnceEach
<1>1. IInv => OnceEach
  <2> SUFFICES ASSUME IInv, NEW c \in Channels
               PROVE  LET taken == out[c] \o outbound[c]
                          queue == tasks[LoopOf[c]]
                      IN  /\ IsInjective(taken) /\ IsInjective(queue)
                          /\ \A m \in Messages : ~(In(m, taken) /\ In(<<c, m>>, queue))
    BY DEF OnceEach
  <2>1. /\ out[c] \in Seq(Messages) /\ outbound[c] \in Seq(Messages) /\ LoopOf[c] \in Loops
        /\ tasks[LoopOf[c]] \in Seq(Channels \X Messages) /\ PipelineInv
    BY LoopType DEF IInv, WriteInv, TypeOK, LoopOK
  <2>2. IsInjective(out[c] \o outbound[c])
    <3>1. /\ Ascending(sent, out[c]) /\ Ascending(sent, outbound[c])
          /\ \A m, n \in Messages : In(m, out[c]) /\ In(n, outbound[c]) => Precedes(sent, m, n)
      BY <2>1 DEF PipelineInv
    <3>2. QED
      BY <2>1, <3>1, ConcatAscending
  <2>3. IsInjective(tasks[LoopOf[c]])
    <3> DEFINE queue == tasks[LoopOf[c]]
    <3>1. AscendingTasks(sent, queue) /\ DOMAIN queue = 1 .. Len(queue)
      BY <2>1, LenProperties DEF PipelineInv
    <3> HIDE DEF queue
    <3>2. ASSUME NEW i \in 1 .. Len(queue), NEW j \in 1 .. Len(queue), queue[i] = queue[j]
          PROVE  i = j
      <4>1. ~(i < j) /\ ~(j < i)
        BY <3>1, <3>2 DEF AscendingTasks, Precedes
      <4>2. QED
        BY <4>1
    <3>3. QED
      BY <3>1, <3>2 DEF IsInjective, queue
  <2>4. \A m \in Messages : ~(In(m, out[c] \o outbound[c]) /\ In(<<c, m>>, tasks[LoopOf[c]]))
    <3>1. \A m : In(m, out[c] \o outbound[c]) <=> In(m, out[c]) \/ In(m, outbound[c])
      BY <2>1, InConcat
    <3>2. QED
      BY <2>1, <3>1 DEF PipelineInv, Precedes
  <2>5. QED
    BY <2>2, <2>3, <2>4
<1>2. QED
  BY <1>1, Invariant, PTL

=============================================================================
