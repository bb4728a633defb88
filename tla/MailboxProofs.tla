--------------------------- MODULE MailboxProofs ---------------------------
(***************************************************************************)
(* Delivery implements Mailboxes: a proof for any channels, loops, accounts*)
(* and messages, step by step.                                             *)
(***************************************************************************)
EXTENDS DeliveryProofs, DeliveryMailboxes

-----------------------------------------------------------------------------
(* Steps of Mailboxes, in terms of what is under way.                      *)

\* What is under way to everybody but channel c stays so.
OthersSame(c, m) ==
  \A d \in Channels, n \in Messages : <<d, n>> # <<c, m>> => (UnderWay(d, n)' <=> UnderWay(d, n))

\* The writing of m ends now, or not yet.
MayEnd(m) == ended' \in {ended, [ended EXCEPT ![m] = "ok"]}

\* A message that is under way is for a reader of it.
LEMMA ForReaders ==
  ASSUME IInv, NEW c \in Channels, NEW m \in Messages, UnderWay(c, m)
  PROVE  c \in MayRead[m] /\ In(m, sent)
<1>1. CASE Pending(c, m)
  <2>1. /\ In(m, sent) /\ Protocol(m) # "UD" /\ Bound(c)
        /\ Protocol(m) # "GROUP" => Login[c] = Addressee(m)
    BY <1>1 DEF IInv, WriteInv, ReachedInv, Reached, UnderWay
  <2>2. QED
    BY <2>1 DEF MayRead, Protocol, Addressee, Members, Bound
<1>2. CASE Writing(c, m)
  <2>1. PICK l \in Loops : /\ ~LoopIdle(l) /\ th[l].msg = m
                           /\ c \in th[l].left \cup {Owner[th[l].acc]}
    BY <1>2 DEF Writing
  <2>2. /\ In(m, sent) /\ Protocol(m) \notin {"UD", "GROUP"} /\ th[l].acc = Addressee(m)
        /\ th[l].left \subseteq Members(th[l].acc)
    BY <2>1 DEF IInv, WriteInv, WriterInv, LeftInv
  <2>3. Owner[th[l].acc] \in Members(th[l].acc)
    BY <2>1, WriterType, OwnerType DEF IInv, Members, TypeOK
  <2>4. Login[c] = Addressee(m)
    BY <2>1, <2>2, <2>3 DEF Members
  <2>5. QED
    BY <2>2, <2>4 DEF MayRead, Protocol, Addressee, Members
<1>3. QED
  BY <1>1, <1>2 DEF UnderWay

\* The message that a loop is writing is the last of its client, and its writing
\* has not ended.
LEMMA WrittenIsLast ==
  ASSUME IInv, NEW l \in Loops, ~LoopIdle(l)
  PROVE  /\ th[l].msg \in Messages /\ In(th[l].msg, sent) /\ LoopOf[th[l].msg.from] = l
         /\ M!IsLast(th[l].msg) /\ ended[th[l].msg] = "no"
         /\ \A n \in Messages : In(n, sent) /\ n.from = th[l].msg.from
              => n = th[l].msg \/ Precedes(sent, n, th[l].msg)
<1>1. PICK m \in Messages : m = th[l].msg
  BY WriterType DEF IInv
<1>2. /\ In(m, sent) /\ LoopOf[m.from] = l /\ ended[m] = "no"
      /\ \A n \in Messages : In(n, sent) /\ n.from = m.from => n = m \/ Precedes(sent, n, m)
  BY <1>1 DEF IInv, WriteInv, WriterInv, ProgressInv
<1>3. M!IsLast(m)
  BY <1>2 DEF M!IsLast, M!Posted, M!Before, In, Precedes
<1>4. QED
  BY <1>1, <1>2, <1>3

\* Only one loop writes a message.
LEMMA OneWriter ==
  ASSUME IInv, NEW l \in Loops, NEW k \in Loops, ~LoopIdle(l), ~LoopIdle(k), th[l].msg = th[k].msg
  PROVE  l = k
BY WrittenIsLast

\* What is being written is not before another message of its client.
LEMMA WriterFollows ==
  ASSUME IInv, NEW c \in Channels, NEW m \in Messages, NEW n \in Messages, In(m, sent),
         n.from = m.from, Writing(c, n)
  PROVE  n = m \/ Precedes(sent, m, n)
<1>1. PICK l \in Loops : ~LoopIdle(l) /\ th[l].msg = n
  BY DEF Writing
<1>2. QED
  BY <1>1, WrittenIsLast

\* A step that hands out a message.
LEMMA HandStep ==
  ASSUME IInv, NEW c \in Channels, NEW m \in Messages, UnderWay(c, m), MayEnd(m),
         UNCHANGED <<open, sent>>, out' = [out EXCEPT ![c] = Append(out[c], m)], OthersSame(c, m),
         \A n \in Messages : UnderWay(c, n) /\ n.from = m.from => n = m \/ Precedes(sent, m, n)
  PROVE  [M!Next]_(M!vars)
<1>1. out \in [Channels -> Seq(Messages)]
  BY DEF IInv, TypeOK
<1>2. In(m, out'[c])
  <2>1. out'[c] = Append(out[c], m) /\ out[c] \in Seq(Messages)
    BY <1>1
  <2>2. QED
    BY <2>1, InAppend
<1>3. ~UnderWay(c, m)'
  BY <1>2 DEF UnderWay
<1>4. /\ Boxes[c] = {n \in Messages : UnderWay(c, n)}
      /\ Boxes' = [d \in Channels |-> {n \in Messages : UnderWay(d, n)'}]
      /\ Boxes = [d \in Channels |-> {n \in Messages : UnderWay(d, n)}]
  BY DEF Boxes
<1>5. ASSUME NEW d \in Channels
      PROVE  {n \in Messages : UnderWay(d, n)'}
               = IF d = c THEN {n \in Messages : UnderWay(d, n)} \ {m}
                 ELSE {n \in Messages : UnderWay(d, n)}
  BY <1>3 DEF OthersSame
<1>6. Boxes' = [Boxes EXCEPT ![c] = Boxes[c] \ {m}]
  BY <1>4, <1>5
<1>7. \A n \in Boxes[c] : n.from = m.from => n = m \/ M!Before(m, n)
  BY <1>4 DEF Precedes, M!Before
<1>8. M!Hand(c, m)
  BY <1>4, <1>6, <1>7 DEF M!Hand, M!MayEnd, MayEnd
<1>9. QED
  BY <1>8 DEF M!Next

\* A step that changes nothing that Mailboxes shows, but perhaps ends the writing
\* of a message.
LEMMA QuietStep ==
  ASSUME IInv, NEW m \in Messages, In(m, sent), ended[m] = "no" \/ ended' = ended, MayEnd(m),
         UNCHANGED <<open, sent, out>>,
         \A d \in Channels, n \in Messages : UnderWay(d, n)' <=> UnderWay(d, n)
  PROVE  [M!Next]_(M!vars)
<1>1. UNCHANGED Boxes
  BY DEF Boxes
<1>2. CASE ended' = ended
  BY <1>1, <1>2 DEF M!vars
<1>3. CASE ended[m] = "no" /\ ended' = [ended EXCEPT ![m] = "ok"]
  <2>1. M!Done(m)
    BY <1>1, <1>3 DEF M!Done, M!Posted, In
  <2>2. QED
    BY <2>1 DEF M!Next
<1>4. QED
  BY <1>2, <1>3 DEF MayEnd

\* The writing of a message fails.
LEMMA FailStep ==
  ASSUME IInv, NEW l \in Loops, ~LoopIdle(l), ended' = [ended EXCEPT ![th[l].msg] = "failed"],
         UNCHANGED <<open, sent, out>>,
         \A d \in Channels, n \in Messages :
           /\ UnderWay(d, n)' => UnderWay(d, n)
           /\ n # th[l].msg /\ UnderWay(d, n) => UnderWay(d, n)'
  PROVE  [M!Next]_(M!vars)
<1>1. PICK m \in Messages : m = th[l].msg
  BY WriterType DEF IInv
<1>2. M!IsLast(m) /\ ended[m] = "no"
  BY <1>1, WrittenIsLast
<1>3. PICK some \in SUBSET Channels : some = {d \in Channels : UnderWay(d, m) /\ ~UnderWay(d, m)'}
  OBVIOUS
<1>4. some \subseteq MayRead[m]
  BY <1>3, ForReaders
<1>5. Boxes = [d \in Channels |-> {n \in Messages : UnderWay(d, n)}]
  BY DEF Boxes
<1>6. Boxes' = [d \in Channels |-> {n \in Messages : UnderWay(d, n)'}]
  BY DEF Boxes
<1>7. \A d \in Channels : UnderWay(d, m)' => UnderWay(d, m)
  BY <1>1
<1>8. ASSUME NEW d \in Channels
      PROVE  {n \in Messages : UnderWay(d, n)'} = IF d \in some THEN Boxes[d] \ {m} ELSE Boxes[d]
  BY <1>1, <1>3, <1>5, <1>7
<1>9. Boxes' = [d \in Channels |-> IF d \in some THEN Boxes[d] \ {m} ELSE Boxes[d]]
  BY <1>6, <1>8
<1>10. M!Fail(m)
  BY <1>1, <1>2, <1>4, <1>9 DEF M!Fail
<1>11. QED
  BY <1>10 DEF M!Next

-----------------------------------------------------------------------------
(* The steps of Session.write.                                             *)

\* Whom the other loops are writing to.
OthersWrite(l) ==
  \A d \in Channels, n \in Messages : n # th[l].msg => (Writing(d, n)' <=> Writing(d, n))

\* A write that ends leaves the writes of other loops alone.
LEMMA FinishWriting ==
  ASSUME IInv, NEW l \in Loops, ~LoopIdle(l), NEW how \in {"ok", "failed"}, Finish(l, how)
  PROVE  /\ OthersWrite(l)
         /\ \A d \in Channels, n \in Messages : n = th[l].msg => ~Writing(d, n)'
         /\ ended' = [ended EXCEPT ![th[l].msg] = how]
<1>1. /\ th' = [th EXCEPT ![l] = Idle] /\ th \in [Loops -> Thread]
      /\ ended' = [ended EXCEPT ![th[l].msg] = how]
  BY DEF Finish, IInv, TypeOK
<1>2. th'[l].pc = "idle" /\ \A k \in Loops : k # l => th'[k] = th[k]
  BY <1>1 DEF Idle
<1>3. PICK m \in Messages : m = th[l].msg
  BY WriterType DEF IInv
<1>4. \A k \in Loops : ~LoopIdle(k) /\ th[k].msg = m => k = l
  BY <1>3, OneWriter
<1>5. ASSUME NEW d \in Channels, NEW n \in Messages
      PROVE  (Writing(d, n)' <=> Writing(d, n)) \/ n = m
  BY <1>2, <1>3 DEF Writing, LoopIdle
<1>6. ASSUME NEW d \in Channels
      PROVE  ~Writing(d, m)'
  BY <1>2, <1>4 DEF Writing, LoopIdle
<1>7. QED
  BY <1>1, <1>3, <1>5, <1>6 DEF OthersWrite

\* A write that goes on after channel c leaves all others alone; when it ends
\* there are no others.
LEMMA GoOnWriting ==
  ASSUME IInv, NEW l \in Loops, ~LoopIdle(l), NEW c \in Channels, GoOn(l, c),
         c \in th[l].left \/ (c = Owner[th[l].acc] /\ th[l].left = {}),
         NEW m \in Messages, m = th[l].msg
  PROVE  /\ \A d \in Channels, n \in Messages :
              <<d, n>> # <<c, m>> => (Writing(d, n)' <=> Writing(d, n))
         /\ MayEnd(m)
<1>1. CASE c = Owner[th[l].acc]
  <2>1. Finish(l, "ok")
    BY <1>1 DEF GoOn
  <2>2. /\ OthersWrite(l) /\ ended' = [ended EXCEPT ![m] = "ok"]
        /\ \A d \in Channels, n \in Messages : n = m => ~Writing(d, n)'
    BY <2>1, FinishWriting
  <2>3. th[l].left = {}
    BY <1>1 DEF IInv, WriteInv, LeftInv
  <2>4. \A d \in Channels, n \in Messages : n = m /\ d # c => ~Writing(d, n)
    BY <1>1, <2>3, OneWriter DEF Writing
  <2>5. QED
    BY <2>2, <2>4 DEF OthersWrite, MayEnd
<1>2. CASE c # Owner[th[l].acc]
  <2>1. /\ th' = [th EXCEPT ![l].pc = "write", ![l].left = @ \ {c}, ![l].to = None]
        /\ UNCHANGED ended /\ th \in [Loops -> Thread]
    BY <1>2 DEF GoOn, IInv, TypeOK
  <2>2. /\ th'[l].pc = "write" /\ th'[l].left = th[l].left \ {c}
        /\ th'[l].msg = th[l].msg /\ th'[l].acc = th[l].acc
        /\ \A k \in Loops : k # l => th'[k] = th[k]
    BY <2>1 DEF Thread
  <2>3. ASSUME NEW d \in Channels, NEW n \in Messages, <<d, n>> # <<c, m>>
        PROVE  Writing(d, n)' <=> Writing(d, n)
    BY <2>2, <2>3 DEF Writing, LoopIdle
  <2>4. QED
    BY <2>1, <2>3 DEF MayEnd
<1>3. QED
  BY <1>1, <1>2

\* A loop that waits has written to the channel that it waits for.
WaitInv ==
  \A l \in Loops, c \in Channels, m \in Messages :
    th[l].pc = "wait" /\ th[l].to = c /\ th[l].msg = m /\ c \in open => Reached(c, m)

\* Session.write() goes on after channel c, to which nothing has to be written
\* any more, or to which the message has been written but not by Netty.
LEMMA GoOnStep ==
  ASSUME IInv, NEW l \in Loops, ~LoopIdle(l), NEW c \in Channels, GoOn(l, c),
         c \in th[l].left \/ (c = Owner[th[l].acc] /\ th[l].left = {}),
         UNCHANGED <<open, sent, out, tasks, outbound>>,
         NEW m \in Messages, m = th[l].msg, c \notin open \/ Reached(c, m)
  PROVE  [M!Next]_(M!vars)
<1>1. /\ \A d \in Channels, n \in Messages :
           <<d, n>> # <<c, m>> => (Writing(d, n)' <=> Writing(d, n))
      /\ MayEnd(m)
  BY GoOnWriting
<1>2. \A d \in Channels, n \in Messages : Pending(d, n)' <=> Pending(d, n)
  BY DEF Pending
<1>3. \A d \in Channels, n \in Messages : UnderWay(d, n)' <=> UnderWay(d, n)
  <2>1. \A d \in Channels, n \in Messages :
          <<d, n>> # <<c, m>> => (UnderWay(d, n)' <=> UnderWay(d, n))
    BY <1>1, <1>2 DEF UnderWay
  <2>2. UnderWay(c, m)' <=> UnderWay(c, m)
    BY <1>2 DEF UnderWay, Reached
  <2>3. QED
    BY <2>1, <2>2
<1>4. In(m, sent) /\ ended[m] = "no"
  BY WrittenIsLast
<1>5. QED
  BY <1>1, <1>3, <1>4, QuietStep

\* A write to one channel of the running loop.
LEMMA OneOnLoop ==
  ASSUME TypeOK, NEW c \in Channels, NEW m \in Messages, WriteOnLoop({c}, m)
  PROVE  /\ out' \in [Channels -> Seq(Messages)] /\ outbound' \in [Channels -> Seq(Messages)]
         /\ out \in [Channels -> Seq(Messages)] /\ outbound \in [Channels -> Seq(Messages)]
         /\ \A d \in Channels : d # c => out'[d] = out[d] /\ outbound'[d] = outbound[d]
         /\ \/ c \notin open /\ out'[c] = out[c] /\ outbound'[c] = outbound[c]
            \/ /\ c \in open /\ outbound[c] = <<>>
               /\ out'[c] = Append(out[c], m) /\ outbound'[c] = outbound[c]
            \/ c \in open /\ out'[c] = out[c] /\ outbound'[c] = Append(outbound[c], m)
<1>1. {c} \in SUBSET Channels
  OBVIOUS
<1>2. \A d \in Channels :
        \/ d \notin {c} \cap open /\ out'[d] = out[d] /\ outbound'[d] = outbound[d]
        \/ /\ d \in {c} \cap open /\ outbound[d] = <<>>
           /\ out'[d] = Append(out[d], m) /\ outbound'[d] = outbound[d]
        \/ d \in {c} \cap open /\ out'[d] = out[d] /\ outbound'[d] = Append(outbound[d], m)
  BY <1>1, OnLoop
<1>3. out' \in [Channels -> Seq(Messages)] /\ outbound' \in [Channels -> Seq(Messages)]
  BY <1>1, OnLoop
<1>4. QED
  BY <1>2, <1>3 DEF TypeOK

\* A write to a channel of another loop.
LEMMA OneTask ==
  ASSUME TypeOK, NEW c \in Channels, NEW m \in Messages,
         tasks' = [tasks EXCEPT ![LoopOf[c]] = Queued(LoopOf[c], << <<c, m>> >>)]
  PROVE  \A d \in Channels, n \in Messages :
           In(<<d, n>>, tasks'[LoopOf[d]]) <=> In(<<d, n>>, tasks[LoopOf[d]]) \/ (d = c /\ n = m)
<1>1. PICK k \in Loops : k = LoopOf[c]
  BY LoopType DEF LoopOK
<1>2. PICK writes \in Seq(Channels \X Messages) :
        writes = << <<c, m>> >> /\ \A x : In(x, writes) <=> x = <<c, m>>
  BY OneWrite
<1>3. \A d \in Channels, n \in Messages : In(<<d, n>>, writes) => LoopOf[d] = k
  BY <1>1, <1>2
<1>4. \A d \in Channels, n \in Messages :
        In(<<d, n>>, Queued(k, writes)) <=> In(<<d, n>>, tasks[k]) \/ In(<<d, n>>, writes)
  BY <1>3, QueuedType
<1>5. \A i \in Loops : tasks'[i] = IF i = k THEN Queued(k, writes) ELSE tasks[i]
  BY <1>1, <1>2 DEF TypeOK
<1>6. ASSUME NEW d \in Channels, NEW n \in Messages
      PROVE  In(<<d, n>>, tasks'[LoopOf[d]]) <=> In(<<d, n>>, tasks[LoopOf[d]]) \/ (d = c /\ n = m)
  <2>1. LoopOf[d] \in Loops
    BY LoopType DEF LoopOK
  <2>2. CASE LoopOf[d] = k
    BY <1>2, <1>4, <1>5, <2>2
  <2>3. CASE LoopOf[d] # k
    BY <1>1, <1>5, <2>1, <2>3
  <2>4. QED
    BY <2>2, <2>3
<1>7. QED
  BY <1>6
\* A write to channel c of the running loop, or to a channel of another one.
LEMMA WriteToStep ==
  ASSUME IInv, NEW l \in Loops, th[l].pc = "write", NEW c \in Channels, WriteTo(l, c),
         UNCHANGED <<open, sent>>,
         c \in th[l].left \/ (c = Owner[th[l].acc] /\ th[l].left = {})
  PROVE  [M!Next]_(M!vars)
<1>1. TypeOK /\ ~LoopIdle(l)
  BY DEF IInv, LoopIdle
<1>2. PICK m \in Messages : m = th[l].msg
  BY <1>1, WriterType
<1>3. In(m, sent) /\ ended[m] = "no" /\ LoopOf[m.from] = l
  BY <1>1, <1>2, WrittenIsLast
<1>4. ~Reached(c, m)
  <2>1. th[l].to = None /\ c # None
    BY <1>1, DeliveryAssumption DEF IInv, WriteInv, LeftInv, DeliveryAssumption
  <2>2. c \in ToWrite(l)
    BY <2>1 DEF ToWrite
  <2>3. QED
    BY <1>1, <1>2, <2>2 DEF IInv, WriteInv, ProgressInv
<1>5. Writing(c, m)
  BY <1>1, <1>2 DEF Writing
<1>6. /\ out[c] \in Seq(Messages) /\ outbound[c] \in Seq(Messages)
      /\ out \in [Channels -> Seq(Messages)] /\ outbound \in [Channels -> Seq(Messages)]
  BY <1>1 DEF TypeOK
<1>7. ASSUME LoopOf[c] = l, WriteOnLoop({c}, m), UNCHANGED tasks,
             IF In(m, outbound'[c]) THEN Finish(l, "failed") ELSE GoOn(l, c)
      PROVE  [M!Next]_(M!vars)
  <2>1. /\ out' \in [Channels -> Seq(Messages)] /\ outbound' \in [Channels -> Seq(Messages)]
        /\ \A d \in Channels : d # c => out'[d] = out[d] /\ outbound'[d] = outbound[d]
        /\ \/ c \notin open /\ out'[c] = out[c] /\ outbound'[c] = outbound[c]
           \/ /\ c \in open /\ outbound[c] = <<>>
              /\ out'[c] = Append(out[c], m) /\ outbound'[c] = outbound[c]
           \/ c \in open /\ out'[c] = out[c] /\ outbound'[c] = Append(outbound[c], m)
    BY <1>1, <1>7, OneOnLoop
  <2>2. CASE c \notin open /\ out'[c] = out[c] /\ outbound'[c] = outbound[c]
    <3>1. ~In(m, outbound'[c])
      BY <1>4, <2>2 DEF Reached, Pending
    <3>2. GoOn(l, c) /\ out' = out /\ outbound' = outbound
      BY <1>6, <1>7, <2>1, <2>2, <3>1
    <3>3. QED
      BY <1>1, <1>2, <1>7, <2>2, <3>2, GoOnStep
  <2>3. CASE /\ c \in open /\ outbound[c] = <<>>
             /\ out'[c] = Append(out[c], m) /\ outbound'[c] = outbound[c]
    <3>1. ~In(m, outbound'[c]) /\ \A n : ~In(n, outbound[c])
      BY <2>3 DEF In
    <3>2. /\ GoOn(l, c) /\ outbound' = outbound
          /\ out' = [out EXCEPT ![c] = Append(out[c], m)]
      BY <1>6, <1>7, <2>1, <2>3, <3>1
    <3>3. /\ \A d \in Channels, n \in Messages :
               <<d, n>> # <<c, m>> => (Writing(d, n)' <=> Writing(d, n))
          /\ MayEnd(m)
      BY <1>1, <1>2, <3>2, GoOnWriting
    <3>4. \A d \in Channels, n \in Messages : Pending(d, n)' <=> Pending(d, n)
      BY <1>7, <3>2 DEF Pending
    <3>5. \A d \in Channels, n \in Messages :
            <<d, n>> # <<c, m>> => (In(n, out'[d]) <=> In(n, out[d]))
      <4>1. \A n : In(n, Append(out[c], m)) <=> In(n, out[c]) \/ n = m
        BY <1>6, InAppend
      <4>2. QED
        BY <2>1, <2>3, <4>1
    <3>6. OthersSame(c, m)
      BY <3>3, <3>4, <3>5 DEF OthersSame, UnderWay
    <3>7. UnderWay(c, m)
      BY <1>4, <1>5, <2>3 DEF UnderWay, Reached
    <3>8. ASSUME NEW n \in Messages, UnderWay(c, n), n.from = m.from
          PROVE  n = m \/ Precedes(sent, m, n)
      <4>1. ~Pending(c, n)
        BY <1>3, <1>7, <3>1, <3>8 DEF Pending, IInv, WriteInv, TaskInv
      <4>2. QED
        BY <1>3, <3>8, <4>1, WriterFollows DEF UnderWay
    <3>9. QED
      BY <3>2, <3>3, <3>6, <3>7, <3>8, HandStep
  <2>4. CASE c \in open /\ out'[c] = out[c] /\ outbound'[c] = Append(outbound[c], m)
    <3>1. \A n : In(n, outbound'[c]) <=> In(n, outbound[c]) \/ n = m
      BY <1>6, <2>4, InAppend
    <3>2. Finish(l, "failed") /\ out' = out
      BY <1>6, <1>7, <2>1, <2>4, <3>1
    <3>3. /\ OthersWrite(l) /\ ended' = [ended EXCEPT ![th[l].msg] = "failed"]
          /\ \A d \in Channels, n \in Messages : n = th[l].msg => ~Writing(d, n)'
      BY <1>1, <3>2, FinishWriting
    <3>4. \A d \in Channels, n \in Messages : Pending(d, n)' <=> Pending(d, n) \/ (d = c /\ n = m)
      BY <1>7, <2>1, <3>1 DEF Pending
    <3>5. ASSUME NEW d \in Channels, NEW n \in Messages
          PROVE  /\ UnderWay(d, n)' => UnderWay(d, n)
                 /\ n # th[l].msg /\ UnderWay(d, n) => UnderWay(d, n)'
      BY <1>2, <1>4, <1>5, <2>4, <3>2, <3>3, <3>4 DEF UnderWay, OthersWrite, Reached
    <3>6. QED
      BY <1>1, <3>2, <3>3, <3>5, FailStep
  <2>5. QED
    BY <2>1, <2>2, <2>3, <2>4
<1>8. ASSUME tasks' = [tasks EXCEPT ![LoopOf[c]] = Queued(LoopOf[c], << <<c, m>> >>)],
             th' = [th EXCEPT ![l].pc = "wait", ![l].to = c],
             UNCHANGED <<outbound, out, ended>>
      PROVE  [M!Next]_(M!vars)
  <2>1. /\ LoopOf[c] \in Loops /\ tasks \in [Loops -> Seq(Channels \X Messages)]
        /\ th \in [Loops -> Thread]
    BY <1>1, LoopType DEF TypeOK, LoopOK
  <2>2. \A d \in Channels, n \in Messages : Pending(d, n)' <=> Pending(d, n) \/ (d = c /\ n = m)
    <3>1. \A d \in Channels, n \in Messages :
            In(<<d, n>>, tasks'[LoopOf[d]])
              <=> In(<<d, n>>, tasks[LoopOf[d]]) \/ (d = c /\ n = m)
      BY <1>1, <1>8, OneTask
    <3>2. QED
      BY <1>8, <3>1 DEF Pending
  <2>3. /\ th'[l].pc = "wait" /\ th'[l].msg = th[l].msg /\ th'[l].acc = th[l].acc
        /\ th'[l].left = th[l].left /\ \A k \in Loops : k # l => th'[k] = th[k]
    BY <1>8, <2>1 DEF Thread
  <2>4. \A d \in Channels, n \in Messages : Writing(d, n)' <=> Writing(d, n)
    BY <1>1, <2>3 DEF Writing, LoopIdle
  <2>5. \A d \in Channels, n \in Messages : UnderWay(d, n)' <=> UnderWay(d, n)
    BY <1>5, <1>8, <2>2, <2>4 DEF UnderWay
  <2>6. QED
    BY <1>3, <1>8, <2>5, QuietStep DEF MayEnd
<1>9. QED
  BY <1>2, <1>7, <1>8 DEF WriteTo

\* Every step of Session.write.
LEMMA WriteStepStep ==
  ASSUME IInv, WaitInv, NEW l \in Loops, WriteStep(l)
  PROVE  [M!Next]_(M!vars)
<1>1. TypeOK /\ ~LoopIdle(l) /\ UNCHANGED <<open, online, pages, sent, audience>>
  BY DEF IInv, WriteStep, WritePage, IterationFails, WriteOwn, WriteDone, WaitTimeout, LoopIdle
<1>2. /\ th[l].left \subseteq Channels /\ Owner[th[l].acc] \in Channels
      /\ th[l].pc = "wait" => th[l].to \in Channels
  BY <1>1, WriterType
<1>3. PICK m \in Messages : m = th[l].msg
  BY <1>1, WriterType
<1>4. CASE WritePage(l)
  <2>1. PICK c \in th[l].left : IF c \in pages[th[l].acc] THEN WriteTo(l, c)
                                ELSE GoOn(l, c) /\ UNCHANGED traffic
    BY <1>4 DEF WritePage
  <2>2. th[l].pc = "write" /\ c \in Channels
    BY <1>2, <1>4 DEF WritePage
  <2>3. CASE c \in pages[th[l].acc]
    BY <1>1, <2>1, <2>2, <2>3, WriteToStep
  <2>4. CASE c \notin pages[th[l].acc]
    <3>1. GoOn(l, c) /\ UNCHANGED <<out, tasks, outbound>>
      BY <2>1, <2>4 DEF traffic
    <3>2. c \notin open
      BY <1>1, <2>4 DEF IInv, WriteInv, LeftInv
    <3>3. QED
      BY <1>1, <1>3, <2>2, <3>1, <3>2, GoOnStep
  <2>5. QED
    BY <2>3, <2>4
<1>5. CASE IterationFails(l)
  <2>1. Finish(l, "failed") /\ UNCHANGED <<out, tasks, outbound>>
    BY <1>5 DEF IterationFails, traffic
  <2>2. /\ OthersWrite(l) /\ ended' = [ended EXCEPT ![th[l].msg] = "failed"]
        /\ \A d \in Channels, n \in Messages : n = th[l].msg => ~Writing(d, n)'
    BY <1>1, <2>1, FinishWriting
  <2>3. \A d \in Channels, n \in Messages : Pending(d, n)' <=> Pending(d, n)
    BY <2>1 DEF Pending
  <2>4. ASSUME NEW d \in Channels, NEW n \in Messages
        PROVE  /\ UnderWay(d, n)' => UnderWay(d, n)
               /\ n # th[l].msg /\ UnderWay(d, n) => UnderWay(d, n)'
    BY <1>1, <2>1, <2>2, <2>3 DEF UnderWay, OthersWrite
  <2>5. QED
    BY <1>1, <2>1, <2>2, <2>4, FailStep
<1>6. CASE WriteOwn(l)
  <2>1. PICK c \in Channels : c = Owner[th[l].acc]
    BY <1>2
  <2>2. th[l].pc = "write" /\ WriteTo(l, c) /\ th[l].left = {}
    BY <1>6, <2>1 DEF WriteOwn
  <2>3. QED
    BY <1>1, <2>1, <2>2, WriteToStep
<1>7. CASE WriteDone(l) \/ WaitTimeout(l)
  <2>1. th[l].pc = "wait"
    BY <1>7 DEF WriteDone, WaitTimeout
  <2>2. PICK c \in Channels : c = th[l].to
    BY <1>2, <2>1
  <2>3. GoOn(l, c) /\ UNCHANGED <<out, tasks, outbound>>
    BY <1>7, <2>2 DEF WriteDone, WaitTimeout, traffic
  <2>4. c \in th[l].left \/ (c = Owner[th[l].acc] /\ th[l].left = {})
    BY <1>1, <2>1, <2>2 DEF IInv, WriteInv, LeftInv
  <2>5. c \notin open \/ Reached(c, m)
    BY <1>3, <2>1, <2>2 DEF WaitInv
  <2>6. QED
    BY <1>1, <1>3, <2>3, <2>4, <2>5, GoOnStep
<1>8. QED
  BY <1>4, <1>5, <1>6, <1>7 DEF WriteStep

-----------------------------------------------------------------------------
(* The steps of Netty and of the peers.                                    *)

\* What the loop runs as a task is handed out, or goes into a buffer, or is for a
\* channel that has closed.
LEMMA RunTaskStep ==
  ASSUME IInv, NEW l \in Loops, RunTask(l)
  PROVE  [M!Next]_(M!vars)
<1>1. PICK c, m : c = Head(tasks[l])[1] /\ m = Head(tasks[l])[2]
  OBVIOUS
<1>2. /\ tasks[l] # <<>> /\ tasks' = [tasks EXCEPT ![l] = Tail(tasks[l])]
      /\ WriteOnLoop({c}, m)
      /\ UNCHANGED <<open, online, pages, sent, th, audience, ended>>
  BY <1>1 DEF RunTask
<1>3. TypeOK /\ PipelineInv
  BY DEF IInv, WriteInv
<1>4. /\ c \in Channels /\ m \in Messages /\ LoopOf[c] = l
      /\ \A x : In(x, tasks[l]) <=> x = <<c, m>> \/ In(x, Tail(tasks[l]))
  BY <1>1, <1>2, <1>3, HeadTask
<1>5. \A n \in Messages : In(<<c, n>>, tasks[l]) => n = m \/ Precedes(sent, m, n)
  <2>1. tasks[l] \in Seq(Channels \X Messages) /\ AscendingTasks(sent, tasks[l])
    BY <1>3 DEF PipelineInv, TypeOK
  <2>2. \A x : In(x, Tail(tasks[l])) /\ x[1] = c => Precedes(sent, m, x[2])
    BY <1>1, <1>2, <2>1, TailAscendingTasks
  <2>3. QED
    BY <1>4, <2>2
<1>6. \A d \in Channels, n \in Messages : Writing(d, n)' <=> Writing(d, n)
  BY <1>2 DEF Writing, LoopIdle
<1>7. \A d \in Channels, n \in Messages : <<d, n>> # <<c, m>> =>
        (In(<<d, n>>, tasks'[LoopOf[d]]) <=> In(<<d, n>>, tasks[LoopOf[d]]))
  BY <1>2, <1>3, <1>4, LoopType DEF TypeOK, LoopOK
<1>8. /\ out' \in [Channels -> Seq(Messages)] /\ outbound' \in [Channels -> Seq(Messages)]
      /\ out \in [Channels -> Seq(Messages)] /\ outbound \in [Channels -> Seq(Messages)]
      /\ \A d \in Channels : d # c => out'[d] = out[d] /\ outbound'[d] = outbound[d]
      /\ \/ c \notin open /\ out'[c] = out[c] /\ outbound'[c] = outbound[c]
         \/ /\ c \in open /\ outbound[c] = <<>>
            /\ out'[c] = Append(out[c], m) /\ outbound'[c] = outbound[c]
         \/ c \in open /\ out'[c] = out[c] /\ outbound'[c] = Append(outbound[c], m)
  BY <1>2, <1>3, <1>4, OneOnLoop
<1>9. Pending(c, m) /\ In(m, sent) /\ ~In(m, out[c])
  BY <1>3, <1>4 DEF Pending, PipelineInv, Precedes, Reached, ReachedInv, IInv, WriteInv
<1>10. CASE c \notin open /\ out'[c] = out[c] /\ outbound'[c] = outbound[c]
  <2>1. out' = out /\ outbound' = outbound
    BY <1>8, <1>10
  <2>2. ASSUME NEW d \in Channels, NEW n \in Messages
        PROVE  UnderWay(d, n)' <=> UnderWay(d, n)
    BY <1>2, <1>6, <1>7, <1>10, <2>1 DEF UnderWay, Pending
  <2>3. QED
    BY <1>2, <1>4, <1>9, <2>1, <2>2, QuietStep DEF MayEnd
<1>11. CASE /\ c \in open /\ outbound[c] = <<>>
            /\ out'[c] = Append(out[c], m) /\ outbound'[c] = outbound[c]
  <2>1. out' = [out EXCEPT ![c] = Append(out[c], m)] /\ outbound' = outbound
    BY <1>8, <1>11
  <2>2. \A n : In(n, Append(out[c], m)) <=> In(n, out[c]) \/ n = m
    BY <1>4, <1>8, InAppend
  <2>3. \A d \in Channels, n \in Messages :
          <<d, n>> # <<c, m>> => (In(n, out'[d]) <=> In(n, out[d]))
    BY <1>8, <1>11, <2>2
  <2>4. OthersSame(c, m)
    BY <1>2, <1>6, <1>7, <2>1, <2>3 DEF OthersSame, UnderWay, Pending
  <2>5. UnderWay(c, m)
    BY <1>9, <1>11 DEF UnderWay
  <2>6. ASSUME NEW n \in Messages, UnderWay(c, n), n.from = m.from
        PROVE  n = m \/ Precedes(sent, m, n)
    <3>1. ~In(n, outbound[c])
      BY <1>11 DEF In
    <3>2. CASE Pending(c, n)
      BY <1>4, <1>5, <3>1, <3>2 DEF Pending
    <3>3. CASE Writing(c, n)
      BY <1>4, <1>9, <2>6, <3>3, WriterFollows
    <3>4. QED
      BY <2>6, <3>2, <3>3 DEF UnderWay
  <2>7. QED
    BY <1>2, <1>4, <2>1, <2>4, <2>5, <2>6, HandStep DEF MayEnd
<1>12. CASE c \in open /\ out'[c] = out[c] /\ outbound'[c] = Append(outbound[c], m)
  <2>1. out' = out
    BY <1>8, <1>12
  <2>2. \A n : In(n, outbound'[c]) <=> In(n, outbound[c]) \/ n = m
    BY <1>4, <1>8, <1>12, InAppend
  <2>3. \A d \in Channels, n \in Messages :
          <<d, n>> # <<c, m>> => (In(n, outbound'[d]) <=> In(n, outbound[d]))
    BY <1>8, <1>12, <2>2
  <2>4. \A d \in Channels, n \in Messages : Pending(d, n)' <=> Pending(d, n)
    <3>1. Pending(c, m)'
      BY <1>4, <2>2 DEF Pending
    <3>2. QED
      BY <1>7, <1>9, <2>3, <3>1 DEF Pending
  <2>5. \A d \in Channels, n \in Messages : UnderWay(d, n)' <=> UnderWay(d, n)
    BY <1>2, <1>6, <2>1, <2>4 DEF UnderWay
  <2>6. QED
    BY <1>2, <1>4, <1>9, <2>1, <2>5, QuietStep DEF MayEnd
<1>13. QED
  BY <1>8, <1>10, <1>11, <1>12

\* The first message of an outbound buffer is handed out.
LEMMA DrainStep ==
  ASSUME IInv, NEW c \in Channels, Drain(c)
  PROVE  [M!Next]_(M!vars)
<1>1. PICK m : m = Head(outbound[c])
  OBVIOUS
<1>2. /\ outbound[c] # <<>> /\ out' = [out EXCEPT ![c] = Append(out[c], m)]
      /\ outbound' = [outbound EXCEPT ![c] = Tail(outbound[c])]
      /\ UNCHANGED <<open, online, pages, tasks, sent, th, audience, ended>>
  BY <1>1 DEF Drain
<1>3. /\ TypeOK /\ PipelineInv /\ out[c] \in Seq(Messages) /\ outbound[c] \in Seq(Messages)
      /\ c \in open /\ out \in [Channels -> Seq(Messages)]
      /\ outbound \in [Channels -> Seq(Messages)]
  BY <1>2 DEF IInv, WriteInv, TypeOK
<1>4. /\ m \in Messages
      /\ \A x : In(x, outbound[c]) <=> x = m \/ In(x, Tail(outbound[c]))
      /\ \A x : In(x, Append(out[c], m)) <=> In(x, out[c]) \/ x = m
  BY <1>1, <1>2, <1>3, InTail, InAppend
<1>5. /\ In(m, outbound[c]) /\ ~In(m, out[c]) /\ In(m, sent)
      /\ \A n \in Messages : In(n, outbound[c]) => n = m \/ Precedes(sent, m, n)
      /\ \A n \in Messages : In(<<c, n>>, tasks[LoopOf[c]]) => Precedes(sent, m, n)
  <2>1. Ascending(sent, outbound[c])
    BY <1>3 DEF PipelineInv
  <2>2. \A x : In(x, Tail(outbound[c])) => Precedes(sent, m, x)
    BY <1>1, <1>2, <1>3, <2>1, TailAscending
  <2>3. In(m, outbound[c])
    BY <1>4
  <2>4. ~In(m, out[c])
    BY <1>3, <1>4, <2>3 DEF PipelineInv, Precedes
  <2>5. In(m, sent)
    BY <1>4, <2>3 DEF Reached, Pending, ReachedInv, IInv, WriteInv
  <2>6. \A n \in Messages : In(<<c, n>>, tasks[LoopOf[c]]) => Precedes(sent, m, n)
    BY <1>3, <1>4, <2>3 DEF PipelineInv
  <2>7. QED
    BY <1>4, <2>2, <2>3, <2>4, <2>5, <2>6
<1>6. \A d \in Channels : /\ out'[d] = IF d = c THEN Append(out[c], m) ELSE out[d]
                          /\ outbound'[d] = IF d = c THEN Tail(outbound[c]) ELSE outbound[d]
  BY <1>2, <1>3
<1>7. OthersSame(c, m)
  <2>1. \A d \in Channels, n \in Messages : Writing(d, n)' <=> Writing(d, n)
    BY <1>2 DEF Writing, LoopIdle
  <2>2. \A d \in Channels, n \in Messages : <<d, n>> # <<c, m>> =>
          /\ In(n, out'[d]) <=> In(n, out[d])
          /\ In(n, outbound'[d]) <=> In(n, outbound[d])
    BY <1>4, <1>6
  <2>3. QED
    BY <1>2, <2>1, <2>2 DEF OthersSame, UnderWay, Pending
<1>8. UnderWay(c, m)
  BY <1>3, <1>5 DEF UnderWay, Pending
<1>9. ASSUME NEW n \in Messages, UnderWay(c, n), n.from = m.from
      PROVE  n = m \/ Precedes(sent, m, n)
  <2>1. CASE Pending(c, n)
    BY <1>5, <2>1 DEF Pending
  <2>2. CASE Writing(c, n)
    BY <1>4, <1>5, <1>9, <2>2, WriterFollows
  <2>3. QED
    BY <1>9, <2>1, <2>2 DEF UnderWay
<1>10. QED
  BY <1>2, <1>4, <1>7, <1>8, <1>9, HandStep DEF MayEnd

\* With the peer its mailbox goes.
LEMMA CloseStep ==
  ASSUME IInv, NEW c \in Channels, Close(c)
  PROVE  [M!Next]_(M!vars)
<1>1. /\ c \in open /\ open' = open \ {c} /\ outbound' = [outbound EXCEPT ![c] = <<>>]
      /\ UNCHANGED <<online, pages, tasks, out, sent, th, audience, ended>>
  BY DEF Close
<1>2. outbound \in [Channels -> Seq(Messages)]
  BY DEF IInv, TypeOK
<1>3. \A d \in Channels, n \in Messages : Writing(d, n)' <=> Writing(d, n)
  BY <1>1 DEF Writing, LoopIdle
<1>4. \A d \in Channels : d # c => outbound'[d] = outbound[d]
  BY <1>1, <1>2
<1>5. \A d \in Channels, n \in Messages : UnderWay(d, n)' <=> UnderWay(d, n) /\ d # c
  BY <1>1, <1>3, <1>4 DEF UnderWay, Pending
<1>6. Boxes' = [d \in Channels |-> {n \in Messages : UnderWay(d, n)'}]
  BY DEF Boxes
<1>7. Boxes = [d \in Channels |-> {n \in Messages : UnderWay(d, n)}]
  BY DEF Boxes
<1>8. Boxes' = [Boxes EXCEPT ![c] = {}]
  BY <1>5, <1>6, <1>7
<1>9. M!Go(c)
  BY <1>1, <1>8 DEF M!Go
<1>10. QED
  BY <1>9 DEF M!Next

\* A page table changes: a page that joins is written to by writers of the
\* session that come to it.
LEMMA JoinPageStep ==
  ASSUME IInv, NEW c \in Channels, JoinPage(c)
  PROVE  [M!Next]_(M!vars)
<1>1. PICK a : a = Login[c]
  OBVIOUS
<1>2. /\ c \in open /\ a \in online /\ ~Bound(c) /\ ChangePages(a, pages[a] \cup {c})
      /\ UNCHANGED <<open, online, traffic, sent, audience, ended>>
  BY <1>1 DEF JoinPage
<1>3. TypeOK /\ a \in Accounts /\ pages[a] \cup {c} \in SUBSET Channels
  BY <1>2 DEF IInv, TypeOK
<1>4. \A l \in Loops :
        /\ th'[l].pc = th[l].pc /\ th'[l].msg = th[l].msg
        /\ th'[l].acc = th[l].acc /\ th'[l].to = th[l].to
        /\ \/ th'[l].left = th[l].left
           \/ th[l].acc = a /\ th'[l].left = th[l].left \cup ((pages[a] \cup {c}) \ pages[a])
  BY <1>2, <1>3, ChangePagesThread
<1>5. \A d \in Channels, n \in Messages : Pending(d, n)' <=> Pending(d, n)
  BY <1>2 DEF Pending, traffic
<1>6. \A d \in Channels, n \in Messages : Writing(d, n) => Writing(d, n)'
  BY <1>4 DEF Writing, LoopIdle
<1>7. \A d \in Channels, n \in Messages : Writing(d, n)' /\ d # c => Writing(d, n)
  BY <1>4 DEF Writing, LoopIdle
<1>8. /\ \A d \in Channels, n \in Messages : UnderWay(d, n) => UnderWay(d, n)'
      /\ \A d \in Channels, n \in Messages : UnderWay(d, n)' /\ d # c => UnderWay(d, n)
  BY <1>2, <1>5, <1>6, <1>7 DEF UnderWay, traffic
<1>9. PICK missed \in SUBSET Messages :
        missed = {n \in Messages : UnderWay(c, n)' /\ ~UnderWay(c, n)}
  OBVIOUS
<1>10. ASSUME NEW n \in missed
       PROVE  /\ M!IsLast(n) /\ ended[n] = "no" /\ c \in MayRead[n]
              /\ \A i \in DOMAIN out[c] : out[c][i] # n
  <2>1. n \in Messages /\ UnderWay(c, n)' /\ ~UnderWay(c, n)
    BY <1>9
  <2>2. ~In(n, out[c]) /\ ~Writing(c, n) /\ Writing(c, n)'
    BY <1>2, <1>5, <2>1 DEF UnderWay, traffic
  <2>3. PICK l \in Loops : ~LoopIdle(l) /\ th[l].msg = n
                           /\ c \in th'[l].left \cup {Owner[th[l].acc]}
    BY <1>4, <2>2 DEF Writing, LoopIdle
  <2>4. th[l].acc = a
    BY <1>4, <2>2, <2>3 DEF Writing
  <2>5. M!IsLast(n) /\ ended[n] = "no"
    BY <2>3, WrittenIsLast
  <2>6. Protocol(n) \notin {"UD", "GROUP"} /\ a = Addressee(n)
    BY <2>3, <2>4 DEF IInv, WriteInv, WriterInv
  <2>7. c \in MayRead[n]
    BY <1>1, <2>1, <2>6 DEF MayRead, Protocol, Addressee, Members
  <2>8. QED
    BY <2>2, <2>5, <2>7, <2>1, <1>2 DEF In, UnderWay, traffic
<1>11. Boxes' = [d \in Channels |-> {n \in Messages : UnderWay(d, n)'}]
  BY DEF Boxes
<1>12. Boxes = [d \in Channels |-> {n \in Messages : UnderWay(d, n)}]
  BY DEF Boxes
<1>13. Boxes' = [Boxes EXCEPT ![c] = Boxes[c] \cup missed]
  BY <1>8, <1>9, <1>11, <1>12
<1>14. M!Join(c)
  BY <1>2, <1>10, <1>13 DEF M!Join, traffic
<1>15. QED
  BY <1>14 DEF M!Next

\* One that leaves has closed before.
LEMMA LeaveStep ==
  ASSUME IInv, NEW c \in Channels, Leave(c)
  PROVE  [M!Next]_(M!vars)
<1>1. PICK a : a = Login[c]
  OBVIOUS
<1>2. /\ a \in online
      /\ ChangePages(a, pages[a] \ {c}) \/ UNCHANGED th
      /\ UNCHANGED <<open, traffic, sent, audience, ended>>
  BY <1>1 DEF Leave
<1>3. TypeOK /\ a \in Accounts /\ pages[a] \ {c} \in SUBSET Channels
  BY <1>2 DEF IInv, TypeOK
<1>4. \A l \in Loops :
        /\ th'[l].pc = th[l].pc /\ th'[l].msg = th[l].msg
        /\ th'[l].acc = th[l].acc /\ th'[l].left = th[l].left
  <2>1. CASE UNCHANGED th
    BY <2>1
  <2>2. CASE ChangePages(a, pages[a] \ {c})
    <3>1. \A l \in Loops :
            /\ th'[l].pc = th[l].pc /\ th'[l].msg = th[l].msg
            /\ th'[l].acc = th[l].acc /\ th'[l].to = th[l].to
            /\ \/ th'[l].left = th[l].left
               \/ th'[l].left = th[l].left \cup ((pages[a] \ {c}) \ pages[a])
      BY <1>3, <2>2, ChangePagesThread
    <3>2. QED
      BY <3>1
  <2>3. QED
    BY <1>2, <2>1, <2>2
<1>5. \A d \in Channels, n \in Messages : Pending(d, n)' <=> Pending(d, n)
  BY <1>2 DEF Pending, traffic
<1>6. \A d \in Channels, n \in Messages : Writing(d, n)' <=> Writing(d, n)
  BY <1>4 DEF Writing, LoopIdle
<1>7. UNCHANGED Boxes
  BY <1>2, <1>5, <1>6 DEF Boxes, UnderWay, traffic
<1>8. QED
  BY <1>2, <1>7 DEF M!vars, traffic

-----------------------------------------------------------------------------
(* The steps of a message that is received.                                *)

\* Message m is handed at once to `now`, to which nothing of its client is under
\* way, and is under way to the other readers.  The rest that is under way is as
\* before.
PostedTo(m, readers, now) ==
  /\ readers \subseteq MayRead[m] \cap open /\ now \subseteq readers
  /\ \A c \in now, n \in Messages : UnderWay(c, n) => n.from # m.from
  /\ out' \in [Channels -> Seq(Messages)]
  /\ \A c \in Channels : out'[c] = IF c \in now THEN Append(out[c], m) ELSE out[c]
  /\ \A c \in Channels, n \in Messages :
       UnderWay(c, n)' <=> UnderWay(c, n) \/ (n = m /\ c \in readers \ now)

\* That is a step of Mailboxes.
LEMMA PostStep ==
  ASSUME IInv, NEW m \in Messages, Receive(m), MayEnd(m), NEW readers, NEW now,
         PostedTo(m, readers, now)
  PROVE  [M!Next]_(M!vars)
<1>0. /\ readers \subseteq MayRead[m] \cap open /\ now \subseteq readers
      /\ \A c \in now, n \in Messages : UnderWay(c, n) => n.from # m.from
      /\ out' \in [Channels -> Seq(Messages)]
      /\ \A c \in Channels : out'[c] = IF c \in now THEN Append(out[c], m) ELSE out[c]
      /\ \A c \in Channels, n \in Messages :
           UnderWay(c, n)' <=> UnderWay(c, n) \/ (n = m /\ c \in readers \ now)
  BY DEF PostedTo
<1>1. /\ m.from \in open /\ ~In(m, sent) /\ sent' = Append(sent, m) /\ UNCHANGED open
  BY DEF Receive
<1>2. Boxes' = [c \in Channels |-> {n \in Messages : UnderWay(c, n)'}]
  BY DEF Boxes
<1>3. Boxes = [c \in Channels |-> {n \in Messages : UnderWay(c, n)}]
  BY DEF Boxes
<1>4. ASSUME NEW c \in Channels
      PROVE  {n \in Messages : UnderWay(c, n)'}
               = IF c \in readers \ now THEN Boxes[c] \cup {m} ELSE Boxes[c]
  BY <1>0, <1>3
<1>5. Boxes' = [c \in Channels |-> IF c \in readers \ now THEN Boxes[c] \cup {m} ELSE Boxes[c]]
  BY <1>2, <1>4
<1>6. now \in SUBSET {c \in readers : \A n \in Boxes[c] : n.from # m.from}
  <2>1. open \subseteq Channels
    BY DEF IInv, TypeOK
  <2>2. QED
    BY <1>0, <1>3, <2>1
<1>7. out' = [c \in Channels |-> IF c \in now THEN Append(out[c], m) ELSE out[c]]
  BY <1>0
<1>8. M!Post(m)
  <2>1. m.from \in open /\ ~M!Posted(m) /\ sent' = Append(sent, m) /\ UNCHANGED open
    BY <1>1 DEF M!Posted, In
  <2>2. M!MayEnd(m)
    BY DEF M!MayEnd, MayEnd
  <2>3. readers \in SUBSET (MayRead[m] \cap open)
    BY <1>0
  <2>4. QED
    BY <1>5, <1>6, <1>7, <2>1, <2>2, <2>3 DEF M!Post
<1>9. QED
  BY <1>8 DEF M!Next

\* A message that has not come in is under way to nobody.
LEMMA NotUnderWay ==
  ASSUME IInv, NEW m \in Messages, ~In(m, sent)
  PROVE  /\ \A c \in Channels : ~Reached(c, m) /\ ~UnderWay(c, m)
         /\ \A l \in Loops : ~LoopIdle(l) => th[l].msg # m
<1>1. \A c \in Channels : ~Reached(c, m)
  BY DEF IInv, WriteInv, ReachedInv
<1>2. \A c \in Channels : ~UnderWay(c, m)
  BY ForReaders
<1>3. QED
  BY <1>1, <1>2, WrittenIsLast

\* A message that nobody reads.
LEMMA IgnoreStep ==
  ASSUME IInv, NEW m \in Messages, Ignore(m)
  PROVE  [M!Next]_(M!vars)
<1>1. Receive(m) /\ UNCHANGED <<open, tasks, outbound, out, th, audience, ended>>
  BY DEF Ignore, Receive, traffic
<1>2. \A c \in Channels, n \in Messages : UnderWay(c, n)' <=> UnderWay(c, n)
  BY <1>1 DEF UnderWay, Pending, Writing, LoopIdle
<1>3. PostedTo(m, {}, {})
  <2>1. out \in [Channels -> Seq(Messages)]
    BY DEF IInv, TypeOK
  <2>2. QED
    BY <1>1, <1>2, <2>1 DEF PostedTo
<1>4. QED
  BY <1>1, <1>3, PostStep DEF MayEnd

\* A message for a session.
LEMMA PushMessageStep ==
  ASSUME IInv, NEW m \in Messages, PushMessage(m)
  PROVE  [M!Next]_(M!vars)
<1>1. PICK l \in Loops : l = LoopOf[m.from]
  BY LoopType
<1>2. PICK a : a = Addressee(m)
  OBVIOUS
<1>3. /\ Receive(m) /\ Writes(m) /\ Protocol(m) # "GROUP"
      /\ th' = [th EXCEPT ![l] =
                  [Idle EXCEPT !.pc = "write", !.msg = m, !.acc = a, !.left = pages[a]]]
      /\ UNCHANGED <<tasks, outbound, out, ended, open>>
  BY <1>1, <1>2 DEF PushMessage, traffic, Receive
<1>4. /\ TypeOK /\ th \in [Loops -> Thread] /\ LoopIdle(l) /\ ~In(m, sent)
      /\ open \subseteq Channels
  BY <1>1, <1>3 DEF IInv, TypeOK, Receive
<1>5. a \in Accounts /\ Owner[a] \in Channels /\ Owner[a] # None /\ pages[a] \subseteq Channels
  BY <1>2, <1>3, <1>4, AddresseeType
<1>6. /\ th'[l].pc = "write" /\ th'[l].msg = m /\ th'[l].acc = a /\ th'[l].left = pages[a]
      /\ \A k \in Loops : k # l => th'[k] = th[k]
  BY <1>3, <1>4 DEF Idle
<1>7. \A c \in Channels, n \in Messages :
        Writing(c, n)' <=> Writing(c, n) \/ (n = m /\ c \in pages[a] \cup {Owner[a]})
  BY <1>4, <1>6 DEF Writing, LoopIdle
<1>8. PICK readers : readers = (pages[a] \cup {Owner[a]}) \cap open
  OBVIOUS
<1>9. \A c \in Channels, n \in Messages :
        UnderWay(c, n)' <=> UnderWay(c, n) \/ (n = m /\ c \in readers)
  <2>1. \A c \in Channels, n \in Messages : Pending(c, n)' <=> Pending(c, n)
    BY <1>3 DEF Pending
  <2>2. \A c \in Channels : ~In(m, out[c])
    BY <1>4, NotUnderWay DEF Reached
  <2>3. QED
    BY <1>3, <1>7, <1>8, <2>1, <2>2 DEF UnderWay
<1>10. readers \in SUBSET (MayRead[m] \cap open)
  <2>1. Protocol(m) # "UD"
    BY <1>3 DEF Writes
  <2>2. \A c \in readers : c \in Members(a)
    BY <1>4, <1>5, <1>8, OwnerType DEF TypeOK, Members
  <2>3. MayRead[m] = Members(a)
    BY <1>2, <1>3, <2>1 DEF MayRead, Protocol, Addressee
  <2>4. QED
    BY <1>8, <2>2, <2>3
<1>11. PostedTo(m, readers, {})
  <2>1. out' \in [Channels -> Seq(Messages)] /\ out' = out
    BY <1>3, <1>4 DEF TypeOK
  <2>2. QED
    BY <1>9, <1>10, <2>1 DEF PostedTo
<1>12. QED
  BY <1>3, <1>11, PostStep DEF MayEnd

\* The tasks for a group message: one for each channel of another loop.
LEMMA GroupTasks ==
  ASSUME TypeOK, NEW m \in Messages, NEW l \in Loops, NEW group \in SUBSET Channels,
         tasks' = [k \in Loops |->
                     IF k = l THEN tasks[k]
                     ELSE Queued(k, SetToSeq({<<c, m>> : c \in {d \in group : LoopOf[d] = k}}))]
  PROVE  \A d \in Channels, n \in Messages :
           In(<<d, n>>, tasks'[LoopOf[d]])
             <=> In(<<d, n>>, tasks[LoopOf[d]]) \/ (LoopOf[d] # l /\ d \in group /\ n = m)
<1> SUFFICES ASSUME NEW d \in Channels, NEW n \in Messages
             PROVE  In(<<d, n>>, tasks'[LoopOf[d]])
                      <=> In(<<d, n>>, tasks[LoopOf[d]]) \/ (LoopOf[d] # l /\ d \in group /\ n = m)
  OBVIOUS
<1>1. PICK k \in Loops : k = LoopOf[d]
  BY LoopType DEF LoopOK
<1>2. PICK cs \in SUBSET Channels : cs = {c \in group : LoopOf[c] = k}
  OBVIOUS
<1> DEFINE writes == SetToSeq({<<c, m>> : c \in cs})
<1>3. /\ writes \in Seq(Channels \X Messages)
      /\ \A x : In(x, writes) <=> \E c \in cs : x = <<c, m>>
  BY GroupWrites
<1>4. tasks'[k] = IF k = l THEN tasks[k] ELSE Queued(k, writes)
  BY <1>2
<1> HIDE DEF writes
<1>5. \A c \in Channels, i \in Messages : In(<<c, i>>, writes) => LoopOf[c] = k
  BY <1>2, <1>3
<1>6. In(<<d, n>>, Queued(k, writes)) <=> In(<<d, n>>, tasks[k]) \/ In(<<d, n>>, writes)
  BY <1>3, <1>5, QueuedType
<1>7. QED
  BY <1>1, <1>2, <1>3, <1>4, <1>6

\* A message for all.
LEMMA PushGroupMessageStep ==
  ASSUME IInv, NEW m \in Messages, PushGroupMessage(m)
  PROVE  [M!Next]_(M!vars)
<1>1. PICK l \in Loops : l = LoopOf[m.from]
  BY LoopType
<1>2. PICK group : group = {c \in open : Bound(c)}
  OBVIOUS
<1>3. PICK own : own = {c \in group : LoopOf[c] = l}
  OBVIOUS
<1>4. /\ Receive(m) /\ Protocol(m) = "GROUP" /\ WriteOnLoop(own, m)
      /\ tasks' = [k \in Loops |->
                     IF k = l THEN tasks[k]
                     ELSE Queued(k, SetToSeq({<<c, m>> : c \in {d \in group : LoopOf[d] = k}}))]
      /\ ended' = [ended EXCEPT ![m] = "ok"]
      /\ UNCHANGED <<open, th>>
  BY <1>1, <1>2, <1>3 DEF PushGroupMessage, Receive
<1>5. /\ TypeOK /\ LoopIdle(l) /\ ~In(m, sent) /\ open \subseteq Channels
      /\ group \subseteq open /\ own \in SUBSET Channels /\ group \in SUBSET Channels
  BY <1>1, <1>2, <1>3, <1>4 DEF IInv, TypeOK, Receive
<1>6. \A d \in Channels, n \in Messages :
        In(<<d, n>>, tasks'[LoopOf[d]])
          <=> In(<<d, n>>, tasks[LoopOf[d]]) \/ (LoopOf[d] # l /\ d \in group /\ n = m)
  BY <1>4, <1>5, GroupTasks
<1>7. PICK now \in SUBSET own :
        now = {c \in own : outbound[c] = <<>> /\ out'[c] = Append(out[c], m) /\ outbound'[c] = outbound[c]}
  OBVIOUS
<1>8. /\ out' \in [Channels -> Seq(Messages)]
      /\ \A c \in Channels :
           \/ c \notin own /\ out'[c] = out[c] /\ outbound'[c] = outbound[c]
           \/ /\ c \in own /\ outbound[c] = <<>>
              /\ out'[c] = Append(out[c], m) /\ outbound'[c] = outbound[c]
           \/ c \in own /\ out'[c] = out[c] /\ outbound'[c] = Append(outbound[c], m)
  <2>1. /\ out' \in [Channels -> Seq(Messages)]
        /\ \A c \in Channels :
             \/ c \notin own \cap open /\ out'[c] = out[c] /\ outbound'[c] = outbound[c]
             \/ /\ c \in own \cap open /\ outbound[c] = <<>>
                /\ out'[c] = Append(out[c], m) /\ outbound'[c] = outbound[c]
             \/ c \in own \cap open /\ out'[c] = out[c] /\ outbound'[c] = Append(outbound[c], m)
    BY <1>4, <1>5, OnLoop
  <2>2. own \cap open = own
    BY <1>3, <1>5
  <2>3. QED
    BY <2>1, <2>2
<1>9. \A c \in Channels : /\ out[c] \in Seq(Messages) /\ outbound[c] \in Seq(Messages)
                          /\ \A n : In(n, Append(out[c], m)) <=> In(n, out[c]) \/ n = m
                          /\ \A n : In(n, Append(outbound[c], m)) <=> In(n, outbound[c]) \/ n = m
  BY <1>5, InAppend DEF TypeOK
<1>10. \A c \in Channels : ~Reached(c, m) /\ ~UnderWay(c, m)
  BY <1>5, NotUnderWay
<1>11. \A c \in Channels : \/ c \in now /\ out'[c] = Append(out[c], m) /\ outbound'[c] = outbound[c]
                           \/ /\ c \notin now /\ out'[c] = out[c]
                              /\ \A n \in Messages :
                                   In(n, outbound'[c]) <=> In(n, outbound[c]) \/ (n = m /\ c \in own)
  <2> SUFFICES ASSUME NEW c \in Channels
               PROVE  \/ c \in now /\ out'[c] = Append(out[c], m) /\ outbound'[c] = outbound[c]
                      \/ /\ c \notin now /\ out'[c] = out[c]
                         /\ \A n \in Messages :
                              In(n, outbound'[c]) <=> In(n, outbound[c]) \/ (n = m /\ c \in own)
    OBVIOUS
  <2>1. out'[c] = out[c] => out'[c] # Append(out[c], m)
    BY <1>9, <1>10 DEF Reached
  <2>2. QED
    BY <1>7, <1>8, <1>9, <2>1
<1>12. \A c \in Channels, n \in Messages : Writing(c, n)' <=> Writing(c, n)
  BY <1>4 DEF Writing, LoopIdle
<1>13. ASSUME NEW c \in Channels, NEW n \in Messages
       PROVE  UnderWay(c, n)' <=> UnderWay(c, n) \/ (n = m /\ c \in group \ now)
  <2>1. CASE n # m
    <3>1. (In(n, out'[c]) <=> In(n, out[c])) /\ (Pending(c, n)' <=> Pending(c, n))
      BY <1>6, <1>9, <1>11, <2>1 DEF Pending
    <3>2. QED
      BY <1>4, <1>12, <2>1, <3>1 DEF UnderWay
  <2>2. CASE n = m /\ c \in now
    <3>1. In(m, out'[c])
      BY <1>9, <1>11, <2>2
    <3>2. QED
      BY <1>10, <2>2, <3>1 DEF UnderWay
  <2>3. CASE n = m /\ c \notin now /\ c \in group
    <3>1. ~In(m, out'[c])
      BY <1>10, <1>11, <2>3 DEF Reached
    <3>2. Pending(c, m)'
      BY <1>3, <1>6, <1>11, <2>3 DEF Pending
    <3>3. QED
      BY <1>4, <1>5, <2>3, <3>1, <3>2 DEF UnderWay
  <2>4. CASE n = m /\ c \notin group
    <3>1. c \notin now /\ c \notin own
      BY <1>3, <1>7, <2>4
    <3>2. ~Pending(c, m) /\ ~In(m, out[c])
      BY <1>10 DEF Reached
    <3>3. ~Pending(c, m)'
      BY <1>6, <1>11, <2>4, <3>1, <3>2 DEF Pending
    <3>4. ~Writing(c, m)
      BY <1>5, NotUnderWay DEF Writing
    <3>5. QED
      BY <1>10, <1>12, <2>4, <3>3, <3>4 DEF UnderWay
  <2>5. QED
    BY <2>1, <2>2, <2>3, <2>4
<1>14. ASSUME NEW c \in now, NEW n \in Messages, UnderWay(c, n), n.from = m.from
       PROVE  FALSE
  <2>1. c \in Channels /\ LoopOf[c] = l /\ ~In(n, outbound[c])
    BY <1>3, <1>5, <1>7 DEF In
  <2>2. ~Pending(c, n)
    BY <1>1, <1>14, <2>1 DEF Pending, IInv, WriteInv, TaskInv
  <2>3. PICK k \in Loops : ~LoopIdle(k) /\ th[k].msg = n
    BY <1>14, <2>2 DEF UnderWay, Writing
  <2>4. k = l
    BY <1>1, <1>14, <2>3, WrittenIsLast
  <2>5. QED
    BY <1>5, <2>3, <2>4
<1>15. group \subseteq MayRead[m] \cap open
  BY <1>2, <1>4, <1>5 DEF Protocol, MayRead, Bound
<1>16. PostedTo(m, group, now)
  <2>1. now \subseteq group
    BY <1>3, <1>7
  <2>2. \A c \in Channels : out'[c] = IF c \in now THEN Append(out[c], m) ELSE out[c]
    BY <1>11
  <2>3. QED
    BY <1>8, <1>13, <1>14, <1>15, <2>1, <2>2 DEF PostedTo
<1>17. QED
  BY <1>4, <1>16, PostStep DEF MayEnd

-----------------------------------------------------------------------------
(* The theorem.                                                            *)

\* What has been written to a channel that is open still is after every step.
LEMMA ReachedStays ==
  ASSUME IInv, Next, NEW c \in Channels, NEW m \in Messages, c \in open', Reached(c, m)
  PROVE  Reached(c, m)'
<1>1. /\ TypeOK /\ LoopOf[c] \in Loops /\ out[c] \in Seq(Messages) /\ outbound[c] \in Seq(Messages)
      /\ tasks \in [Loops -> Seq(Channels \X Messages)] /\ outbound \in [Channels -> Seq(Messages)]
      /\ out \in [Channels -> Seq(Messages)] /\ open \subseteq Channels
  BY LoopType DEF IInv, TypeOK, LoopOK
<1>2. ASSUME NEW cs \in SUBSET Channels, NEW n \in Messages, WriteOnLoop(cs, n),
             In(<<c, m>>, tasks[LoopOf[c]]) =>
               In(<<c, m>>, tasks'[LoopOf[c]]) \/ (n = m /\ c \in cs \cap open)
      PROVE  Reached(c, m)'
  BY <1>1, <1>2, OnLoopReached DEF Reached, Pending
<1>3. ASSUME NEW l \in Loops, WriteStep(l)
      PROVE  Reached(c, m)'
  <2>1. CASE UNCHANGED traffic
    BY <2>1 DEF traffic, Reached, Pending
  <2>2. ASSUME NEW d \in Channels, NEW n \in Messages, WriteOnLoop({d}, n), UNCHANGED tasks
        PROVE  Reached(c, m)'
    BY <1>2, <2>2
  <2>3. ASSUME NEW d \in Channels, NEW n \in Messages, UNCHANGED <<out, outbound>>,
               tasks' = [tasks EXCEPT ![LoopOf[d]] = Queued(LoopOf[d], << <<d, n>> >>)]
        PROVE  Reached(c, m)'
    BY <1>1, <2>3, OneTask DEF Reached, Pending
  <2>4. \/ UNCHANGED traffic
        \/ \E d \in Channels : WriteTo(l, d)
    <3>1. ~LoopIdle(l)
      BY <1>3 DEF WriteStep, WritePage, IterationFails, WriteOwn, WriteDone, WaitTimeout, LoopIdle
    <3>2. th[l].left \subseteq Channels /\ Owner[th[l].acc] \in Channels
      BY <1>1, <3>1, WriterType
    <3>3. QED
      BY <1>3, <3>2 DEF WriteStep, WritePage, IterationFails, WriteOwn, WriteDone, WaitTimeout
  <2>5. ASSUME NEW d \in Channels, WriteTo(l, d)
        PROVE  Reached(c, m)'
    <3>1. th[l].msg \in Messages
      BY <1>1, <1>3, WriterType
         DEF WriteStep, WritePage, IterationFails, WriteOwn, WriteDone, WaitTimeout, LoopIdle
    <3>2. QED
      BY <2>2, <2>3, <2>5, <3>1 DEF WriteTo
  <2>6. QED
    BY <2>1, <2>4, <2>5
<1>4. ASSUME NEW l \in Loops, RunTask(l)
      PROVE  Reached(c, m)'
  <2>1. PICK d, n : d = Head(tasks[l])[1] /\ n = Head(tasks[l])[2]
    OBVIOUS
  <2>2. /\ tasks[l] # <<>> /\ tasks' = [tasks EXCEPT ![l] = Tail(tasks[l])]
        /\ WriteOnLoop({d}, n) /\ open' = open
    BY <1>4, <2>1 DEF RunTask
  <2>3. /\ d \in Channels /\ n \in Messages /\ LoopOf[d] = l
        /\ \A x : In(x, tasks[l]) <=> x = <<d, n>> \/ In(x, Tail(tasks[l]))
    BY <1>1, <2>1, <2>2, HeadTask
  <2>4. In(<<c, m>>, tasks[LoopOf[c]]) =>
          In(<<c, m>>, tasks'[LoopOf[c]]) \/ (n = m /\ c \in {d} \cap open)
    BY <1>1, <2>2, <2>3
  <2>5. QED
    BY <1>2, <2>2, <2>3, <2>4
<1>5. ASSUME NEW d \in Channels, Drain(d)
      PROVE  Reached(c, m)'
  <2>1. PICK n : n = Head(outbound[d])
    OBVIOUS
  <2>2. /\ outbound[d] # <<>> /\ out' = [out EXCEPT ![d] = Append(out[d], n)]
        /\ outbound' = [outbound EXCEPT ![d] = Tail(outbound[d])] /\ UNCHANGED tasks
    BY <1>5, <2>1 DEF Drain
  <2>3. /\ outbound[d] \in Seq(Messages) /\ out[d] \in Seq(Messages)
    BY <1>1
  <2>4. /\ \A x : In(x, outbound[d]) <=> x = n \/ In(x, Tail(outbound[d]))
        /\ \A x : In(x, Append(out[d], n)) <=> In(x, out[d]) \/ x = n
    BY <2>1, <2>2, <2>3, InTail, InAppend
  <2>5. /\ out'[c] = IF c = d THEN Append(out[d], n) ELSE out[c]
        /\ outbound'[c] = IF c = d THEN Tail(outbound[d]) ELSE outbound[c]
    BY <1>1, <2>2
  <2>6. QED
    BY <2>2, <2>4, <2>5 DEF Reached, Pending
<1>6. ASSUME NEW d \in Channels, Close(d)
      PROVE  Reached(c, m)'
  BY <1>1, <1>6 DEF Close, Reached, Pending
<1>7. ASSUME NEW d \in Channels, JoinPage(d) \/ Leave(d)
      PROVE  Reached(c, m)'
  BY <1>7 DEF JoinPage, Leave, traffic, Reached, Pending
<1>8. ASSUME NEW n \in Messages, Ignore(n) \/ PushMessage(n)
      PROVE  Reached(c, m)'
  BY <1>8 DEF Ignore, PushMessage, traffic, Reached, Pending
<1>9. ASSUME NEW n \in Messages, PushGroupMessage(n)
      PROVE  Reached(c, m)'
  <2>1. PICK l \in Loops : l = LoopOf[n.from]
    BY LoopType
  <2>2. PICK group \in SUBSET Channels : group = {d \in open : Bound(d)}
    BY <1>1
  <2>3. PICK own \in SUBSET Channels : own = {d \in group : LoopOf[d] = l}
    OBVIOUS
  <2>4. /\ WriteOnLoop(own, n)
        /\ tasks' = [k \in Loops |->
                       IF k = l THEN tasks[k]
                       ELSE Queued(k, SetToSeq({<<d, n>> : d \in {e \in group : LoopOf[e] = k}}))]
    BY <1>9, <2>1, <2>2, <2>3 DEF PushGroupMessage
  <2>5. In(<<c, m>>, tasks[LoopOf[c]]) => In(<<c, m>>, tasks'[LoopOf[c]])
    BY <1>1, <2>4, GroupTasks
  <2>6. QED
    BY <1>2, <2>4, <2>5
<1>10. CASE Quiescent
  BY <1>10 DEF Quiescent, vars, Reached, Pending
<1>11. QED
  BY <1>3, <1>4, <1>5, <1>6, <1>7, <1>8, <1>9, <1>10 DEF Next

\* A loop begins to wait with the task that it waits for.
LEMMA WaitKept == IInv /\ WaitInv /\ [Next]_vars => WaitInv'
<1> SUFFICES ASSUME IInv, WaitInv, [Next]_vars,
                    NEW l \in Loops, NEW c \in Channels, NEW m \in Messages,
                    th'[l].pc = "wait", th'[l].to = c, th'[l].msg = m, c \in open'
             PROVE  Reached(c, m)'
  BY DEF WaitInv
<1>1. /\ TypeOK /\ th \in [Loops -> Thread] /\ open' \subseteq open
  <2>1. open' \subseteq open
    BY DEF Next, vars, WriteStep, WritePage, IterationFails, WriteOwn, WriteDone, WaitTimeout, RunTask,
       Drain, Close, JoinPage, Leave, Ignore, PushMessage, PushGroupMessage, Receive, Quiescent
  <2>2. QED
    BY <2>1 DEF IInv, TypeOK
<1>2. ASSUME th[l].pc = "wait", th[l].to = c, th[l].msg = m
      PROVE  Reached(c, m)'
  <2>1. Reached(c, m)
    BY <1>1, <1>2 DEF WaitInv
  <2>2. CASE UNCHANGED vars
    BY <2>1, <2>2 DEF vars, Reached, Pending
  <2>3. QED
    BY <2>1, <2>2, ReachedStays
<1>3. CASE th'[l] = th[l]
  BY <1>2, <1>3
<1>4. ASSUME NEW a \in Accounts, NEW cs \in SUBSET Channels, ChangePages(a, cs)
      PROVE  Reached(c, m)'
  BY <1>1, <1>2, <1>4, ChangePagesThread
<1>5. ASSUME NEW d \in Channels, JoinPage(d) \/ Leave(d)
      PROVE  Reached(c, m)'
  <2>1. Login[d] \in Accounts /\ pages[Login[d]] \cup {d} \in SUBSET Channels
    BY <1>1, <1>5 DEF JoinPage, Leave, TypeOK
  <2>2. \/ UNCHANGED th
        \/ ChangePages(Login[d], pages[Login[d]] \cup {d})
        \/ ChangePages(Login[d], pages[Login[d]] \ {d})
    BY <1>5 DEF JoinPage, Leave
  <2>3. pages[Login[d]] \ {d} \in SUBSET Channels
    BY <2>1
  <2>4. QED
    BY <1>3, <1>4, <2>1, <2>2, <2>3
<1>6. ASSUME NEW n \in Messages, PushMessage(n)
      PROVE  Reached(c, m)'
  <2>1. \A k \in Loops : k # LoopOf[n.from] => th'[k] = th[k]
    BY <1>1, <1>6 DEF PushMessage
  <2>2. LoopOf[n.from] \in Loops => th'[LoopOf[n.from]].pc = "write"
    BY <1>1, <1>6 DEF PushMessage, Idle
  <2>3. l # LoopOf[n.from]
    BY <2>2
  <2>4. QED
    BY <1>3, <2>1, <2>3
<1>7. ASSUME NEW k \in Loops, WriteStep(k)
      PROVE  Reached(c, m)'
  <2>1. ~LoopIdle(k)
    BY <1>7 DEF WriteStep, WritePage, IterationFails, WriteOwn, WriteDone, WaitTimeout, LoopIdle
  <2>2. /\ th[k].msg \in Messages /\ th[k].left \subseteq Channels /\ Owner[th[k].acc] \in Channels
    BY <1>1, <2>1, WriterType
  <2>3. \/ \E d : GoOn(k, d)
        \/ Finish(k, "failed")
        \/ \E d \in Channels : WriteTo(k, d)
    BY <1>7, <2>2 DEF WriteStep, WritePage, IterationFails, WriteOwn, WriteDone, WaitTimeout
  <2>4. CASE (\E d : GoOn(k, d)) \/ Finish(k, "failed")
    <3>1. th'[k].pc # "wait" /\ \A i \in Loops : i # k => th'[i] = th[i]
      <4>1. ASSUME NEW how, Finish(k, how)
            PROVE  th'[k].pc # "wait" /\ \A i \in Loops : i # k => th'[i] = th[i]
        BY <1>1, <4>1 DEF Finish, Idle
      <4>2. ASSUME NEW d, GoOn(k, d), ~Finish(k, "ok")
            PROVE  th'[k].pc # "wait" /\ \A i \in Loops : i # k => th'[i] = th[i]
        <5>1. th' = [th EXCEPT ![k].pc = "write", ![k].left = @ \ {d}, ![k].to = None]
          BY <4>2 DEF GoOn
        <5>2. th'[k] = [th[k] EXCEPT !.pc = "write", !.left = @ \ {d}, !.to = None] /\ th[k] \in Thread
          BY <1>1, <5>1
        <5>3. th'[k].pc = "write"
          BY <5>2 DEF Thread
        <5>4. QED
          BY <1>1, <5>1, <5>3
      <4>3. QED
        BY <2>4, <4>1, <4>2
    <3>2. QED
      BY <1>3, <3>1
  <2>5. ASSUME NEW d \in Channels,
               tasks' = [tasks EXCEPT ![LoopOf[d]] = Queued(LoopOf[d], << <<d, th[k].msg>> >>)],
               th' = [th EXCEPT ![k].pc = "wait", ![k].to = d]
        PROVE  Reached(c, m)'
    <3>1. /\ th'[k].to = d /\ th'[k].msg = th[k].msg
          /\ \A i \in Loops : i # k => th'[i] = th[i]
      BY <1>1, <2>5 DEF Thread
    <3>2. CASE l # k
      BY <1>3, <3>1, <3>2
    <3>3. CASE l = k
      <4>1. d = c /\ m = th[k].msg
        BY <3>1, <3>3
      <4>2. In(<<c, m>>, tasks'[LoopOf[c]])
        BY <1>1, <2>5, <4>1, OneTask
      <4>3. QED
        BY <4>2 DEF Reached, Pending
    <3>4. QED
      BY <3>2, <3>3
  <2>6. QED
    BY <2>3, <2>4, <2>5 DEF WriteTo
<1>8. QED
  BY <1>3, <1>5, <1>6, <1>7
     DEF Next, vars, RunTask, Drain, Close, Ignore, PushGroupMessage, Quiescent

\* In every state.
LEMMA MailboxInvariant == Spec => [](IInv /\ WaitInv)
<1>1. Init => WaitInv
  BY DEF Init, Idle, WaitInv
<1>2. IInv /\ WaitInv /\ [Next]_vars => WaitInv'
  BY WaitKept
<1>3. QED
  BY <1>1, <1>2, Invariant, PTL DEF Spec

\* Nothing is under way at the start.
LEMMA MailboxInitial == Init => M!Init
<1> SUFFICES ASSUME Init
             PROVE  M!Init
  OBVIOUS
<1>1. IInv /\ sent = <<>>
  BY InitInv DEF Init
<1>2. \A m \in Messages : ~In(m, sent)
  BY <1>1 DEF In
<1>3. \A c \in Channels, m \in Messages : ~UnderWay(c, m)
  BY <1>1, <1>2, NotUnderWay
<1>4. Boxes = [c \in Channels |-> {}]
  BY <1>3 DEF Boxes
<1>5. QED
  BY <1>4 DEF Init, M!Init

\* Delivery implements Mailboxes: whatever channelRead(), Session.write(), the
\* loops and the peers do is one of the steps that Mailboxes allows, so that a
\* message is lost for a reader only when the reader goes, or with the end of a
\* write that fails.
THEOREM DeliveryImplementsMailboxes == Spec => ImplementsMailboxes
<1>1. IInv /\ WaitInv /\ [Next]_vars => [M!Next]_(M!vars)
  <2> SUFFICES ASSUME IInv, WaitInv, [Next]_vars
               PROVE  [M!Next]_(M!vars)
    OBVIOUS
  <2>1. CASE UNCHANGED vars
    BY <2>1 DEF vars, M!vars, Boxes, UnderWay, Pending, Writing, LoopIdle
  <2>2. CASE Next
    BY <2>1, <2>2, WriteStepStep, RunTaskStep, DrainStep, CloseStep, JoinPageStep, LeaveStep, IgnoreStep,
       PushMessageStep, PushGroupMessageStep DEF Next, Quiescent
  <2>3. QED
    BY <2>1, <2>2
<1>2. QED
  BY <1>1, MailboxInitial, MailboxInvariant, PTL DEF Spec, ImplementsMailboxes, M!Spec

=============================================================================
