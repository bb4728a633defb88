------------------------- MODULE IdleMonitorProofs -------------------------
(***************************************************************************)
(* Proofs about IdleMonitor, for all values of the idle times and pushes   *)
(* at any time.                                                            *)
(***************************************************************************)
EXTENDS IdleMonitor, TLAPS

\* The part of TimerInv that holds for all idle times.
GraceInv ==
  Open /\ session = "own" =>
    /\ asked = None => readIdle <= pushAt + writeIdle
    /\ asked # None => readIdle <= pushAt + WriteIdle + asked

\* Idle times like those of the server: one WRITER_IDLE at most falls between a
\* request and the next READER_IDLE.
SoundTimes == WriteIdle < ReadIdle /\ ReadIdle < WriteIdle + WriteIdle

LEMMA InitTyped == Init => TypeOK
<1> SUFFICES ASSUME Init
             PROVE  TypeOK
  OBVIOUS
<1>1. pushed \in BOOLEAN
  BY DEF Init
<1>2. QED
  BY <1>1, IdleAssumption, AnswerAssumption DEF IdleAssumption, AnswerAssumption, Init, TypeOK

LEMMA TypeInductive == TypeOK /\ [Next]_vars => TypeOK'
<1> SUFFICES ASSUME TypeOK, [Next]_vars
             PROVE  TypeOK'
  OBVIOUS
<1> USE IdleAssumption, AnswerAssumption, NullAssumption
    DEF IdleAssumption, AnswerAssumption, NullAssumption, pushVars
<1>1. CASE Tick
  <2>1. readIdle' \in 0..ReadIdle /\ writeIdle' \in 0..WriteIdle
    BY <1>1 DEF Tick, TypeOK, ReaderDue, WriterDue
  <2>2. asked' \in 0..MaxAsked \cup {None}
    BY <1>1 DEF Tick, TypeOK
  <2>3. QED
    BY <1>1, <2>1, <2>2 DEF Tick, TypeOK
<1>2. CASE ReceiveLK \/ ReceiveUD \/ ReceiveSend
  <2>1. Read
    BY <1>2 DEF ReceiveLK, ReceiveUD, ReceiveSend
  <2>2. /\ readIdle' = 0 /\ asked' = None /\ pushAt' = 0 /\ pushed' \in BOOLEAN
    BY <2>1 DEF Read
  <2>3. QED
    BY <1>2, <2>2 DEF ReceiveLK, ReceiveUD, ReceiveSend, TypeOK
<1>3. CASE Push
  <2>1. pushed' \in BOOLEAN
    BY <1>3 DEF Push
  <2>2. QED
    BY <1>3, <2>1 DEF Push, TypeOK
<1>4. CASE WriterIdle \/ Expire \/ Pardon
  BY <1>4 DEF WriterIdle, Expire, Pardon, AfterClose, TypeOK
<1>5. CASE Displace \/ Disconnect \/ Ended \/ UNCHANGED vars
  BY <1>5 DEF Displace, Disconnect, Ended, vars, TypeOK
<1>6. QED
  BY <1>1, <1>2, <1>3, <1>4, <1>5 DEF Next

\* The timers never run past their times, whatever is read and written.
THEOREM TypeCorrect == Spec => []TypeOK
BY InitTyped, TypeInductive, PTL DEF Spec

LEMMA GraceInductive == TypeOK /\ GraceInv /\ [Next]_vars => GraceInv'
<1> SUFFICES ASSUME TypeOK, GraceInv, [Next]_vars,
                    Open', session' = "own"
             PROVE  /\ asked' = None => readIdle' <= pushAt' + writeIdle'
                    /\ asked' # None => readIdle' <= pushAt' + WriteIdle + asked'
  BY DEF GraceInv
<1> USE IdleAssumption, AnswerAssumption, NullAssumption
    DEF IdleAssumption, AnswerAssumption, NullAssumption, pushVars
<1>1. TypeOK'
  BY TypeInductive
<1>2. CASE readIdle' = 0
  <2>1. writeIdle' \in Nat /\ pushAt' \in Nat /\ WriteIdle \in Nat
    BY <1>1 DEF TypeOK
  <2>2. asked' # None => asked' \in Nat
    BY <1>1 DEF TypeOK
  <2>3. \A i, j, k \in Nat : 0 <= i + j /\ 0 <= i + j + k
    OBVIOUS
  <2>4. QED
    BY <1>2, <2>1, <2>2, <2>3
<1>3. CASE Tick
  <2>1. /\ asked = None => readIdle <= pushAt + writeIdle
        /\ asked # None => readIdle <= pushAt + WriteIdle + asked
    BY <1>3 DEF Tick, GraceInv
  <2>2. CASE asked = MaxAsked
    BY <1>1, <1>3, <2>2 DEF Tick, TypeOK
  <2>3. CASE asked # MaxAsked
    BY <1>3, <2>1, <2>3 DEF Tick, TypeOK
  <2>4. QED
    BY <2>2, <2>3
<1>4. CASE Push
  BY <1>4 DEF Push, TypeOK, GraceInv
<1>5. CASE WriterIdle
  BY <1>5 DEF WriterIdle, WriterDue, TypeOK, GraceInv
<1>6. CASE Displace \/ Disconnect \/ Ended \/ UNCHANGED vars
  BY <1>6 DEF Displace, Disconnect, Ended, vars, Open, GraceInv
<1>7. CASE ReceiveLK \/ ReceiveUD \/ ReceiveSend \/ Expire \/ Pardon
  BY <1>2, <1>7 DEF ReceiveLK, ReceiveUD, ReceiveSend, Read, Expire, Pardon
<1>8. QED
  BY <1>3, <1>4, <1>5, <1>6, <1>7 DEF Next

LEMMA GraceStep ==
  ASSUME TypeOK, GraceInv, [Next]_vars, Open, conn' = "reaped"
  PROVE  ReadIdle <= pushAt + WriteIdle + (IF asked = None THEN 0 ELSE asked)
<1> USE IdleAssumption, AnswerAssumption, NullAssumption
    DEF IdleAssumption, AnswerAssumption, NullAssumption
<1>1. Expire /\ session = "own"
  BY DEF Next, Tick, Read, ReceiveLK, ReceiveUD, ReceiveSend, Push, WriterIdle, Expire, AfterClose,
         Pardon, Displace, Disconnect, Ended, vars, Open
<1>2. readIdle = ReadIdle
  BY <1>1 DEF Expire, ReaderDue
<1>3. QED
  BY <1>1, <1>2 DEF GraceInv, TypeOK

\* Whatever the idle times are and whenever messages are pushed to it, the idle
\* timer disconnects a client only after a request that it left unanswered for
\* the rest of READ_IDLE_TIME, less what pushes put the request off.
THEOREM GraceKept == Spec => ClosedAfterGrace
<1>1. Init => TypeOK /\ GraceInv
  <2>1. Init => TypeOK
    BY InitTyped
  <2>2. Init => GraceInv
    BY DEF Init, GraceInv
  <2>3. QED
    BY <2>1, <2>2
<1>2. TypeOK /\ GraceInv /\ [Next]_vars => TypeOK' /\ GraceInv'
  BY TypeInductive, GraceInductive
<1>3. TypeOK /\ GraceInv /\ [Next]_vars =>
        [Open /\ conn' = "reaped" =>
           ReadIdle <= pushAt + WriteIdle + (IF asked = None THEN 0 ELSE asked)]_vars
  BY GraceStep
<1>4. QED
  BY <1>1, <1>2, <1>3, PTL DEF Spec, ClosedAfterGrace

\* The conjuncts of TimerInv that GraceInv does not have.
RequestInv ==
  Open /\ session = "own" =>
    /\ mark = "now" => writeIdle = 0
    /\ asked # None /\ ~pushed =>
         /\ asked <= readIdle \/ asked = readIdle + WriteIdle
         /\ asked \in {writeIdle, writeIdle + WriteIdle, writeIdle + WriteIdle + WriteIdle}
         /\ mark = None => readIdle = writeIdle

LEMMA RequestInductive ==
  ASSUME SoundTimes, TypeOK, RequestInv, [Next]_vars
  PROVE  RequestInv'
<1> SUFFICES ASSUME Open', session' = "own"
             PROVE  /\ mark' = "now" => writeIdle' = 0
                    /\ asked' # None /\ ~pushed' =>
                         /\ asked' <= readIdle' \/ asked' = readIdle' + WriteIdle
                         /\ asked' \in {writeIdle', writeIdle' + WriteIdle,
                                        writeIdle' + WriteIdle + WriteIdle}
                         /\ mark' = None => readIdle' = writeIdle'
  BY DEF RequestInv
<1> USE IdleAssumption, AnswerAssumption, NullAssumption
    DEF IdleAssumption, AnswerAssumption, NullAssumption, pushVars
<1>1. /\ TypeOK'
      /\ readIdle \in Nat /\ writeIdle \in Nat
      /\ asked # None => asked \in Nat
  BY TypeInductive DEF TypeOK
<1>2. CASE Tick
  <2>1. mark' # "now" /\ (mark' = None => mark = None)
    BY <1>2 DEF Tick
  <2>2. CASE asked = None
    BY <1>2, <2>1, <2>2 DEF Tick
  <2>3. CASE pushed
    BY <1>2, <2>1, <2>3 DEF Tick
  <2>4. CASE asked # None /\ ~pushed
    <3>1. /\ asked <= readIdle \/ asked = readIdle + WriteIdle
          /\ asked \in {writeIdle, writeIdle + WriteIdle, writeIdle + WriteIdle + WriteIdle}
          /\ mark = None => readIdle = writeIdle
      BY <1>2, <2>4 DEF Tick, RequestInv
    <3>2. asked \in Nat /\ asked < MaxAsked
      BY <1>1, <1>2, <2>4, <3>1 DEF Tick, TypeOK, SoundTimes, ReaderDue
    <3>3. asked' = asked + 1 /\ readIdle' = readIdle + 1 /\ writeIdle' = writeIdle + 1
      BY <1>2, <2>4, <3>2 DEF Tick
    <3>4. QED
      BY <1>1, <2>1, <3>1, <3>2, <3>3
  <2>5. QED
    BY <2>2, <2>3, <2>4
<1>3. CASE ReceiveLK \/ ReceiveUD \/ ReceiveSend
  BY <1>3 DEF ReceiveLK, ReceiveUD, ReceiveSend, Read, RequestInv, Open
<1>4. CASE Push
  BY <1>4 DEF Push
<1>5. CASE WriterIdle
  <2>1. /\ writeIdle = WriteIdle /\ writeIdle' = 0 /\ readIdle' = readIdle
        /\ mark' = "now" /\ pushed' = pushed /\ session = "own" /\ Open
        /\ asked' = IF asked = None THEN 0 ELSE asked
    BY <1>5 DEF WriterIdle, WriterDue
  <2>2. CASE asked = None
    BY <1>1, <2>1, <2>2
  <2>3. CASE pushed
    BY <2>1, <2>3
  <2>4. CASE asked # None /\ ~pushed
    <3>1. /\ asked <= readIdle \/ asked = readIdle + WriteIdle
          /\ asked \in {WriteIdle, WriteIdle + WriteIdle, WriteIdle + WriteIdle + WriteIdle}
      BY <2>1, <2>4 DEF RequestInv
    <3>2. asked \in Nat /\ readIdle <= ReadIdle
      BY <1>1, <2>4 DEF TypeOK
    <3>3. QED
      BY <1>1, <2>1, <2>4, <3>1, <3>2 DEF SoundTimes
  <2>5. QED
    BY <2>2, <2>3, <2>4
<1>6. CASE Expire
  BY <1>6 DEF Expire, AfterClose, Open
<1>7. CASE Pardon
  <2>1. /\ readIdle = ReadIdle /\ readIdle' = 0 /\ mark' = None /\ mark \in {None, "now"}
        /\ writeIdle' = writeIdle /\ asked' = asked /\ pushed' = pushed
        /\ session = "own" /\ Open /\ writeIdle <= WriteIdle
    BY <1>7 DEF Pardon, ReaderDue, TypeOK
  <2>2. CASE asked = None \/ pushed
    BY <2>1, <2>2
  <2>3. CASE asked # None /\ ~pushed
    <3>1. /\ asked <= readIdle \/ asked = readIdle + WriteIdle
          /\ asked \in {writeIdle, writeIdle + WriteIdle, writeIdle + WriteIdle + WriteIdle}
          /\ mark = None => readIdle = writeIdle
          /\ mark = "now" => writeIdle = 0
      BY <2>1, <2>3 DEF RequestInv
    <3>2. writeIdle = 0
      BY <1>1, <2>1, <3>1 DEF SoundTimes
    <3>3. QED
      BY <1>1, <2>1, <2>3, <3>1, <3>2 DEF SoundTimes
  <2>4. QED
    BY <2>2, <2>3
<1>8. CASE Displace \/ Disconnect \/ Ended \/ UNCHANGED vars
  BY <1>8 DEF Displace, Disconnect, Ended, vars, Open, RequestInv
<1>9. QED
  BY <1>2, <1>3, <1>4, <1>5, <1>6, <1>7, <1>8 DEF Next

LEMMA TimerInvariant == SoundTimes => (Spec => [](TypeOK /\ TimerInv))
<1> SUFFICES ASSUME SoundTimes
             PROVE  Spec => [](TypeOK /\ TimerInv)
  OBVIOUS
<1>1. Init => TypeOK /\ GraceInv /\ RequestInv
  <2>1. Init => TypeOK
    BY InitTyped
  <2>2. Init => GraceInv /\ RequestInv
    BY DEF Init, GraceInv, RequestInv
  <2>3. QED
    BY <2>1, <2>2
<1>2. TypeOK /\ GraceInv /\ RequestInv /\ [Next]_vars => TypeOK' /\ GraceInv' /\ RequestInv'
  BY TypeInductive, GraceInductive, RequestInductive
<1>3. GraceInv /\ RequestInv => TimerInv
  BY DEF GraceInv, RequestInv, TimerInv
<1>4. QED
  BY <1>1, <1>2, <1>3, PTL DEF Spec

\* With idle times like those of the server the timers tell how long a request
\* has been unanswered to which nothing was pushed: the argument for the bound
\* on it.
THEOREM TimersTell == SoundTimes => (Spec => []TimerInv)
<1>1. TypeOK /\ TimerInv => TimerInv
  OBVIOUS
<1>2. QED
  BY <1>1, TimerInvariant, PTL

\* With idle times like those of the server a client that stops answering, and
\* that nothing is pushed to, is disconnected no later than READ_IDLE_TIME +
\* WRITE_IDLE_TIME after the first request that it leaves unanswered.
THEOREM SilentReaped == SoundTimes => (Spec => []SilentClientReaped)
<1> SUFFICES ASSUME SoundTimes
             PROVE  Spec => []SilentClientReaped
  OBVIOUS
<1>1. TypeOK /\ TimerInv => SilentClientReaped
  <2> SUFFICES ASSUME TypeOK, TimerInv, Open, session = "own", asked # None, ~pushed
               PROVE  asked <= ReadIdle + WriteIdle
    BY DEF SilentClientReaped
  <2>1. /\ asked \in Nat /\ readIdle \in Nat /\ WriteIdle \in Nat /\ ReadIdle \in Nat
        /\ readIdle <= ReadIdle
    BY IdleAssumption, AnswerAssumption DEF TypeOK, IdleAssumption, AnswerAssumption
  <2>2. asked <= readIdle \/ asked = readIdle + WriteIdle
    BY DEF TimerInv
  <2>3. QED
    BY <2>1, <2>2
<1>2. QED
  BY <1>1, TimerInvariant, PTL

=============================================================================
