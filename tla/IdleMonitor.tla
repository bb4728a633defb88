---------------------------- MODULE IdleMonitor ----------------------------
(***************************************************************************)
(* The heartbeat of one connection: the reader and writer timers of        *)
(* Netty's IdleStateHandler, the handlers' userEventTriggered, and what    *)
(* reading and writing messages does to them.                              *)
(*                                                                         *)
(* Time passes in ticks, and an idle event fires in the tick in which it   *)
(* is due.  The times of the code are multiples of a tick, but for         *)
(* PING_TIME_OUT: the handlers compare its value 30 with milliseconds,     *)
(* which is less than a tick.                                              *)
(***************************************************************************)
EXTENDS Integers

CONSTANTS
  ReadIdle,      \* READ_IDLE_TIME in ticks
  WriteIdle,     \* WRITE_IDLE_TIME in ticks
  AnswerWithin,  \* ticks a client takes at most to answer a heartbeat request
  MaxAsked,      \* bound on the age of a request; a client that is allowed to
                 \* take this long need not answer at all
  None           \* Java's null

ASSUME IdleAssumption == ReadIdle \in Nat \ {0} /\ WriteIdle \in Nat \ {0}

ASSUME AnswerAssumption ==
  MaxAsked \in Nat /\ AnswerWithin \in 0..MaxAsked /\ ReadIdle + WriteIdle <= MaxAsked

ASSUME NullAssumption == None \notin Int \cup {"now", "before"}

VARIABLES
  conn,       \* "open", "reaped" by the idle timer, or "gone" by itself
  session,    \* "none" before the login, "own", or "lost": the account has
              \* another session, or none, and the channel is still bound to it
  readIdle,   \* ticks since the last read or READER_IDLE
  writeIdle,  \* ticks since the last write or WRITER_IDLE
  mark,       \* SERVER_SESSION_HEARBEAT: "now" when it holds a time of this
              \* tick, "before" for an earlier one, or None
  asked       \* age of the first heartbeat request since the last read, or None

\* What the server has written of others to the client: no action depends on
\* it, only properties do.
VARIABLES
  pushAt,     \* readIdle at the last such write before the request, 0 if none
  pushed      \* whether there was one since the request

pushVars == <<pushAt, pushed>>
vars == <<conn, session, readIdle, writeIdle, mark, asked, pushVars>>

Open == conn = "open"

\* Faulty, both: the times are passed to IdleStateHandler in the wrong order.
FaultyReaderDue == readIdle = WriteIdle
FaultyWriterDue == writeIdle = ReadIdle

\* READER_IDLE and WRITER_IDLE are due.
ReaderDue == readIdle = ReadIdle
WriterDue == writeIdle = WriteIdle

Init ==
  /\ conn = "open"
  /\ session = "none"
  /\ readIdle = 0
  /\ writeIdle = 0
  /\ mark = None
  /\ asked = None
  /\ pushAt = 0
  /\ pushed = FALSE

\* Time passes when no event is due and the client may still take its time.
Tick ==
  /\ Open
  /\ ~ReaderDue
  /\ ~WriterDue
  /\ asked # None /\ AnswerWithin < MaxAsked => asked < AnswerWithin
  /\ readIdle' = readIdle + 1
  /\ writeIdle' = writeIdle + 1
  /\ mark' = IF mark = None THEN None ELSE "before"
  /\ asked' = IF asked \in {None, MaxAsked} THEN asked ELSE asked + 1
  /\ UNCHANGED <<conn, session, pushVars>>

-----------------------------------------------------------------------------
(* Messages.                                                               *)

\* A read answers the request.
Read ==
  /\ Open
  /\ readIdle' = 0
  /\ asked' = None
  /\ pushAt' = 0
  /\ pushed' = FALSE

\* An LK message: heartbeat() stores the time and binds a new channel, and the
\* reply goes to the session that the account has.
ReceiveLK ==
  /\ Read
  /\ mark' = "now"
  /\ session' = IF session = "none" THEN "own" ELSE session
  /\ writeIdle' = IF session = "lost" THEN writeIdle ELSE 0
  /\ UNCHANGED conn

\* A position report: it is read and dropped.
ReceiveUD ==
  /\ Read
  /\ UNCHANGED <<conn, session, writeIdle, mark>>

\* A message that is pushed back to the session of its own device id.
ReceiveSend ==
  /\ Read
  /\ writeIdle' = IF session = "own" THEN 0 ELSE writeIdle
  /\ UNCHANGED <<conn, session, mark>>

\* A message or a broadcast of another client is written to the channel, at
\* any time: a channel that has lost its account may still be in the group.
Push ==
  /\ Open
  /\ session # "none"
  /\ writeIdle' = 0
  /\ pushAt' = IF asked = None THEN readIdle ELSE pushAt
  /\ pushed' = (asked # None)
  /\ UNCHANGED <<conn, session, readIdle, mark, asked>>

-----------------------------------------------------------------------------
(* Idle events.                                                            *)

\* WRITER_IDLE: the time is stored, and a channel that is bound is sent LK.
WriterIdle ==
  /\ Open
  /\ WriterDue
  /\ writeIdle' = 0
  /\ mark' = "now"
  /\ asked' = IF session # "none" /\ asked = None THEN 0 ELSE asked
  /\ UNCHANGED <<conn, session, readIdle, pushVars>>

\* Faulty: the channel stays open, as in the commented-out line next to it.
FaultyAfterClose == conn

\* What connertor.close(ctx) leaves of the connection: only the channel of a
\* session in the map is closed.
AfterClose == IF session = "own" THEN "reaped" ELSE conn

\* READER_IDLE with a stored time at least PING_TIME_OUT ago.  Without a device
\* id close(ctx) fails, and the stored time is not reset.
Expire ==
  /\ Open
  /\ ReaderDue
  /\ mark # None
  /\ readIdle' = 0
  /\ conn' = AfterClose
  /\ mark' = IF session = "none" THEN mark ELSE None
  /\ pushAt' = 0
  /\ UNCHANGED <<session, writeIdle, asked, pushed>>

\* READER_IDLE with no stored time, or one of less than PING_TIME_OUT ago.
Pardon ==
  /\ Open
  /\ ReaderDue
  /\ mark \in {None, "now"}
  /\ readIdle' = 0
  /\ mark' = None
  /\ pushAt' = 0
  /\ UNCHANGED <<conn, session, writeIdle, asked, pushed>>

-----------------------------------------------------------------------------
\* Another login takes over the account, see SessionManager.
Displace ==
  /\ Open
  /\ session = "own"
  /\ session' = "lost"
  /\ UNCHANGED <<conn, readIdle, writeIdle, mark, asked, pushVars>>

Disconnect ==
  /\ Open
  /\ conn' = "gone"
  /\ UNCHANGED <<session, readIdle, writeIdle, mark, asked, pushVars>>

Ended == ~Open /\ UNCHANGED vars

Next ==
  \/ Tick \/ ReceiveLK \/ ReceiveUD \/ ReceiveSend \/ Push
  \/ WriterIdle \/ Expire \/ Pardon
  \/ Displace \/ Disconnect \/ Ended

Spec == Init /\ [][Next]_vars

-----------------------------------------------------------------------------
(* Properties.                                                             *)

\* The values of the variables: both timers fire when they are due, and the
\* stored time is never further back than the handlers tell apart.
TypeOK ==
  /\ conn \in {"open", "reaped", "gone"}
  /\ session \in {"none", "own", "lost"}
  /\ readIdle \in 0..ReadIdle
  /\ writeIdle \in 0..WriteIdle
  /\ mark \in {"now", "before", None}
  /\ asked \in 0..MaxAsked \cup {None}
  /\ pushAt \in 0..ReadIdle
  /\ pushed \in BOOLEAN

\* When the idle timer disconnects a client, READ_IDLE_TIME is made up of the
\* time until the last push before the request, at most WRITE_IDLE_TIME from
\* there to the request, and the time for which the request was unanswered.  So
\* a client that no push has kept from being asked has had at least the
\* difference of the two times to answer.
ClosedAfterGrace ==
  [][Open /\ conn' = "reaped" =>
       ReadIdle <= pushAt + WriteIdle + (IF asked = None THEN 0 ELSE asked)]_vars

\* A registered client that stops answering, and that nothing is pushed to
\* meanwhile, is disconnected at its second READER_IDLE after the request at
\* the latest: the first one may find a heartbeat time that WRITER_IDLE has
\* stored at the same moment.
SilentClientReaped ==
  Open /\ session = "own" /\ asked # None /\ ~pushed => asked <= ReadIdle + WriteIdle

\* What the timers of a registered client tell of the request that it has not
\* answered.  A time stored in this tick comes with a write.  Without pushes the
\* request is no older than the last read, or WRITE_IDLE_TIME older than the
\* READER_IDLE that passed it over; the writes since are those of WRITER_IDLE,
\* and without a stored time there was none.
TimerInv ==
  Open /\ session = "own" =>
    /\ IF asked = None THEN readIdle <= pushAt + writeIdle
                       ELSE readIdle <= pushAt + WriteIdle + asked
    /\ mark = "now" => writeIdle = 0
    /\ asked # None /\ ~pushed =>
         /\ asked <= readIdle \/ asked = readIdle + WriteIdle
         /\ asked \in {writeIdle, writeIdle + WriteIdle, writeIdle + WriteIdle + WriteIdle}
         /\ mark = None => readIdle = writeIdle


=============================================================================
