SPECIFICATION Spec
CONSTANTS
  ReadIdle = 12
  WriteIdle = 10
  AnswerWithin = 25
  MaxAsked = 25
  None = None
INVARIANTS TypeOK SilentClientReaped TimerInv
PROPERTIES ClosedAfterGrace
