SPECIFICATION RaceSpec
CONSTANTS
  None = None
  Blank = Blank
  SocketChannels = {t1, t2}
  WebChannels = {w1, w2}
  Accounts = {a}
  SessionIds = {s1, s2, s3, s4}
  Loops <- PageLoops
  LoopOf <- PageLoop
  LoginIds <- AnyId
SYMMETRY Symmetry
INVARIANTS TypeOK OfflineTruth SocketSessionLive RegisteredInGroup SupportInv
  SerialInv GroupMatchesRegistry OnlyActiveSessions
