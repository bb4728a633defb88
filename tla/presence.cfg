SPECIFICATION Spec
CONSTANTS
  None = None
  Blank = Blank
  SocketChannels = {t1}
  WebChannels = {w1, w2}
  Accounts <- SourceIds
  SessionIds = {s1, s2, s3, s4, s5}
  Loops <- AllChannels
  LoopOf <- OwnLoop
  LoginIds <- RebindId
PROPERTIES ImplementsPresence
SYMMETRY Symmetry
