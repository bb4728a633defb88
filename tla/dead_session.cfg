SPECIFICATION Spec
CONSTANTS
  None = None
  Blank = Blank
  SocketChannels = {}
  WebChannels = {w1, w2, w3}
  Accounts = {a}
  SessionIds = {s1, s2, s3, s4}
  Loops <- AllChannels
  LoopOf <- OwnLoop
  LoginIds <- AnyId
INVARIANT SessionsActive
