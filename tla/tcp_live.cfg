SPECIFICATION FairSpec
CONSTANTS
  None = None
  Blank = Blank
  SocketChannels = {t1, t2}
  WebChannels = {}
  Accounts = {a}
  SessionIds = {s1, s2, s3, s4}
  Loops <- AllChannels
  LoopOf <- OwnLoop
  LoginIds <- AnyId
PROPERTIES HandlersFinish DisconnectForgotten ImplementsFairPresence
