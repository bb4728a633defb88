SPECIFICATION FairSpec
CONSTANTS
  None = None
  Channels <- Connections
  Loops = {1, 2}
  LoopOf <- OnLoop
  Accounts <- Ids
  Login <- IdOf
  Owner <- SessionOf
  Messages <- Talk
  MaxSent = 2
INVARIANTS TypeOK WriteInv OnceEach InOrder ForItsReceiver ReachesAll
PROPERTIES WritesEnd Delivered ImplementsMailboxes
