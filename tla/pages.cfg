SPECIFICATION FairSpec
CONSTANTS
  None = None
  Pages <- Windows
  DeviceId <- IdOf
  Forms <- Sampled
  MaxSent = 3
  MaxBeats = 1
  MaxFrame = 159
  Savings <- Uncompressed
  LK <- TextLK
  UD <- TextUD
  OFFLINE <- TextOFFLINE
  Factory <- Text3G
  Length <- Text0009
  Length7 <- Text0007
  Now <- TextNow
INVARIANTS TypeOK ShownAsTyped ShownToReceiver PagesInv
PROPERTIES LoginsAnswered
