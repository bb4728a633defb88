SPECIFICATION Spec
CONSTANTS
  Characters <- Alphabet
  Messages <- SomeMessages
  Templates <- SomeTemplates
  Noises <- SomeNoises
  MaxFrame = 18
  MaxSent = 2
  MaxNoise = 2
INVARIANTS TypeOK DecodedAsMeant NothingHeldBack FramesAwaited
