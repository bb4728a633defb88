SPECIFICATION Spec
CONSTANTS
  None = None
  SomeTexts <- Sampled
  SomeNumbers <- SampledNumbers
  SomeContents <- SampledContents
  NewerFields <- Newer
  MaxSets = 2
INVARIANTS TypeOK ReadAsWritten PassedOnUnchanged ObjectShowsBytes
