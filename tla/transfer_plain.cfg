SPECIFICATION FairSpec
CONSTANTS
  N = 3
  Size <- ThreeFiles
  Old <- ThreeOld
  Resume = TRUE
  MaxQueue = 8
  Faults = {}
INVARIANTS NoSpuriousFailure
PROPERTIES ReceiveSucceeds
