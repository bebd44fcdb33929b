SPECIFICATION FairSpec
CONSTANTS
  N = 2
  Size <- TwoFiles
  Old <- TwoOld
  Resume = TRUE
  MaxQueue = 3
  Faults = {"timeout", "link", "disk", "rot", "source"}
INVARIANTS TypeOK BookkeepingAgrees DoneIsVerified
PROPERTIES ImplementsDelivery BothEnd
