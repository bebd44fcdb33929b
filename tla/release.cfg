SPECIFICATION FairSpec
CONSTANTS
  ann = ann
  bob = bob
  User = {ann, bob}
  Writers = {ann, bob}
  None = None
  Setups <- SomeSetups
  Wanted <- SomeWanted
  MaxDrift = 1
  MaxFaults = 1
  MaxCommit = 3
  Versioned = {1, 2}
  Passing = {1, 2}
  MaxRuns = 2
  MaxBuilds = 2
CHECK_DEADLOCK FALSE
INVARIANTS PublicAgree ConfiguredIsReady
PROPERTIES PublicImmutable RerunCompletes
