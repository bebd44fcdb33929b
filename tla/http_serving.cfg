SPECIFICATION Spec
CONSTANTS
  r1 = r1
  r2 = r2
  r3 = r3
  r4 = r4
  a1 = a1
  Request = {r1, r2, r3, r4}
  Address = {a1}
  From <- OneOrigin
  Size <- Sizes
  MaxInFlight = 3
  MaxHits <- Limits
  Window = 2
  MaxTime = 3
  CloseFails = TRUE
SYMMETRY RequestSymmetry
INVARIANTS TypeOK LimitExact BudgetCoversBodies
