SPECIFICATION Spec
CONSTANTS
  Sender = {s1, s2}
  s1 = s1
  s2 = s2
  Receiver = Receiver
  None = None
  MaxAttempts = 2
  MaxCodes = 2
  Faults <- FaultMix
  Browsers <- Mixed
SYMMETRY SenderSymmetry
CHECK_DEADLOCK FALSE
INVARIANTS KeysAgree AcceptedOnce PhasesRespected NoSpuriousFailure NobodyStuck
