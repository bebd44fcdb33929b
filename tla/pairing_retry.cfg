SPECIFICATION Spec
CONSTANTS
  Sender = {s1, s2}
  s1 = s1
  s2 = s2
  Receiver = Receiver
  None = None
  MaxAttempts = 3
  MaxCodes = 2
  Faults <- NoFaults
  Browsers <- NoBrowsers
CHECK_DEADLOCK FALSE
INVARIANTS BadSenderNotFatal
