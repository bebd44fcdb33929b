SPECIFICATION Spec
CONSTANTS
  p1 = p1
  p2 = p2
  p3 = p3
  a1 = a1
  Peer = {p1, p2, p3}
  NoPeer = NoPeer
  Code = {c1}
  NoCode = NoCode
  Ip = {a1}
  IpOf <- OneAddress
  MaxSid = 2
  MaxWaitingCodes = 2
  MaxSessions = 2
  MaxConnectionsPerIp = 3
  MaxPrePairAttempts = 2
  MaxBadMessages = 1
  MaxCandidates = 0
  CodeTtl = 2
  PakeTimeout = 1
  PairTimeout = 1
  MaxSends = 5
  MaxSendFailures = 2
  Pinged = {}
SYMMETRY PeerSymmetry
INVARIANTS RegistryConsistent ClientViewAgrees
PROPERTIES LeaseNeverRenewed SessionEndsForBoth
