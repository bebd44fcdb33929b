SPECIFICATION Spec
CONSTANTS
  p1 = p1
  p2 = p2
  p3 = p3
  a1 = a1
  Peer = {p1, p2, p3}
  NoPeer = NoPeer
  Code = {c1, c2}
  NoCode = NoCode
  Ip = {a1}
  IpOf <- OneAddress
  MaxSid = 1
  MaxWaitingCodes = 1
  MaxSessions = 1
  MaxConnectionsPerIp = 2
  MaxPrePairAttempts = 1
  MaxBadMessages = 2
  MaxCandidates = 0
  CodeTtl = 1
  PakeTimeout = 1
  PairTimeout = 1
  MaxSends = 5
  MaxSendFailures = 0
  Pinged = {}
SYMMETRY PeerAndCodeSymmetry
INVARIANTS TypeOK ConnectionsCounted

