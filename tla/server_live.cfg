SPECIFICATION FairSpec
CONSTANTS
  p1 = p1
  p2 = p2
  p3 = p3
  a1 = a1
  Peer = {p1, p2}
  NoPeer = NoPeer
  Code = {c1}
  NoCode = NoCode
  Ip = {a1}
  IpOf <- OneAddress
  MaxSid = 1
  MaxWaitingCodes = 2
  MaxSessions = 2
  MaxConnectionsPerIp = 3
  MaxPrePairAttempts = 2
  MaxBadMessages = 1
  MaxCandidates = 1
  CodeTtl = 2
  PakeTimeout = 1
  PairTimeout = 1
  MaxSends = 5
  MaxSendFailures = 1
  Pinged = {p1, p2}


PROPERTIES SessionsEnd CodesEnd
INVARIANTS ConfirmedBeforeSignaling
