SPECIFICATION ResumeFairSpec
CONSTANTS
  a = a
  b = b
  c = c
  t1 = t1
  t2 = t2
  Tabs = {t1, t2}
  Files = {a, b, c}
  MaxRecords = 2
  MaxKey = 4
  MaxPart = 6
  Worlds <- Mixed
CHECK_DEADLOCK FALSE
INVARIANTS ResumeTypeOK KeptIsFound
PROPERTIES Recovers
