SPECIFICATION Spec
CONSTANTS
  t1 = t1
  t2 = t2
  t3 = t3
  r1 = r1
  None = None
  Threads <- MCThreads
  Rids <- MCRids
  MaxVersion = 2
INVARIANT RepairIsCurrent
