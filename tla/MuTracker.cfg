SPECIFICATION FairSpec
CONSTANTS
  t1 = t1
  t2 = t2
  r1 = r1
  r2 = r2
  m1 = m1
  m2 = m2
  m3 = m3
  None = None
  Threads <- MCThreads
  Rids <- MCRids
  Unowned <- MCUnowned
  Mutexes <- MCMutexes
INVARIANTS
  MutualExclusion
  FlagAccuracy
  NoFatalUnlock
PROPERTIES
  ImplementsItemLock
  LockItemReturns
