SPECIFICATION FairSpec
CONSTANTS
  t1 = t1
  t2 = t2
  c1 = c1
  c2 = c2
  c3 = c3
  Tab = {t1, t2}
  Call = {c1, c2, c3}
  TabOf <- MCTabOf
  MayBe <- MCMayBe
  MaxSessions = 1
  MaxExpiries = 1
  MaxFaults = 1
CHECK_DEADLOCK FALSE
INVARIANTS
  RefreshExclusive
  RunsAtMostOnce
  RefusedOnlyForCause
  EndedSessionGrantsNothing
PROPERTY EveryCallEnds

