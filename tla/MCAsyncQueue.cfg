SPECIFICATION FairSpec
CONSTANTS
  Threads = {t1, t2, t3, t4}
  Items = {x, Null}
  Null = Null
  MaxLen = 3
INVARIANTS TypeOK WaitingExact NoLostWakeup
PROPERTY NeverStuck
CHECK_DEADLOCK FALSE
