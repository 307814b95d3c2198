SPECIFICATION FairSpec
CONSTANTS
  a = a
  b = b
  d = d
  Nobody = Nobody
  Thread = {a, b, d}
  Timed = {a}
  Casters = {b}
  MaxLock = 4
  MaxWait = 3
CHECK_DEADLOCK FALSE
INVARIANTS TypeOK FirstComeFirstServed
PROPERTIES BroadcastWakes  LockGranted
