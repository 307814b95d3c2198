SPECIFICATION FairSpec
CONSTANTS
  main = main
  x = x
  w1 = w1
  w2 = w2
  NoThread = NoThread
  Threads = {main, x, w1, w2}
  Started <- AtStart
  Preemptive = TRUE
  MaxEntered <- MainNests
  Workers = {w1, w2}
  Faulting = {x}
  Criticals = {x}
  MaxFaults = 2
CHECK_DEADLOCK FALSE
INVARIANTS TypeOK CurrentMarked SlotsRestored ModeKept CountKept
PROPERTIES CriticalKept EverybodyRuns 
