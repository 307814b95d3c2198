SPECIFICATION FairSpec
CONSTANTS
  a = a
  b = b
  NoThread = NoThread
  Threads = {a}
  Timed = {a}
  Maskers = {a}
  Blankers = {a}
  Kinds = {"channel"}
  Closing = "destroy"
  Words = 32
  Top = 3
  MaxStep = 2
  MaxAhead <- NextOnly
  Window = 5
INVARIANT SleepersQueued
PROPERTIES  EnlistedWhenDead EventsWake WakesOnClose
