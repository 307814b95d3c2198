SPECIFICATION Spec
CONSTANTS
  a = a
  b = b
  NoThread = NoThread
  Threads = {a, b}
  Timed = {}
  Maskers = {}
  Blankers = {}
  Kinds = {"channel", "local"}
  Closing = "close"
  Words = 32
  Top = 4
  MaxStep = 2
  MaxAhead <- NextOnly
  Window = 5
INVARIANTS TypeOK NoLostEvent FifoBound NoneOverdue
