SPECIFICATION Spec
CONSTANTS
  nem = nem
  a = a
  b = b
  NoDom = NoDom
  Dom = {nem, a, b}
  Nemesis = nem
  QoS <- QueueQoS
  Removable = {a}
  Tunable = {}
  Timeouts = {1, 9}
  Forever = 9
  TickLen = 1
  Quantum = 2
  QSize = 3
  NumOutEvs = 1
  Late = 1
VIEW LiveState
INVARIANTS TypeOK QueuesConsistent NoLostWakeup TimerCovers
