SPECIFICATION Spec
CONSTANTS
  nem = nem
  a = a
  b = b
  NoDom = NoDom
  Dom = {nem, a}
  Nemesis = nem
  QoS <- TunedQoS
  Removable = {}
  Tunable = {a}
  Timeouts = {3, 19}
  Forever = 19
  TickLen = 2
  Quantum = 3
  QSize = 2
  NumOutEvs = 1
  Late = 4
VIEW LiveState
INVARIANTS ContractKept
