SPECIFICATION Spec
CONSTANTS
  nem = nem
  a = a
  b = b
  NoDom = NoDom
  Dom = {nem, a, b}
  Nemesis = nem
  QoS <- StopQoS
  Removable = {a}
  Tunable = {}
  Timeouts = {2}
  Forever = 9
  TickLen = 1
  Quantum = 1
  QSize = 3
  NumOutEvs = 0
  Late = 1
VIEW LiveState
INVARIANTS HeapsIndexed
PROPERTIES ImplementsAtropos
