SPECIFICATION FairSpec
CONSTANTS
  nem = nem
  a = a
  b = b
  NoDom = NoDom
  Dom = {nem, a}
  Nemesis = nem
  QoS <- LiveQoS
  Removable = {}
  Tunable = {}
  Timeouts = {1, 9}
  Forever = 9
  TickLen = 1
  Quantum = 2
  QSize = 2
  NumOutEvs = 1
  Late = 2
PROPERTIES SleepersWake NoStarvation
