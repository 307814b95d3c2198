SPECIFICATION FairSpec
CONSTANTS
  b1 = b1
  b2 = b2
  c1 = c1
  c2 = c2
  c3 = c3
  s1 = s1
  s2 = s2
  NoBinding = NoBinding
  Nobody = Nobody
  Bindings = {b1, b2}
  Servers = {s1, s2}
  Clients = {c1, c2, c3}
  BindingOf <- TwoShare
  Settled = TRUE
  MaxCalls <- FirstTwice
CHECK_DEADLOCK FALSE
INVARIANTS TypeOK QueueCounted  NoCallLost
PROPERTIES CallsImplemented  ClosedIsBuried
