SPECIFICATION Spec
CONSTANTS
  Elem = {e1, e2, e3, e4, e5, e6}
  Vals = {1, 2, 3, 4}
  Null = Null
SYMMETRY Sym
VIEW InUse
INVARIANTS HeapIsQueue
