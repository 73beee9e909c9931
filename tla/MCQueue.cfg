SPECIFICATION Spec
CONSTANTS
  Elem = {zero, p1, p2}
  ZeroElem = zero
  NoElem = none
  Capacity = 3
INVARIANT TypeOK
PROPERTY ImplementsFifo
