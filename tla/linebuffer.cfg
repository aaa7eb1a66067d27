SPECIFICATION Spec
CONSTANTS
  Lines = {l1, l2, l3}
  Readers = {w1, w2}
  InitialSize = 0
  DefaultSize = 3
  None = None
SYMMETRY Symmetry
INVARIANTS TypeOK RingInv
PROPERTY ImplementsLog
