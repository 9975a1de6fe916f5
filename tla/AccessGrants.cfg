CONSTANTS
  Users = {u1}
  Groups = {staff}
  RowIds = {r1, r2, r3}
  Workers = {w1, w2}
  Timeouts = {1}
  Ends = {1}
  MaxTime = 1
  NoEnd = NoEnd
SPECIFICATION Spec
CHECK_DEADLOCK FALSE
SYMMETRY Symmetry
INVARIANTS TypeOK RequestedAccessEnds OpenRowsBounded
PROPERTY ImplementsLease
