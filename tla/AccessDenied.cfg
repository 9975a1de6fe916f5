CONSTANTS
  Users = {u1}
  Groups = {}
  RowIds = {r1, r2}
  Workers = {w1, w2}
  Timeouts = {1}
  Ends = {1}
  MaxTime = 1
  NoEnd = NoEnd
SPECIFICATION Spec
CHECK_DEADLOCK FALSE
INVARIANT DeniedGivesNoAccess
