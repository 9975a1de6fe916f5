CONSTANTS
  Users = {alice, bob}
  Founders = {alice}
  Workers = {w1, w2}
  CanCrash = FALSE
SPECIFICATION Spec
CHECK_DEADLOCK FALSE
INVARIANT SessionsShowRole
