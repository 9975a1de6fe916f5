CONSTANTS
  alice = alice
  bob = bob
  carol = carol
  Users = {alice, bob}
  Keys <- TwoKeys
  Owner <- TwoOwners
  Creds = {c1, c2}
  LegacyKeys = {1}
  LegacyCreds = {c1}
  Workers = {w1, w2}
  InitAdmins = {alice}
  MaxChanges = 2
  Memberships = {p, q}
  Onboarding = "n"
  MaxOutside = 1
  MaxKeys = 2
  MaxCalls = 1
  MaxChangesOfKeys = 1
SPECIFICATION WorkspaceSpec
\* Each part may end: the calls are so many
CHECK_DEADLOCK FALSE
SYMMETRY WorkspaceSymmetry
INVARIANTS SharedSymmetricKey RowsOnlyForApproved
PROPERTIES PagesTold
