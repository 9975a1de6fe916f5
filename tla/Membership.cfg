CONSTANTS
  Users = {alice, bob, carol}
  Founders = {alice}
  Workers = {w1, w2}
  CanCrash = TRUE
  LastInvite = 2
  Identities = {"p", "q"}
  MaxUses = 1
  AdminCalls = {w1, w2}
  JoinCalls = {bob, carol}
  CodeIds = {"x", "y"}
  Digits = {"1", "2"}
  Ceiling = 1
  Senders = {"r", "s"}
  Verifiers = {"v", "w"}
  Sheets = {bob, carol}
  Folders = {"f"}
  Names = {"n", "m"}
  Texts = {"t", "u"}
  WriteCalls = {w1, w2}
  MaxVersions = 10
  Images = {bob, carol, "i"}
  Savers = {w1, w2, "u"}
  OfPerson = TRUE
  ObjectStore = TRUE
SPECIFICATION MembersSpec
\* The calls are so many, and every member may be gone
CHECK_DEADLOCK FALSE
SYMMETRY Symmetry
INVARIANTS TypeOK SessionsMirrorUsers
PROPERTIES LastAdminRemoved RowsForCause
