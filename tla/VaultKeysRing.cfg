CONSTANTS
  alice = alice
  bob = bob
  carol = carol
  Users = {alice, bob}
  Keys <- ThreeKeys
  Owner <- ThreeOwners
  Creds = {}
  LegacyKeys = {}
  LegacyCreds = {}
  Workers = {w1, w2}
  InitAdmins = {alice}
SPECIFICATION RingSpec
CHECK_DEADLOCK FALSE
SYMMETRY Symmetry
INVARIANTS TypeOK OneLiveKey TrustNeedsSoloAdmin
