CONSTANTS
  alice = alice
  bob = bob
  carol = carol
  Users = {alice, bob}
  Keys <- TwoKeys
  Owner <- TwoOwners
  Creds = {}
  LegacyKeys = {}
  LegacyCreds = {}
  Workers = {w1}
  InitAdmins = {alice}
SPECIFICATION Spec
CHECK_DEADLOCK FALSE
PROPERTY RevokedStaysRevoked
