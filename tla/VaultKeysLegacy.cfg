CONSTANTS
  alice = alice
  bob = bob
  carol = carol
  Users <- MCUsers
  Keys <- ChainKeys
  Owner <- ChainOwners
  Creds = {c1}
  LegacyKeys = {1}
  LegacyCreds = {c1}
  Workers = {w1}
  InitAdmins = {alice}
SPECIFICATION Spec
CHECK_DEADLOCK FALSE
INVARIANT ProvisionedKeysOpen
