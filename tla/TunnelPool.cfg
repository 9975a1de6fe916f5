CONSTANTS
  Queries = {q1, q2, q3}
  Targets = {prod, test}
  Ports = {p1, p2}
  MaxTunnels = 3
SPECIFICATION FairSpec
CHECK_DEADLOCK FALSE
INVARIANTS TypeOK RefsCountUsers NoTunnelLost OwnTargetWhileOpen
PROPERTIES ClosedUnderQuery TunnelsTurnOver
