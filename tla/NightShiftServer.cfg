\* Six requests to four workspaces with room for three, over two windows.
SPECIFICATION ServerSpec
CONSTANTS
  ip1 = ip1
  publicBeta = publicBeta
  w1 = w1
  w2 = w2
  w3 = w3
  Ip = {ip1}
  Limit <- MCLimit
  RateLimitWindow = 2
  Second = 2
  MaxClock = 3
  WorkspaceId = {publicBeta, w1, w2, w3}
  DefaultWorkspaceId = publicBeta
  WorkspaceTtl = 3
  MaxWorkspaces = 3
  Request <- MCRequest
  MethodOf <- MCMethodOf
  UrlOf <- MCUrlOf
  IpOf <- MCIpOf
  HeaderOf <- MCHeaderOf
  HasActor <- MCHasActor
CHECK_DEADLOCK FALSE
INVARIANTS
  WorkspacesAreIsolated
  InFlightStoreIsCurrent
  BurstIsBounded
  PatienceIsServed
PROPERTIES
  DroppedForAReason
