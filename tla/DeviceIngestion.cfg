SPECIFICATION Spec
CONSTANTS
  o1 = o1
  o2 = o2
  k1 = k1
  k2 = k2
  d1 = d1
  d2 = d2
  a1 = a1
  a2 = a2
  q1 = q1
  q2 = q2
  Orgs = {o1, o2}
  Tokens = {k1, k2}
  Devices = {d1, d2}
  Agents = {a1, a2}
  Requests = {q1, q2}
  OrgOf <- MCOrgOf
  RuntimeOf <- MCRuntimeOf
  Contents <- MCContents
  Presets <- MCPresets
  Senders <- MCSenders
  Unknown = Unknown
  None = None
  MaxChanges = 2
  MaxFaults = 1
INVARIANTS FleetIsLastSnapshot TokenVerifiesOneDevice
PROPERTIES RevokedStaysRevoked OthersOnlyAtBirth DevicesRecover
