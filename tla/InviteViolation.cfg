SPECIFICATION SignInSpec
CONSTANTS
  c1 = c1
  c2 = c2
  c3 = c3
  Users = {"invited", "other"}
  Invitee = "invited"
  Nobody = Nobody
  Codes = {1, 2}
  Chains = {c1, c2, c3}
  MaxVisits = 1
  MaxAsks = 0
  MaxFaults = 0
PROPERTY InviteReachesCode
CHECK_DEADLOCK FALSE
