SPECIFICATION SignInSpec
CONSTANTS
  c1 = c1
  c2 = c2
  c3 = c3
  Users = {"invited", "other"}
  Invitee = "invited"
  Nobody = Nobody
  Codes = {1, 2, 3, 4}
  Chains = {c1, c2, c3}
  MaxVisits = 2
  MaxAsks = 1
  MaxFaults = 1
INVARIANTS SignInTypeOK CodeSignsInOnce OneCodePerVisit
PROPERTY LoadingEnds
CHECK_DEADLOCK FALSE
