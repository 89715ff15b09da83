SPECIFICATION Spec
CONSTANTS
  Founder = founder
  User = {founder, ann}
  Invitation = {i1, i2}
  Request = {q1, q2}
  NoUser = none
  NoInvitation = none
SYMMETRY RequestSymmetry
INVARIANTS OwnerUntilInvited
PROPERTIES NoJoinAfterRevocation JoiningUsesAnInvitation
