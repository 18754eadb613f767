\* Waiting for row locks ends: two users and one invite.
SPECIFICATION FairSpec
CONSTANTS
  i1 = i1  i2 = i2
  User = {u1, u2}
  Invite = {i1}
  InviteRole <- MCInviteRole
  Request = {q1, q2}
  NoRequest = NoRequest
  NoUser = NoUser
  NoInvite = NoInvite
PROPERTIES EveryRequestEnds
CHECK_DEADLOCK FALSE
