\* A role change overtaken by a transfer leaves no owner.
SPECIFICATION Spec
CONSTANTS
  i1 = i1  i2 = i2
  User = {u1, u2, u3}
  Invite = {i1, i2}
  InviteRole <- MCInviteRole
  Request = {q1, q2}
  NoRequest = NoRequest
  NoUser = NoUser
  NoInvite = NoInvite
INVARIANTS ExactlyOneOwner
CHECK_DEADLOCK FALSE
