\* Two concurrent requests of any kind, from three users.
SPECIFICATION Spec
CONSTANTS
  i1 = i1  i2 = i2
  User = {u1, u2, u3}
  Invite = {i1, i2}
  InviteRole <- MCInviteRole
  Request = {q1, q2}
  NoRequest = NoRequest
  NoUser = NoUser
  NoInvite = NoInvite
SYMMETRY Symmetry
INVARIANTS AtMostOneOwner InviteJoinsOnce
PROPERTIES GuardedDeleteSparesMembers OwnerLostOnlyToTransferRace
CHECK_DEADLOCK FALSE
