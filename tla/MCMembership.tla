---------------------------- MODULE MCMembership ----------------------------
(* Instances of Membership: three users, an admin's and a member's invite,  *)
(* and requests that may run any of the handlers.                           *)
EXTENDS Membership, TLC

CONSTANTS i1, i2

MCInviteRole == [i \in Invite |-> IF i = i1 THEN "admin" ELSE "member"]

Symmetry == Permutations(User) \cup Permutations(Request)
============================================================================
