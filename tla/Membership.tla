----------------------------- MODULE Membership -----------------------------
(***************************************************************************)
(* Who belongs to a workspace: WorkspaceMembershipService (invites, roles, *)
(* removal, leaving, ownership transfer) and WorkspaceDeletionService, for *)
(* one workspace and any number of concurrent requests.                    *)
(*                                                                         *)
(* A step is one SQL statement under READ COMMITTED.  transferOwnership    *)
(* and deleteWorkspace hold the workspace row FOR UPDATE; an insert of a   *)
(* member or an invite needs FOR KEY SHARE on that row, for its foreign    *)
(* key; every other statement reads and writes without waiting for it.     *)
(* The writes of a transaction become visible together, in its last step.  *)
(***************************************************************************)
EXTENDS Naturals

CONSTANTS
  User, Invite,
  InviteRole,  \* [Invite -> {"admin", "member"}]: the role an invite grants
  Request,     \* slots for requests in flight
  NoRequest, NoUser, NoInvite

Roles == {"none", "member", "admin", "owner"}

ASSUME MembershipAssumption ==
  /\ InviteRole \in [Invite -> {"admin", "member"}]
  /\ NoRequest \notin Request
  /\ NoUser \notin User
  /\ NoInvite \notin Invite

VARIABLES
  exists,   \* the workspaces row exists
  role,     \* role of each user's workspace_members row, "none" without a row
  row,      \* id of that row, 0 without one
  nextRow,  \* source of newId()
  invite,   \* state of each workspace_invites row
  lock,     \* request whose transaction holds the workspace row FOR UPDATE
  claim,    \* request whose transaction has updated the invite's row
  op, pc,   \* the handler a request runs and its next statement
  actor,    \* claims.sub
  actorRole,\* the role JwtAuthGuard attached to the request
  target,   \* the user a request acts on
  ticket,   \* the invite a request creates or redeems
  newRole,  \* dto.role of changeMemberRole
  guarded,  \* options.requireNoOtherMembers of deleteWorkspace
  own, seen,\* row ids of the actor and of the target, as read
  joined,   \* history: members each invite has created
  overtaken \* history: a transfer committed since the request's read

tableVars   == <<exists, role, row, nextRow, invite>>
lockVars    == <<lock, claim>>
paramVars   == <<op, actor, actorRole, target, ticket, newRole, guarded>>
readVars    == <<own, seen>>
historyVars == <<joined, overtaken>>
vars == <<tableVars, lockVars, paramVars, pc, readVars, historyVars>>

Member(u) == role[u] # "none"

Go(q, from, to) ==
  /\ pc[q] = from
  /\ pc' = [pc EXCEPT ![q] = to]

\* The request ends; its transaction, if any, commits or rolls back and
\* releases its locks.
End(q) ==
  /\ pc' = [pc EXCEPT ![q] = "idle"]
  /\ op' = [op EXCEPT ![q] = "none"]
  /\ actor' = [actor EXCEPT ![q] = NoUser]
  /\ actorRole' = [actorRole EXCEPT ![q] = "none"]
  /\ target' = [target EXCEPT ![q] = NoUser]
  /\ ticket' = [ticket EXCEPT ![q] = NoInvite]
  /\ newRole' = [newRole EXCEPT ![q] = "none"]
  /\ guarded' = [guarded EXCEPT ![q] = FALSE]
  /\ own' = [own EXCEPT ![q] = 0]
  /\ seen' = [seen EXCEPT ![q] = 0]
  /\ lock' = IF lock = q THEN NoRequest ELSE lock
  /\ claim' = [i \in Invite |-> IF claim[i] = q THEN NoRequest ELSE claim[i]]

Reject(q) == End(q) /\ UNCHANGED <<tableVars, historyVars>>

Free == lock = NoRequest

----------------------------------------------------------------------------
\* JwtAuthGuard and RolesGuard: the actor's current role, read once.

Begin(q, name, first, u) ==
  /\ pc[q] = "idle"
  /\ pc' = [pc EXCEPT ![q] = first]
  /\ op' = [op EXCEPT ![q] = name]
  /\ actor' = [actor EXCEPT ![q] = u]
  /\ actorRole' = [actorRole EXCEPT ![q] = role[u]]
  /\ overtaken' = [overtaken EXCEPT ![q] = FALSE]
  /\ UNCHANGED <<tableVars, lockVars, own, joined>>

BeginInvite(q, u, i) ==
  /\ role[u] \in {"owner", "admin"}
  /\ invite[i] = "none" /\ \A p \in Request : ticket[p] # i
  /\ Begin(q, "invite", "insertInvite", u)
  /\ ticket' = [ticket EXCEPT ![q] = i]
  /\ UNCHANGED <<target, newRole, guarded, seen>>

\* Anyone with an account may redeem a code; the token is another workspace's.
BeginAccept(q, u, i) ==
  /\ invite[i] # "none"
  /\ Begin(q, "accept", "readInvite", u)
  /\ ticket' = [ticket EXCEPT ![q] = i]
  /\ UNCHANGED <<target, newRole, guarded, seen>>

\* changeMemberRole and removeMember name a member by the id of its row.
BeginChange(q, u, t, r) ==
  /\ role[u] \in {"owner", "admin"}
  /\ u # t /\ Member(t)
  /\ Begin(q, "change", "readTarget", u)
  /\ target' = [target EXCEPT ![q] = t]
  /\ seen' = [seen EXCEPT ![q] = row[t]]
  /\ newRole' = [newRole EXCEPT ![q] = r]
  /\ UNCHANGED <<ticket, guarded>>

BeginRemove(q, u, t) ==
  /\ role[u] \in {"owner", "admin"}
  /\ u # t /\ Member(t)
  /\ Begin(q, "remove", "readTarget", u)
  /\ target' = [target EXCEPT ![q] = t]
  /\ seen' = [seen EXCEPT ![q] = row[t]]
  /\ UNCHANGED <<ticket, newRole, guarded>>

BeginLeave(q, u) ==
  /\ Member(u)
  /\ Begin(q, "leave", "readSelf", u)
  /\ UNCHANGED <<target, ticket, newRole, guarded, seen>>

BeginTransfer(q, u, t) ==
  /\ role[u] = "owner"
  /\ u # t
  /\ Begin(q, "transfer", "lock", u)
  /\ target' = [target EXCEPT ![q] = t]
  /\ UNCHANGED <<ticket, newRole, guarded, seen>>

BeginDelete(q, u, alone) ==
  /\ Member(u)
  /\ Begin(q, "delete", "readOwner", u)
  /\ guarded' = [guarded EXCEPT ![q] = alone]
  /\ UNCHANGED <<target, ticket, newRole, seen>>

----------------------------------------------------------------------------
\* invite and acceptInvite.

\* workspaceInvite.create: waits for the workspace row, fails without it.
CreateInvite(q) ==
  /\ pc[q] = "insertInvite"
  /\ Free
  /\ End(q)
  /\ invite' = [invite EXCEPT ![ticket[q]] = IF exists THEN "open" ELSE @]
  /\ UNCHANGED <<exists, role, row, nextRow, historyVars>>

\* The checks before the transaction: unused, not expired, the code's email,
\* the workspace, no membership yet.
ReadInvite(q) ==
  /\ pc[q] = "readInvite"
  /\ \/ /\ invite[ticket[q]] = "open" /\ exists /\ ~Member(actor[q])
        /\ Go(q, "readInvite", "claim")
        /\ UNCHANGED <<tableVars, lockVars, paramVars, readVars, historyVars>>
     \/ Reject(q)

\* Mutant: the update is not conditional on usedAt.
ClaimAnyInvite(q) ==
  LET i == ticket[q] IN
  /\ pc[q] = "claim"
  /\ claim[i] = NoRequest
  /\ Go(q, "claim", "insert")
  /\ claim' = [claim EXCEPT ![i] = q]
  /\ UNCHANGED <<tableVars, lock, paramVars, readVars, historyVars>>

\* workspaceInvite.updateMany where usedAt is null: it waits for the invite's
\* row lock, and counts 0 when the invite was used or erased.
ClaimInvite(q) ==
  LET i == ticket[q] IN
  /\ pc[q] = "claim"
  /\ claim[i] = NoRequest
  /\ IF invite[i] = "open"
     THEN /\ Go(q, "claim", "insert")
          /\ claim' = [claim EXCEPT ![i] = q]
          /\ UNCHANGED <<tableVars, lock, paramVars, readVars, historyVars>>
     ELSE Reject(q)

\* The new row and the used invite, once workspaceMember.create succeeds.
Join(q) ==
  LET u == actor[q]
      i == ticket[q]
  IN /\ role' = [role EXCEPT ![u] = InviteRole[i]]
     /\ row' = [row EXCEPT ![u] = nextRow]
     /\ nextRow' = nextRow + 1
     /\ invite' = [invite EXCEPT ![i] = "used"]
     /\ joined' = [joined EXCEPT ![i] = @ + 1]
     /\ End(q)
     /\ UNCHANGED <<exists, overtaken>>

\* Mutant: no foreign key, so the insert neither waits nor fails.
CreateMemberNoForeignKey(q) ==
  /\ pc[q] = "insert"
  /\ IF ~Member(actor[q]) THEN Join(q) ELSE Reject(q)

\* workspaceMember.create: waits for the workspace row; its foreign key fails
\* when the workspace is gone, its unique index when the user has joined
\* since.  Either way the claim is rolled back.
CreateMember(q) ==
  /\ pc[q] = "insert"
  /\ Free
  /\ IF exists /\ ~Member(actor[q]) THEN Join(q) ELSE Reject(q)

----------------------------------------------------------------------------
\* changeMemberRole, removeMember and leave: a read, then an unlocked write.

SeenRow(q) == row[target[q]] = seen[q]

MayTouch(q) ==
  LET r == role[target[q]] IN r # "owner" /\ (actorRole[q] = "admin" => r = "member")

\* Mutant: does not protect the owner.
ReadTargetUnchecked(q) ==
  /\ pc[q] = "readTarget"
  /\ IF SeenRow(q)
     THEN /\ Go(q, "readTarget", "write")
          /\ UNCHANGED <<tableVars, lockVars, paramVars, readVars, historyVars>>
     ELSE Reject(q)

\* workspaceMember.findFirst by the row's id, and the role checks.
ReadTarget(q) ==
  /\ pc[q] = "readTarget"
  /\ IF SeenRow(q) /\ MayTouch(q)
     THEN /\ Go(q, "readTarget", "write")
          /\ UNCHANGED <<tableVars, lockVars, paramVars, readVars, historyVars>>
     ELSE Reject(q)

\* workspaceMember.update by the row's id.
ChangeRole(q) ==
  /\ op[q] = "change"
  /\ pc[q] = "write"
  /\ IF SeenRow(q)
     THEN /\ role' = [role EXCEPT ![target[q]] = newRole[q]]
          /\ End(q)
          /\ UNCHANGED <<exists, row, nextRow, invite, historyVars>>
     ELSE Reject(q)

\* A raw DELETE: the row is gone, and with it its place in the unique index.
RemoveRow(u) ==
  /\ role' = [role EXCEPT ![u] = "none"]
  /\ row' = [row EXCEPT ![u] = 0]
  /\ UNCHANGED <<exists, nextRow, invite>>

\* DELETE by the row's id.
RemoveMember(q) ==
  /\ op[q] = "remove"
  /\ pc[q] = "write"
  /\ IF SeenRow(q) THEN RemoveRow(target[q]) ELSE UNCHANGED tableVars
  /\ End(q)
  /\ UNCHANGED historyVars

\* leave's own findFirst: an owner is sent away.
ReadSelf(q) ==
  /\ pc[q] = "readSelf"
  /\ IF role[actor[q]] \in {"admin", "member"}
     THEN /\ Go(q, "readSelf", "write")
          /\ UNCHANGED <<tableVars, lockVars, paramVars, readVars, historyVars>>
     ELSE Reject(q)

\* DELETE by workspace and user, whatever role the row has now.
Leave(q) ==
  /\ op[q] = "leave"
  /\ pc[q] = "write"
  /\ RemoveRow(actor[q])
  /\ End(q)
  /\ UNCHANGED historyVars

----------------------------------------------------------------------------
\* transferOwnership and deleteWorkspace: transactions under the row lock.

\* Mutant: a plain SELECT instead of FOR UPDATE.
LockWorkspaceNot(q) ==
  /\ pc[q] = "lock"
  /\ IF exists
     THEN /\ Go(q, "lock", "verify")
          /\ UNCHANGED <<tableVars, lockVars, paramVars, readVars, historyVars>>
     ELSE Reject(q)

\* SELECT ... FOR UPDATE: waits, and finds no row once the workspace is gone.
LockWorkspace(q) ==
  /\ pc[q] = "lock"
  /\ Free
  /\ IF exists
     THEN /\ Go(q, "lock", "verify")
          /\ lock' = q
          /\ UNCHANGED <<tableVars, claim, paramVars, readVars, historyVars>>
     ELSE Reject(q)

\* Mutant: a rejected transfer leaves its transaction open.
VerifyActorHangs(q) ==
  /\ op[q] = "transfer"
  /\ pc[q] = "verify"
  /\ role[actor[q]] = "owner"
  /\ Go(q, "verify", "findTarget")
  /\ own' = [own EXCEPT ![q] = row[actor[q]]]
  /\ UNCHANGED <<tableVars, lockVars, paramVars, seen, historyVars>>

\* transfer: the actor must still be owner, read under the lock.
VerifyActor(q) ==
  /\ op[q] = "transfer"
  /\ pc[q] = "verify"
  /\ IF role[actor[q]] = "owner"
     THEN /\ Go(q, "verify", "findTarget")
          /\ own' = [own EXCEPT ![q] = row[actor[q]]]
          /\ UNCHANGED <<tableVars, lockVars, paramVars, seen, historyVars>>
     ELSE Reject(q)

FindTarget(q) ==
  /\ pc[q] = "findTarget"
  /\ IF Member(target[q])
     THEN /\ Go(q, "findTarget", "promote")
          /\ seen' = [seen EXCEPT ![q] = row[target[q]]]
          /\ UNCHANGED <<tableVars, lockVars, paramVars, own, historyVars>>
     ELSE Reject(q)

\* Both updates by row id, and the commit.  An update finds no row when its
\* member was removed since; then both are rolled back.
Promote(q) ==
  /\ pc[q] = "promote"
  /\ IF SeenRow(q) /\ row[actor[q]] = own[q]
     THEN /\ role' = [role EXCEPT ![actor[q]] = "admin", ![target[q]] = "owner"]
          /\ overtaken' = [r \in Request |-> pc[r] = "write"]
          /\ End(q)
          /\ UNCHANGED <<exists, row, nextRow, invite, joined>>
     ELSE Reject(q)

\* delete: the membership check outside the transaction; the connectors are
\* then cleaned up, and stay so even if the transaction rejects.
ReadOwner(q) ==
  /\ pc[q] = "readOwner"
  /\ IF role[actor[q]] = "owner"
     THEN /\ Go(q, "readOwner", "lock")
          /\ UNCHANGED <<tableVars, lockVars, paramVars, readVars, historyVars>>
     ELSE Reject(q)

Others(q) == {u \in User \ {actor[q]} : Member(u)}

\* delete: still the owner, and alone if that was asked for.
VerifyOwner(q) ==
  /\ op[q] = "delete"
  /\ pc[q] = "verify"
  /\ IF role[actor[q]] = "owner" /\ (guarded[q] => Others(q) = {})
     THEN /\ Go(q, "verify", "erase")
          /\ UNCHANGED <<tableVars, lockVars, paramVars, readVars, historyVars>>
     ELSE Reject(q)

\* The deletes in dependency order and the commit.  The delete of the invites
\* waits for the ones an acceptInvite has claimed.
Erase(q) ==
  /\ pc[q] = "erase"
  /\ \A i \in Invite : claim[i] = NoRequest
  /\ exists' = FALSE
  /\ role' = [u \in User |-> "none"]
  /\ row' = [u \in User |-> 0]
  /\ invite' = [i \in Invite |-> IF invite[i] = "none" THEN "none" ELSE "erased"]
  /\ End(q)
  /\ UNCHANGED <<nextRow, historyVars>>

\* An acceptInvite that holds its invite waits for the workspace, a deletion
\* that holds the workspace waits for the invite: Postgres aborts one of them.
DeadlockVictim(a, d) ==
  /\ pc[a] = "insert" /\ pc[d] = "erase" /\ lock = d
  /\ Reject(a) \/ Reject(d)

\* A statement rejects, the transaction times out or the process dies.
RequestFails(q) == pc[q] # "idle" /\ Reject(q)

----------------------------------------------------------------------------

Init ==
  /\ exists = TRUE
  /\ \E o \in User : /\ role = [u \in User |-> IF u = o THEN "owner" ELSE "none"]
                     /\ row = [u \in User |-> IF u = o THEN 1 ELSE 0]
  /\ nextRow = 2
  /\ invite = [i \in Invite |-> "none"]
  /\ lock = NoRequest
  /\ claim = [i \in Invite |-> NoRequest]
  /\ op = [q \in Request |-> "none"]
  /\ pc = [q \in Request |-> "idle"]
  /\ actor = [q \in Request |-> NoUser]
  /\ actorRole = [q \in Request |-> "none"]
  /\ target = [q \in Request |-> NoUser]
  /\ ticket = [q \in Request |-> NoInvite]
  /\ newRole = [q \in Request |-> "none"]
  /\ guarded = [q \in Request |-> FALSE]
  /\ own = [q \in Request |-> 0]
  /\ seen = [q \in Request |-> 0]
  /\ joined = [i \in Invite |-> 0]
  /\ overtaken = [q \in Request |-> FALSE]

Arrive(q) ==
  \E u \in User :
    \/ \E i \in Invite : BeginInvite(q, u, i) \/ BeginAccept(q, u, i)
    \/ \E t \in User : \/ \E r \in {"admin", "member"} : BeginChange(q, u, t, r)
                       \/ BeginRemove(q, u, t)
                       \/ BeginTransfer(q, u, t)
    \/ BeginLeave(q, u)
    \/ \E alone \in BOOLEAN : BeginDelete(q, u, alone)

\* The statements of a request that has begun.
Statement(q) ==
  \/ CreateInvite(q) \/ ReadInvite(q) \/ ClaimInvite(q) \/ CreateMember(q)
  \/ ReadTarget(q) \/ ChangeRole(q) \/ RemoveMember(q)
  \/ ReadSelf(q) \/ Leave(q)
  \/ LockWorkspace(q) \/ VerifyActor(q) \/ FindTarget(q) \/ Promote(q)
  \/ ReadOwner(q) \/ VerifyOwner(q) \/ Erase(q)

Next ==
  \/ \E q \in Request : Arrive(q) \/ Statement(q) \/ RequestFails(q)
  \/ \E a, d \in Request : DeadlockVictim(a, d)

\* A request that has begun runs on; Postgres grants row locks in the order
\* they were asked for and breaks deadlocks.  Nothing makes requests arrive.
Fairness ==
  /\ \A q \in Request : SF_vars(Statement(q))
  /\ \A a, d \in Request : WF_vars(DeadlockVictim(a, d))

Spec == Init /\ [][Next]_vars
FairSpec == Spec /\ Fairness

----------------------------------------------------------------------------
\* Properties.

TableTypeOK ==
  /\ exists \in BOOLEAN
  /\ role \in [User -> Roles]
  /\ row \in [User -> Nat]
  /\ nextRow \in Nat \ {0}
  /\ invite \in [Invite -> {"none", "open", "used", "erased"}]
  /\ \A u \in User : role[u] = "none" <=> row[u] = 0

LockTypeOK ==
  /\ lock \in Request \cup {NoRequest}
  /\ claim \in [Invite -> Request \cup {NoRequest}]

Ops == {"none", "invite", "accept", "change", "remove", "leave", "transfer", "delete"}

Labels == {"idle", "insertInvite", "readInvite", "claim", "insert", "readTarget", "write",
           "readSelf", "lock", "verify", "findTarget", "promote", "readOwner", "erase"}

RequestTypeOK ==
  /\ op \in [Request -> Ops]
  /\ pc \in [Request -> Labels]
  /\ actor \in [Request -> User \cup {NoUser}]
  /\ actorRole \in [Request -> Roles]
  /\ target \in [Request -> User \cup {NoUser}]
  /\ ticket \in [Request -> Invite \cup {NoInvite}]
  /\ newRole \in [Request -> {"none", "admin", "member"}]
  /\ guarded \in [Request -> BOOLEAN]
  /\ own \in [Request -> Nat]
  /\ seen \in [Request -> Nat]

HistoryTypeOK ==
  /\ joined \in [Invite -> Nat]
  /\ overtaken \in [Request -> BOOLEAN]

\* The variables keep their types, and a user has a role exactly with a row
\* (the raw DELETE of removeMember and leave leaves nothing behind).
TypeOK == TableTypeOK /\ LockTypeOK /\ RequestTypeOK /\ HistoryTypeOK

\* No interleaving of transfers with each other or with anything else makes a
\* second owner.
AtMostOneOwner ==
  \A u, v \in User : role[u] = "owner" /\ role[v] = "owner" => u = v

\* A code redeemed by several accounts at once admits one of them.
InviteJoinsOnce == \A i \in Invite : joined[i] <= 1

\* A deletion asked to spare other members never takes one with it
\* (workspace-deletion.service.ts:128-149).
GuardedDeleteSparesMembers ==
  [][\A q \in Request : Erase(q) /\ guarded[q] => Others(q) = {}]_vars

\* A workspace loses its owner only when a transfer commits between the read
\* and the write of a role change, a removal or a departure.
HasOwner == \E u \in User : role[u] = "owner"

OwnerLostOnlyToTransferRace ==
  [][HasOwner /\ exists' /\ ~HasOwner' =>
       \E q \in Request : pc[q] = "write" /\ pc'[q] = "idle" /\ overtaken[q]]_vars

\* Every request comes to an end, although some wait for each other's locks.
EveryRequestEnds == \A q \in Request : pc[q] # "idle" ~> pc[q] = "idle"

\* The comment at workspace-membership.service.ts:32: exactly one owner per
\* workspace at all times.  The code does not satisfy it.
ExactlyOneOwner == exists => \E u \in User : \A v \in User : role[v] = "owner" <=> v = u
============================================================================
