------------------------------ MODULE Sessions ------------------------------
(***************************************************************************)
(* Refresh-token sessions: SessionService (issue, rotate, revoke, revoke   *)
(* all), AuthService (login, refresh, switch of workspace, logout) and     *)
(* PasswordResetService, for concurrent requests that may die at any step. *)
(*                                                                         *)
(* A step is one statement on the database that others may interleave      *)
(* with.  A refresh token is the id of its sessions row, and a family is   *)
(* named by its first row.                                                 *)
(***************************************************************************)
EXTENDS Naturals, Sequences, FiniteSets

CONSTANTS
  User, Workspace, Request,
  Token,        \* ids of password_reset_tokens rows
  NoUser, NoWorkspace, NoToken,
  MaxSessions, MaxRows  \* bounds on sessions, and on sessions and memberships

ASSUME SessionsAssumption ==
  /\ NoUser \notin User /\ NoWorkspace \notin Workspace /\ NoToken \notin Token
  /\ IsFiniteSet(Token) /\ {MaxSessions, MaxRows} \subseteq Nat

VARIABLES
  session,  \* the sessions rows, in the order of their creation
  revoked,  \* ids of the rows with revokedAt set
  member,   \* workspace_members
  joined,   \* history: the memberships there have been
  held,     \* refresh tokens a response has put in a cookie
  password, \* version of user_credentials.passwordHash
  token,    \* user of each password_reset_tokens row, NoUser without a row
  used,     \* reset tokens with usedAt set
  req,      \* requests in flight
  raced     \* history: rows two rotations had both read as live

sessionRows == <<session, revoked>>
memberVars  == <<member, joined>>
resetVars   == <<password, token, used>>
sessionVars == <<sessionRows, memberVars, held, resetVars, req, raced>>

Row == [user : User, workspace : Workspace, family : Nat]

\* user is the identity proved by an access token, a password or a reset
\* token (a refresh proves none), workspace the one a new row shall carry.
Idle == [pc |-> "idle", user |-> NoUser, workspace |-> NoWorkspace,
         row |-> 0, token |-> NoToken]

Ids == 1..Len(session)
Live(i) == i \notin revoked
IsMember(u, w) == <<u, w>> \in member

MayInsert == Len(session) + Cardinality(joined) < MaxRows

Enter(q, r) == req[q].pc = "idle" /\ req' = [req EXCEPT ![q] = r]
Go(q, from, to) == req[q].pc = from /\ req' = [req EXCEPT ![q].pc = to]
End(q, from) == req[q].pc = from /\ req' = [req EXCEPT ![q] = Idle]

RevokeRows(S) == revoked' = revoked \cup S /\ UNCHANGED session

\* JwtAuthGuard: an access token came with some refresh token, and its
\* membership still exists.  (Its 15 minutes are not modelled: a request may
\* come at any time, or never.)
Admitted(u) ==
  \E i \in held : session[i].user = u /\ IsMember(u, session[i].workspace)

----------------------------------------------------------------------------
\* A new family: login, and the requests that create a workspace (register
\* too) or join one and answer with a session of their own.

\* The password has been verified; w stands for the oldest membership.
Login(q, u, w) ==
  /\ IsMember(u, w)
  /\ Enter(q, [Idle EXCEPT !.pc = "issue", !.user = u, !.workspace = w])
  /\ UNCHANGED <<sessionRows, memberVars, held, resetVars, raced>>

Join(q, u, w) ==
  /\ ~IsMember(u, w) /\ MayInsert
  /\ Admitted(u) \/ \A x \in Workspace : <<u, x>> \notin joined
  /\ Enter(q, [Idle EXCEPT !.pc = "issue", !.user = u, !.workspace = w])
  /\ member' = member \cup {<<u, w>>}
  /\ joined' = joined \cup {<<u, w>>}
  /\ UNCHANGED <<sessionRows, held, resetVars, raced>>

\* The row and the response, which puts its token in the cookie or is lost:
\* only the client sees the difference.
CreateRow(row, mayRespond) ==
  /\ MayInsert /\ Len(session) < MaxSessions
  /\ session' = Append(session, row) /\ UNCHANGED revoked
  /\ \/ held' = held
     \/ mayRespond /\ held' = held \cup {Len(session) + 1}

Issue(q) ==
  /\ End(q, "issue")
  /\ CreateRow([user |-> req[q].user, workspace |-> req[q].workspace,
                family |-> Len(session) + 1], TRUE)
  /\ UNCHANGED <<memberVars, resetVars, raced>>

----------------------------------------------------------------------------
\* rotate.

\* Mutant: the owner is compared after the rotation.
ExpectedLate(u, i) == TRUE

\* The presented token belongs to the identity the caller has proved, if any.
Expected(u, i) == u \in {NoUser, session[i].user}

\* Mutant: a token is not asked whether it was rotated.
ReusedIgnored(i) == FALSE

Reused(i) == i \in revoked

\* Another request read this row as live and has not revoked it yet.
Overlap(i) == \E p \in Request : req[p].pc = "revoke" /\ req[p].row = i

Presents(pc, u, w, i) == [pc |-> pc, user |-> u, workspace |-> w, row |-> i, token |-> NoToken]

\* The read of the row and what it decides.  A mismatch or an expired row
\* changes nothing: an expired token is one that is not presented any more.
ReadPresented(q, u, w, i) ==
  /\ i \in held
  /\ Expected(u, i)
  /\ \/ /\ Reused(i)
        /\ Enter(q, Presents("reuse", u, w, i))
        /\ UNCHANGED raced
     \/ /\ ~Reused(i)
        /\ Enter(q, Presents("revoke", u, w, i))
        /\ raced' = raced \cup {j \in {i} : Overlap(j)}
  /\ UNCHANGED <<sessionRows, memberVars, held, resetVars>>

Refresh(q, i) == ReadPresented(q, NoUser, NoWorkspace, i)

\* Mutant: any workspace that exists may be named.
AnyTarget(u, w) == \E v \in User : IsMember(v, w)

MayEnter(u, w) == IsMember(u, w)

\* The target is checked before the token is looked at.
SwitchWorkspace(q, u, w, i) ==
  /\ Admitted(u)
  /\ MayEnter(u, w)
  /\ ReadPresented(q, u, w, i)

RevokeFamily(q) ==
  /\ End(q, "reuse")
  /\ RevokeRows({i \in Ids : session[i].family = session[req[q].row].family})
  /\ UNCHANGED <<memberVars, held, resetVars, raced>>

\* By id, whatever has happened to the row since the read.
RevokePresented(q) ==
  /\ Go(q, "revoke", "create")
  /\ RevokeRows({req[q].row})
  /\ UNCHANGED <<memberVars, held, resetVars, raced>>

Carried(q) ==
  IF req[q].workspace = NoWorkspace THEN session[req[q].row].workspace
                                    ELSE req[q].workspace

\* refresh reads the membership only now, after the rotation, and refuses
\* without one: the row it has created stays.
CreateSuccessor(q) ==
  /\ End(q, "create")
  /\ LET old == session[req[q].row]
     IN CreateRow([old EXCEPT !.workspace = Carried(q)],
                  req[q].user # NoUser \/ IsMember(old.user, old.workspace))
  /\ UNCHANGED <<memberVars, resetVars, raced>>

----------------------------------------------------------------------------
\* logout, logout everywhere, password reset.

\* revoke finds an unrevoked row and revokes it by its id, which is the same
\* in one step.
Logout(i) ==
  /\ i \in held
  /\ RevokeRows({i})
  /\ UNCHANGED <<memberVars, held, resetVars, req, raced>>

RowsOf(u) == {i \in Ids : session[i].user = u}

\* One updateMany.
LogoutAll(u) ==
  /\ Admitted(u)
  /\ RevokeRows(RowsOf(u))
  /\ UNCHANGED <<memberVars, held, resetVars, req, raced>>

RequestReset(t, u) ==
  /\ token[t] = NoUser
  /\ token' = [token EXCEPT ![t] = u]
  /\ UNCHANGED <<sessionRows, memberVars, held, password, used, req, raced>>

\* The row is unused and not expired, the new password acceptable.
ReadToken(q, t) ==
  /\ token[t] # NoUser /\ t \notin used
  /\ Enter(q, [Idle EXCEPT !.pc = "reset", !.user = token[t], !.token = t])
  /\ UNCHANGED <<sessionRows, memberVars, held, resetVars, raced>>

\* Mutant: the claim does not ask for usedAt null.
ClaimsAnyway(t) == TRUE

\* The claim of the transaction: an expiry since the read is not noticed.
Unclaimed(t) == t \notin used

\* The transaction: claim, credentials, sessions, commit.  A rollback is the
\* death of the request before this step.
CommitReset(q) ==
  /\ End(q, "reset")
  /\ \/ /\ Unclaimed(req[q].token)
        /\ used' = used \cup {req[q].token}
        /\ password' = [password EXCEPT ![req[q].user] = @ + 1]
        /\ RevokeRows(RowsOf(req[q].user))
     \/ /\ ~Unclaimed(req[q].token)
        /\ UNCHANGED <<used, password, sessionRows>>
  /\ UNCHANGED <<memberVars, held, token, raced>>

----------------------------------------------------------------------------
\* Around the handlers: the membership component, dying processes.

RemoveMember(u, w) ==
  /\ IsMember(u, w)
  /\ member' = member \ {<<u, w>>}
  /\ UNCHANGED <<sessionRows, joined, held, resetVars, req, raced>>

RequestDies(q) ==
  /\ req[q].pc # "idle"
  /\ req' = [req EXCEPT ![q] = Idle]
  /\ UNCHANGED <<sessionRows, memberVars, held, resetVars, raced>>

SessionsInit ==
  /\ session = <<>> /\ revoked = {} /\ held = {} /\ raced = {}
  /\ member = {} /\ joined = {}
  /\ password = [u \in User |-> 0]
  /\ token = [t \in Token |-> NoUser] /\ used = {}
  /\ req = [q \in Request |-> Idle]

Begin(q) ==
  \/ \E u \in User, w \in Workspace :
       \/ Login(q, u, w) \/ Join(q, u, w)
       \/ \E i \in held : SwitchWorkspace(q, u, w, i)
  \/ \E i \in held : Refresh(q, i)
  \/ \E t \in Token : ReadToken(q, t)

Step(q) ==
  \/ Issue(q) \/ RevokeFamily(q) \/ RevokePresented(q) \/ CreateSuccessor(q)
  \/ CommitReset(q) \/ RequestDies(q)

SessionsNext ==
  \/ \E q \in Request : Begin(q) \/ Step(q)
  \/ \E i \in held : Logout(i)
  \/ \E u \in User : \/ LogoutAll(u)
                     \/ \E t \in Token : RequestReset(t, u)
                     \/ \E w \in Workspace : RemoveMember(u, w)

SessionsSpec == SessionsInit /\ [][SessionsNext]_sessionVars

----------------------------------------------------------------------------
\* Properties.

Rotating == {"revoke", "create"}

\* A family with no live session and no rotation past its read is dead.
Dead(f) ==
  /\ session[f].family = f
  /\ \A i \in Ids : session[i].family = f => ~Live(i)
  /\ \A q \in Request : req[q].pc \in Rotating => session[req[q].row].family # f

\* A dead family stays dead: after a logout, a logout everywhere, a reset, a
\* reuse, only a rotation that had already read its row can
\* make the family live again (SessionService.rotate, revoke).
DeadFamilyStaysDead == [][\A f \in Ids : Dead(f) => Dead(f)']_sessionVars

\* Two sessions of a family are live only if two rotations of one of its
\* tokens overlapped between the read and the revocation: a token used twice
\* in sequence never forks its family.
ForkNeedsOverlap ==
  \A i, j \in Ids : Live(i) /\ Live(j) /\ i # j /\ session[i].family = session[j].family
    => \E k \in raced : session[k].family = session[i].family

\* A request that proved an identity (switch of workspace, login, reset)
\* never changes or creates a session of another user, whatever refresh
\* cookie came with it.
OthersUntouched ==
  [][\A q \in Request :
       req[q].user # NoUser /\ req'[q] # req[q]
         => \A i \in 1..Len(session') :
              i \notin Ids \/ i \in revoked' \ revoked => session'[i].user = req[q].user]_sessionVars

\* Every session names a workspace its user is, or has been, a member of,
\* through any sequence of logins, refreshes, switches and removals.
SessionsOfMembers ==
  \A i \in Ids : <<session[i].user, session[i].workspace>> \in joined

\* The credentials change once per consumed reset token, however many
\* submissions of the token overlap.
OneResetPerToken ==
  \A u \in User : password[u] = Cardinality({t \in used : token[t] = u})
============================================================================
