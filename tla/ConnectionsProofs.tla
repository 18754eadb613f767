------------------------- MODULE ConnectionsProofs --------------------------
(***************************************************************************)
(* Sessions and connections, for any number of people, requests, tokens,   *)
(* sockets, processes, removals, starts and clients: whose a refresh token *)
(* is and which families fork or stay dead, who is in a workspace's rooms, *)
(* and what a Discord gateway listens to.                                  *)
(***************************************************************************)
EXTENDS Sessions, Sockets, Gateway, FiniteSetTheorems, TLAPS

-----------------------------------------------------------------------------
\* Refresh-token families.

\* The rows exist, and a family is named by its first row, whose user is the
\* user of all its rows.
RowsInv ==
  /\ session \in Seq(Row)
  /\ revoked \subseteq Ids /\ held \subseteq Ids /\ raced \subseteq Ids
  /\ \A i \in Ids : /\ session[i].family \in Ids
                    /\ session[session[i].family].user = session[i].user

Labels == {"idle", "issue", "reuse", "reset"} \cup Rotating

\* A request that works on a row works on one that exists, of its own user if
\* it has proved an identity.
RequestsInv ==
  /\ req \in [Request -> [pc : Labels, user : User \cup {NoUser},
                          workspace : Workspace \cup {NoWorkspace}, row : Nat,
                          token : Token \cup {NoToken}]]
  /\ \A q \in Request :
       /\ req[q].pc = "idle" => req[q].user = NoUser
       /\ req[q].pc = "issue" => req[q].user \in User /\ req[q].workspace \in Workspace
       /\ req[q].pc \in Rotating \cup {"reuse"} =>
            /\ req[q].row \in Ids
            /\ req[q].user # NoUser => req[q].user = session[req[q].row].user

\* A row, written or about to be, names a workspace its user was a member of.
MembersInv ==
  /\ member \subseteq joined
  /\ SessionsOfMembers
  /\ \A q \in Request :
       /\ req[q].pc = "issue" => <<req[q].user, req[q].workspace>> \in joined
       /\ req[q].pc \in Rotating /\ req[q].workspace # NoWorkspace =>
            <<req[q].user, req[q].workspace>> \in joined /\ req[q].user # NoUser

Family(q) == session[req[q].row].family
Forked(f) == \E k \in raced : session[k].family = f
Working(q) == req[q].pc \in Rotating

\* A family that no overlap has forked has one live row or one rotation at
\* work: a rotation that has read its row holds the only live one, a rotation
\* that has revoked it leaves none, and no two rotations are at work.
FamiliesInv ==
  /\ ForkNeedsOverlap
  /\ \A q \in Request : Working(q) /\ ~Forked(Family(q)) =>
       \A i \in Ids : Live(i) /\ session[i].family = Family(q) =>
         req[q].pc = "revoke" /\ i = req[q].row
  /\ \A p, q \in Request : Working(p) /\ Working(q) /\ p # q /\ Family(p) = Family(q) =>
       Forked(Family(q))

\* A request that has read a reset token acts for the user of its row.
ResetInv ==
  /\ password \in [User -> Nat]
  /\ token \in [Token -> User \cup {NoUser}]
  /\ used \subseteq {t \in Token : token[t] # NoUser}
  /\ \A q \in Request : req[q].pc = "reset" =>
       req[q].token \in Token /\ req[q].user \in User /\ token[req[q].token] = req[q].user
  /\ OneResetPerToken

SessionsInv == RowsInv /\ RequestsInv /\ MembersInv /\ FamiliesInv /\ ResetInv

----------------------------------------------------------------------------
\* The table after a row was appended.
LEMMA Appended ==
  ASSUME session \in Seq(Row), NEW row \in Row, session' = Append(session, row)
  PROVE  /\ session' \in Seq(Row)
         /\ Len(session) + 1 \notin Ids /\ Ids' = Ids \cup {Len(session) + 1}
         /\ session'[Len(session) + 1] = row
         /\ \A i \in Ids : session'[i] = session[i] /\ session[i] \in Row
  BY DEF Ids

\* The rows Issue and CreateSuccessor append.
LEMMA IssuedRow ==
  ASSUME SessionsInv, NEW q \in Request, Issue(q)
  PROVE  \E row \in Row :
           /\ session' = Append(session, row) /\ revoked' = revoked
           /\ row.user = req[q].user /\ row.workspace = req[q].workspace
           /\ row.family = Len(session) + 1
           /\ held' \subseteq held \cup {Len(session) + 1}
<1> DEFINE row == [user |-> req[q].user, workspace |-> req[q].workspace,
                   family |-> Len(session) + 1]
<1>1. row \in Row
  BY DEF SessionsInv, RowsInv, RequestsInv, Issue, End, Row
<1>2. session' = Append(session, row) /\ revoked' = revoked
  BY DEF Issue, CreateRow
<1>3. held' \subseteq held \cup {Len(session) + 1}
  BY DEF Issue, CreateRow
<1> QED
  BY <1>1, <1>2, <1>3

\* CreateSuccessor continues the family of the row it has read.
LEMMA SuccessorRow ==
  ASSUME SessionsInv, NEW q \in Request, CreateSuccessor(q)
  PROVE  \E row \in Row :
           /\ session' = Append(session, row) /\ revoked' = revoked
           /\ row.user = session[req[q].row].user /\ row.workspace = Carried(q)
           /\ row.family = Family(q)
           /\ held' \subseteq held \cup {Len(session) + 1}
<1> DEFINE row == [session[req[q].row] EXCEPT !.workspace = Carried(q)]
<1>1. req[q].pc = "create" /\ req[q].row \in Ids
  BY DEF SessionsInv, RequestsInv, CreateSuccessor, End, Rotating
<1>2. session[req[q].row] \in Row
  BY <1>1 DEF SessionsInv, RowsInv, Ids
<1>3. Carried(q) \in Workspace
  BY <1>2 DEF SessionsInv, RequestsInv, Carried, Row
<1>4. /\ row \in Row /\ row.user = session[req[q].row].user
      /\ row.workspace = Carried(q) /\ row.family = Family(q)
  BY <1>2, <1>3 DEF Row, Family
<1>5. session' = Append(session, row) /\ revoked' = revoked
  BY DEF CreateSuccessor, CreateRow
<1>6. held' \subseteq held \cup {Len(session) + 1}
  BY DEF CreateSuccessor, CreateRow
<1> QED
  BY <1>4, <1>5, <1>6

\* The invariant holds at the start, when there is no row and no request.
LEMMA SessionsInitially == SessionsInit => SessionsInv
<1> SUFFICES ASSUME SessionsInit PROVE SessionsInv
  OBVIOUS
<1> USE DEF SessionsInit
<1>1. Ids = {} /\ session \in Seq(Row)
  BY DEF Ids
<1>2. RowsInv
  BY <1>1 DEF RowsInv
<1>3. RequestsInv
  BY DEF RequestsInv, Idle, Labels, Rotating
<1>4. MembersInv
  BY <1>1 DEF MembersInv, SessionsOfMembers, Idle, Rotating
<1>5. FamiliesInv
  BY <1>1 DEF FamiliesInv, ForkNeedsOverlap, Working, Idle, Rotating
<1>6. ResetInv
  <2>1. \A u \in User : {t \in used : token[t] = u} = {}
    OBVIOUS
  <2> QED
    BY <2>1, FS_EmptySet DEF ResetInv, OneResetPerToken, Idle
<1> QED
  BY <1>2, <1>3, <1>4, <1>5, <1>6 DEF SessionsInv

\* A step creates a row, or leaves the rows and may revoke some.
LEMMA RowsChange ==
  ASSUME SessionsInv, [SessionsNext]_sessionVars
  PROVE  \/ \E q \in Request : Issue(q) \/ CreateSuccessor(q)
         \/ /\ UNCHANGED <<session, held>>
            /\ revoked \subseteq revoked' /\ revoked' \subseteq Ids
            /\ raced \subseteq raced' /\ raced' \subseteq Ids
            /\ joined \subseteq joined'
<1> DEFINE Kept == /\ UNCHANGED <<session, held>>
                   /\ revoked \subseteq revoked' /\ revoked' \subseteq Ids
                   /\ raced \subseteq raced' /\ raced' \subseteq Ids
                   /\ joined \subseteq joined'
<1> USE DEF SessionsInv, RowsInv, sessionRows, memberVars, RevokeRows
<1>1. ASSUME NEW q \in Request, NEW u \in User, NEW w \in Workspace, Login(q, u, w) \/ Join(q, u, w)
      PROVE  Kept
  BY <1>1 DEF Login, Join
<1>2. ASSUME NEW q \in Request, NEW u, NEW w, NEW i \in held, ReadPresented(q, u, w, i)
      PROVE  Kept
  BY <1>2 DEF ReadPresented
<1>3. ASSUME NEW q \in Request, NEW t \in Token, ReadToken(q, t)
      PROVE  Kept
  BY <1>3 DEF ReadToken
<1>4. ASSUME NEW q \in Request, RevokeFamily(q) \/ RevokePresented(q)
      PROVE  Kept
  BY <1>4 DEF RevokeFamily, RevokePresented, Go, RequestsInv, Rotating
<1>5. ASSUME NEW q \in Request, CommitReset(q) \/ RequestDies(q)
      PROVE  Kept
  BY <1>5 DEF CommitReset, RequestDies, RowsOf
<1>6. ASSUME NEW i \in held, Logout(i)
      PROVE  Kept
  BY <1>6 DEF Logout
<1>7. ASSUME NEW u \in User, NEW w \in Workspace, RemoveMember(u, w)
      PROVE  Kept
  BY <1>7 DEF RemoveMember
<1>8. CASE UNCHANGED sessionVars
  BY <1>8 DEF sessionVars
<1>9. ASSUME NEW u \in User, LogoutAll(u)
      PROVE  Kept
  BY <1>9 DEF LogoutAll, RowsOf
<1>10. ASSUME NEW u \in User, NEW t \in Token, RequestReset(t, u)
      PROVE  Kept
  BY <1>10 DEF RequestReset
<1> HIDE DEF Kept
<1>11. ASSUME NEW q \in Request, Begin(q) PROVE Kept
  BY <1>1, <1>2, <1>3, <1>11 DEF Begin, SwitchWorkspace, Refresh
<1>12. ASSUME NEW q \in Request, Step(q) PROVE Kept \/ Issue(q) \/ CreateSuccessor(q)
  BY <1>4, <1>5, <1>12 DEF Step
<1> QED
  BY <1>6, <1>7, <1>8, <1>9, <1>10, <1>11, <1>12 DEF Kept, SessionsNext

\* A row of a family that exists, or of its own, fits the table.
LEMMA RowAdded ==
  ASSUME RowsInv, NEW row \in Row, session' = Append(session, row),
         UNCHANGED <<revoked, raced>>, held' \subseteq held \cup {Len(session) + 1},
         \/ row.family = Len(session) + 1
         \/ row.family \in Ids /\ session[row.family].user = row.user
  PROVE  RowsInv'
<1> USE DEF RowsInv
<1>1. /\ session' \in Seq(Row) /\ Ids' = Ids \cup {Len(session) + 1} /\ Len(session) + 1 \notin Ids
      /\ session'[Len(session) + 1] = row /\ \A i \in Ids : session'[i] = session[i]
  BY Appended
<1>2. revoked' \subseteq Ids' /\ held' \subseteq Ids' /\ raced' \subseteq Ids'
  BY <1>1
<1>3. ASSUME NEW i \in Ids'
      PROVE  session'[i].family \in Ids' /\ session'[session'[i].family].user = session'[i].user
  <2>1. CASE i \in Ids
    <3> DEFINE f == session[i].family
    <3>1. session'[i] = session[i] /\ f \in Ids /\ session[f].user = session[i].user
      BY <1>1, <2>1
    <3>2. session'[f] = session[f] /\ f \in Ids'
      BY <1>1, <3>1
    <3> QED
      BY <3>1, <3>2
  <2>2. CASE i = Len(session) + 1
    <3>1. session'[i] = row
      BY <1>1, <2>2
    <3> QED
      BY <1>1, <2>2, <3>1
  <2> QED
    BY <1>1, <1>3, <2>1, <2>2
<1> QED
  BY <1>1, <1>2, <1>3

\* The table of rows, for every action.
LEMMA RowsHold == SessionsInv /\ [SessionsNext]_sessionVars => RowsInv'
<1> SUFFICES ASSUME SessionsInv, [SessionsNext]_sessionVars PROVE RowsInv'
  OBVIOUS
<1>1. CASE UNCHANGED session /\ UNCHANGED held /\ revoked' \subseteq Ids /\ raced' \subseteq Ids
  BY <1>1 DEF SessionsInv, RowsInv, Ids
<1>2. ASSUME NEW q \in Request, Issue(q) PROVE RowsInv'
  <2>1. PICK row \in Row :
          /\ session' = Append(session, row) /\ revoked' = revoked
          /\ row.family = Len(session) + 1
          /\ held' \subseteq held \cup {Len(session) + 1}
    BY <1>2, IssuedRow
  <2>2. raced' = raced
    BY <1>2 DEF Issue
  <2> QED
    BY <2>1, <2>2, RowAdded DEF SessionsInv, RowsInv
<1>3. ASSUME NEW q \in Request, CreateSuccessor(q) PROVE RowsInv'
  <2>1. PICK row \in Row :
          /\ session' = Append(session, row) /\ revoked' = revoked
          /\ row.user = session[req[q].row].user /\ row.family = Family(q)
          /\ held' \subseteq held \cup {Len(session) + 1}
    BY <1>3, SuccessorRow
  <2>2. raced' = raced /\ req[q].row \in Ids
    BY <1>3 DEF CreateSuccessor, End, SessionsInv, RequestsInv, Rotating
  <2>3. Family(q) \in Ids /\ session[Family(q)].user = row.user
    BY <2>1, <2>2 DEF Family, SessionsInv, RowsInv
  <2> QED
    BY <2>1, <2>2, <2>3, RowAdded DEF SessionsInv, RowsInv
<1> QED
  BY <1>1, <1>2, <1>3, RowsChange

\* The requests, for every action.
LEMMA RequestsHold == SessionsInv /\ [SessionsNext]_sessionVars => RequestsInv'
<1> SUFFICES ASSUME SessionsInv, [SessionsNext]_sessionVars PROVE RequestsInv'
  OBVIOUS
<1>1. \A i \in Ids : i \in Ids' /\ session'[i].user = session[i].user
  <2>1. ASSUME NEW row \in Row, session' = Append(session, row)
        PROVE  \A i \in Ids : i \in Ids' /\ session'[i].user = session[i].user
    BY <2>1, Appended DEF SessionsInv, RowsInv
  <2>2. CASE UNCHANGED session
    BY <2>2 DEF Ids
  <2> QED
    BY <2>1, <2>2, RowsChange, IssuedRow, SuccessorRow
<1> DEFINE Good(r) ==
      /\ r \in [pc : Labels, user : User \cup {NoUser}, workspace : Workspace \cup {NoWorkspace},
               row : Nat, token : Token \cup {NoToken}]
      /\ r.pc = "idle" => r.user = NoUser
      /\ r.pc = "issue" => r.user \in User /\ r.workspace \in Workspace
      /\ r.pc \in Rotating \cup {"reuse"} =>
           r.row \in Ids /\ (r.user # NoUser => r.user = session[r.row].user)
<1>2. \A q \in Request : Good(req[q])
  BY DEF SessionsInv, RequestsInv
<1>3. ASSUME NEW q \in Request, NEW r, Good(r), req' = [req EXCEPT ![q] = r]
      PROVE  RequestsInv'
  <2>1. \A x \in Request : Good(req'[x])
    BY <1>2, <1>3 DEF SessionsInv, RequestsInv
  <2> QED
    BY <1>1, <1>3, <2>1 DEF SessionsInv, RequestsInv
<1>4. CASE UNCHANGED req
  BY <1>1, <1>4 DEF SessionsInv, RequestsInv
<1>5. Good(Idle)
  BY DEF Idle, Labels, Rotating
<1>6. ASSUME NEW q \in Request, NEW u \in User, NEW w \in Workspace, Login(q, u, w) \/ Join(q, u, w)
      PROVE  RequestsInv'
  <2>1. Good([Idle EXCEPT !.pc = "issue", !.user = u, !.workspace = w])
    BY DEF Idle, Labels, Rotating
  <2> QED
    BY <1>3, <1>6, <2>1 DEF Login, Join, Enter
<1>7. ASSUME NEW q \in Request, NEW u \in User \cup {NoUser}, NEW w \in Workspace \cup {NoWorkspace},
             NEW i \in held, ReadPresented(q, u, w, i)
      PROVE  RequestsInv'
  <2>1. i \in Ids /\ i \in Nat /\ (u # NoUser => u = session[i].user)
    BY <1>7 DEF SessionsInv, RowsInv, ReadPresented, Expected, Ids
  <2>2. Good(Presents("reuse", u, w, i)) /\ Good(Presents("revoke", u, w, i))
    BY <2>1 DEF Presents, Labels, Rotating
  <2> QED
    BY <1>3, <1>7, <2>2 DEF ReadPresented, Enter
<1>8. ASSUME NEW q \in Request, NEW t \in Token, ReadToken(q, t)
      PROVE  RequestsInv'
  <2>1. Good([Idle EXCEPT !.pc = "reset", !.user = token[t], !.token = t])
    BY <1>8 DEF SessionsInv, ResetInv, ReadToken, Idle, Labels, Rotating
  <2> QED
    BY <1>3, <1>8, <2>1 DEF ReadToken, Enter
<1>9. ASSUME NEW q \in Request, RevokePresented(q)
      PROVE  RequestsInv'
  <2>1. Good([req[q] EXCEPT !.pc = "create"])
    BY <1>2, <1>9 DEF RevokePresented, Go, Labels, Rotating
  <2> QED
    BY <1>3, <1>9, <2>1 DEF RevokePresented, Go
<1>10. ASSUME NEW q \in Request,
              Issue(q) \/ RevokeFamily(q) \/ CreateSuccessor(q) \/ CommitReset(q) \/ RequestDies(q)
       PROVE  RequestsInv'
  BY <1>3, <1>5, <1>10 DEF Issue, RevokeFamily, CreateSuccessor, CommitReset, RequestDies, End
<1> HIDE DEF Good
<1>11. ASSUME NEW q \in Request, Begin(q) PROVE RequestsInv'
  BY <1>6, <1>7, <1>8, <1>11 DEF Begin, SwitchWorkspace, Refresh
<1>12. ASSUME NEW q \in Request, Step(q) PROVE RequestsInv'
  BY <1>9, <1>10, <1>12 DEF Step
<1>13. ~(\E q \in Request : Begin(q) \/ Step(q)) => UNCHANGED req
  BY DEF SessionsNext, sessionVars, Logout, LogoutAll, RequestReset, RemoveMember
<1> QED
  BY <1>4, <1>11, <1>12, <1>13

\* Memberships, for every action: of the rows, then of the requests.
LEMMA RowsOfMembersHold == SessionsInv /\ [SessionsNext]_sessionVars => SessionsOfMembers'
<1> SUFFICES ASSUME SessionsInv, [SessionsNext]_sessionVars PROVE SessionsOfMembers'
  OBVIOUS
<1>1. joined \subseteq joined'
  BY RowsChange DEF Issue, CreateSuccessor, memberVars
<1>2. CASE UNCHANGED session
  BY <1>1, <1>2 DEF SessionsInv, MembersInv, SessionsOfMembers, Ids
<1>3. ASSUME NEW row \in Row, session' = Append(session, row), <<row.user, row.workspace>> \in joined
      PROVE  SessionsOfMembers'
  <2>1. /\ Ids' = Ids \cup {Len(session) + 1} /\ session'[Len(session) + 1] = row
        /\ \A i \in Ids : session'[i] = session[i]
    BY <1>3, Appended DEF SessionsInv, RowsInv
  <2>2. \A i \in Ids : <<session[i].user, session[i].workspace>> \in joined
    BY DEF SessionsInv, MembersInv, SessionsOfMembers
  <2>3. ASSUME NEW i \in Ids' PROVE <<session'[i].user, session'[i].workspace>> \in joined'
    BY <1>1, <1>3, <2>1, <2>2, <2>3
  <2> QED
    BY <2>3 DEF SessionsOfMembers
<1>4. ASSUME NEW q \in Request, Issue(q) PROVE SessionsOfMembers'
  <2>1. <<req[q].user, req[q].workspace>> \in joined
    BY <1>4 DEF Issue, End, SessionsInv, MembersInv
  <2>2. PICK row \in Row :
          session' = Append(session, row) /\ row.user = req[q].user /\ row.workspace = req[q].workspace
    BY <1>4, IssuedRow
  <2> QED
    BY <1>3, <2>1, <2>2
<1>5. ASSUME NEW q \in Request, CreateSuccessor(q) PROVE SessionsOfMembers'
  <2>1. req[q].pc = "create" /\ req[q].row \in Ids
    BY <1>5 DEF CreateSuccessor, End, SessionsInv, RequestsInv, Rotating
  <2>2. <<session[req[q].row].user, Carried(q)>> \in joined
    BY <2>1 DEF Carried, SessionsInv, RequestsInv, MembersInv, SessionsOfMembers, Rotating
  <2>3. PICK row \in Row :
          /\ session' = Append(session, row)
          /\ row.user = session[req[q].row].user /\ row.workspace = Carried(q)
    BY <1>5, SuccessorRow
  <2> QED
    BY <1>3, <2>2, <2>3
<1> QED
  BY <1>2, <1>4, <1>5, RowsChange

\* Memberships, for every action: rows and requests.
LEMMA MembersHold == SessionsInv /\ [SessionsNext]_sessionVars => MembersInv'
<1> SUFFICES ASSUME SessionsInv, [SessionsNext]_sessionVars PROVE MembersInv'
  OBVIOUS
<1> DEFINE Good(r) == /\ r.pc = "issue" => <<r.user, r.workspace>> \in joined
                      /\ r.pc \in Rotating /\ r.workspace # NoWorkspace =>
                           <<r.user, r.workspace>> \in joined /\ r.user # NoUser
<1>1. SessionsOfMembers'
  BY RowsOfMembersHold
<1>2. \A q \in Request : Good(req[q])
  BY DEF SessionsInv, MembersInv
<1>3. req \in [Request -> {req[q] : q \in Request}]
  BY DEF SessionsInv, RequestsInv
<1>4. ASSUME UNCHANGED memberVars, NEW q \in Request, NEW r, Good(r), req' = [req EXCEPT ![q] = r]
      PROVE  MembersInv'
  BY <1>1, <1>2, <1>3, <1>4 DEF memberVars, SessionsInv, MembersInv
<1>5. CASE UNCHANGED <<memberVars, req>>
  BY <1>1, <1>5 DEF memberVars, SessionsInv, MembersInv
<1>6. Good(Idle)
  BY DEF Idle, Rotating
<1>7. ASSUME NEW q \in Request, NEW u \in User, NEW w \in Workspace, Login(q, u, w)
      PROVE  MembersInv'
  <2>1. Good([Idle EXCEPT !.pc = "issue", !.user = u, !.workspace = w])
    BY <1>7 DEF Idle, Rotating, Login, IsMember, SessionsInv, MembersInv
  <2> QED
    BY <1>4, <1>7, <2>1 DEF Login, Enter
<1>8. ASSUME NEW q \in Request, NEW u \in User, NEW w \in Workspace, Join(q, u, w)
      PROVE  MembersInv'
  <2> DEFINE r == [Idle EXCEPT !.pc = "issue", !.user = u, !.workspace = w]
  <2>1. joined' = joined \cup {<<u, w>>} /\ member' \subseteq joined'
    BY <1>8 DEF Join, SessionsInv, MembersInv
  <2>2. r.pc = "issue" /\ r.user = u /\ r.workspace = w /\ r.pc \notin Rotating
    BY DEF Idle, Rotating
  <2>3. \A x \in Request : req'[x] = IF x = q THEN r ELSE req[x]
    BY <1>3, <1>8 DEF Join, Enter
  <2> HIDE DEF r
  <2> QED
    BY <1>1, <1>2, <2>1, <2>2, <2>3 DEF MembersInv
<1>9. ASSUME NEW q \in Request, NEW u \in User, NEW w \in Workspace, NEW i \in held,
             SwitchWorkspace(q, u, w, i)
      PROVE  MembersInv'
  <2>1. <<u, w>> \in joined /\ u # NoUser
    BY <1>9, SessionsAssumption DEF SwitchWorkspace, MayEnter, IsMember, SessionsInv, MembersInv
  <2>2. Good(Presents("reuse", u, w, i)) /\ Good(Presents("revoke", u, w, i))
    BY <2>1 DEF Presents, Rotating
  <2> QED
    BY <1>4, <1>9, <2>2 DEF SwitchWorkspace, ReadPresented, Enter
<1>10. ASSUME NEW q \in Request, NEW i \in held, Refresh(q, i)
       PROVE  MembersInv'
  <2>1. Good(Presents("reuse", NoUser, NoWorkspace, i)) /\ Good(Presents("revoke", NoUser, NoWorkspace, i))
    BY DEF Presents, Rotating
  <2> QED
    BY <1>4, <1>10, <2>1 DEF Refresh, ReadPresented, Enter
<1>11. ASSUME NEW q \in Request, NEW t \in Token, ReadToken(q, t)
       PROVE  MembersInv'
  <2>1. Good([Idle EXCEPT !.pc = "reset", !.user = token[t], !.token = t])
    BY DEF Idle, Rotating
  <2> QED
    BY <1>4, <1>11, <2>1 DEF ReadToken, Enter
<1>12. ASSUME NEW q \in Request, RevokePresented(q)
       PROVE  MembersInv'
  <2>1. Good([req[q] EXCEPT !.pc = "create"])
    <3>1. req[q].pc = "revoke" /\ Good(req[q])
      BY <1>2, <1>12 DEF RevokePresented, Go
    <3>2. /\ [req[q] EXCEPT !.pc = "create"].pc = "create"
          /\ [req[q] EXCEPT !.pc = "create"].user = req[q].user
          /\ [req[q] EXCEPT !.pc = "create"].workspace = req[q].workspace
      BY DEF SessionsInv, RequestsInv
    <3> QED
      BY <3>1, <3>2 DEF Rotating
  <2> QED
    BY <1>4, <1>12, <2>1 DEF RevokePresented, Go
<1>13. ASSUME NEW q \in Request,
              Issue(q) \/ RevokeFamily(q) \/ CreateSuccessor(q) \/ CommitReset(q) \/ RequestDies(q)
       PROVE  MembersInv'
  BY <1>4, <1>6, <1>13 DEF Issue, RevokeFamily, CreateSuccessor, CommitReset, RequestDies, End
<1>14. ASSUME NEW u \in User, NEW w \in Workspace, RemoveMember(u, w)
       PROVE  MembersInv'
  BY <1>1, <1>14 DEF RemoveMember, SessionsInv, MembersInv
<1> HIDE DEF Good
<1>15. ASSUME NEW q \in Request, Begin(q) PROVE MembersInv'
  BY <1>7, <1>8, <1>9, <1>10, <1>11, <1>15 DEF Begin
<1>16. ASSUME NEW q \in Request, Step(q) PROVE MembersInv'
  BY <1>12, <1>13, <1>16 DEF Step
<1>17. \/ UNCHANGED <<memberVars, req>>
       \/ \E q \in Request : Begin(q) \/ Step(q)
       \/ \E u \in User, w \in Workspace : RemoveMember(u, w)
  BY DEF SessionsNext, sessionVars, Logout, LogoutAll, RequestReset
<1> QED
  BY <1>5, <1>14, <1>15, <1>16, <1>17

\* A step that starts no rotation and creates no row leaves the families as
\* they are, but for rows it revokes.
LEMMA QuietFamilies ==
  ASSUME SessionsInv, UNCHANGED <<session, raced>>, revoked \subseteq revoked',
         \A q \in Request : Working(q)' =>
           Working(q) /\ req'[q].row = req[q].row /\ req'[q].pc = req[q].pc
  PROVE  FamiliesInv'
<1>1. /\ \A q \in Request : Working(q)' => Family(q)' = Family(q)
      /\ \A f : Forked(f)' <=> Forked(f)
      /\ \A i : Live(i)' => Live(i)
      /\ Ids' = Ids
  BY DEF Family, Forked, Live, Ids
<1>2. ForkNeedsOverlap'
  BY <1>1 DEF SessionsInv, FamiliesInv, ForkNeedsOverlap
<1>3. ASSUME NEW q \in Request, Working(q)', ~Forked(Family(q))', NEW i \in Ids', Live(i)',
             session'[i].family = Family(q)'
      PROVE  req'[q].pc = "revoke" /\ i = req'[q].row
  BY <1>1, <1>3 DEF SessionsInv, FamiliesInv
<1>4. ASSUME NEW p \in Request, NEW q \in Request, Working(p)', Working(q)', p # q,
             Family(p)' = Family(q)'
      PROVE  Forked(Family(q))'
  BY <1>1, <1>4 DEF SessionsInv, FamiliesInv
<1> QED
  BY <1>2, <1>3, <1>4 DEF FamiliesInv

\* A rotation that has read a live row: it holds the only live row of its
\* family, or the family is forked, by this read if it overlaps.
LEMMA ReadFamilies ==
  ASSUME SessionsInv, NEW q \in Request, NEW u, NEW w, NEW i \in held, ReadPresented(q, u, w, i)
  PROVE  FamiliesInv'
<1>1. CASE Reused(i)
  <2>1. \A x \in Request : Working(x)' =>
          Working(x) /\ req'[x].row = req[x].row /\ req'[x].pc = req[x].pc
    BY <1>1 DEF ReadPresented, Enter, Presents, Working, Rotating, SessionsInv, RequestsInv
  <2> QED
    BY <1>1, <2>1, QuietFamilies DEF ReadPresented, sessionRows
<1>2. CASE ~Reused(i)
  <2>1. /\ UNCHANGED <<session, revoked>> /\ Ids' = Ids /\ i \in Ids /\ Live(i)
        /\ raced' = raced \cup {j \in {i} : Overlap(j)}
        /\ \A x \in Request \ {q} : req'[x] = req[x]
        /\ req'[q].pc = "revoke" /\ req'[q].row = i /\ ~Working(q)
    BY <1>2 DEF ReadPresented, sessionRows, Reused, Live, Ids, SessionsInv, RowsInv, RequestsInv,
                Enter, Presents, Working, Rotating
  <2>2. /\ Family(q)' = session[i].family
        /\ \A x \in Request \ {q} : Family(x)' = Family(x) /\ (Working(x)' <=> Working(x))
        /\ \A f : Forked(f) => Forked(f)'
        /\ \A j : Live(j)' <=> Live(j)
    BY <2>1 DEF Family, Forked, Live, Working
  <2>3. ForkNeedsOverlap'
    BY <2>1, <2>2 DEF SessionsInv, FamiliesInv, ForkNeedsOverlap
  <2>4. ASSUME NEW x \in Request, Working(x)', ~Forked(Family(x))', NEW j \in Ids', Live(j)',
               session'[j].family = Family(x)'
        PROVE  req'[x].pc = "revoke" /\ j = req'[x].row
    <3>1. CASE x = q
      BY <2>1, <2>2, <2>4, <3>1 DEF SessionsInv, FamiliesInv, ForkNeedsOverlap, Forked
    <3>2. CASE x # q
      BY <2>1, <2>2, <2>4, <3>2 DEF SessionsInv, FamiliesInv
    <3> QED
      BY <3>1, <3>2
  <2>5. ASSUME NEW x \in Request \ {q}, Working(x), Family(x) = session[i].family
        PROVE  \E k \in raced' : session[k].family = session[i].family
    <3>1. CASE Forked(session[i].family)
      BY <2>1, <3>1 DEF Forked
    <3>2. CASE ~Forked(session[i].family)
      <4>1. req[x].pc = "revoke" /\ req[x].row = i
        BY <2>1, <2>5, <3>2 DEF SessionsInv, FamiliesInv
      <4>2. i \in raced'
        BY <2>1, <4>1 DEF Overlap
      <4> QED
        BY <4>2
    <3> QED
      BY <3>1, <3>2
  <2>6. ASSUME NEW x \in Request, NEW y \in Request, Working(x)', Working(y)', x # y,
               Family(x)' = Family(y)'
        PROVE  Forked(Family(y))'
    <3>1. CASE x = q
      <4>1. Working(y) /\ Family(y) = session[i].family /\ Family(y)' = session[i].family
        BY <2>2, <2>6, <3>1
      <4> QED
        BY <2>1, <2>5, <2>6, <3>1, <4>1 DEF Forked
    <3>2. CASE y = q
      <4>1. Working(x) /\ Family(x) = session[i].family /\ Family(y)' = session[i].family
        BY <2>2, <2>6, <3>2
      <4> QED
        BY <2>1, <2>5, <2>6, <3>2, <4>1 DEF Forked
    <3>3. CASE x # q /\ y # q
      BY <2>1, <2>2, <2>6, <3>3 DEF SessionsInv, FamiliesInv, Forked
    <3> QED
      BY <3>1, <3>2, <3>3
  <2> QED
    BY <2>3, <2>4, <2>6 DEF FamiliesInv
<1> QED
  BY <1>1, <1>2

\* A rotation that revokes the row it has read leaves no live row.
LEMMA RevokeFamilies ==
  ASSUME SessionsInv, NEW q \in Request, RevokePresented(q)
  PROVE  FamiliesInv'
<1>1. /\ UNCHANGED <<session, raced>> /\ Ids' = Ids
      /\ revoked' = revoked \cup {req[q].row}
      /\ \A x \in Request \ {q} : req'[x] = req[x]
      /\ req[q].pc = "revoke" /\ req'[q].pc = "create" /\ req'[q].row = req[q].row
  BY DEF RevokePresented, RevokeRows, Go, Ids, SessionsInv, RequestsInv
<1>2. /\ \A x \in Request : Family(x)' = Family(x) /\ (Working(x)' <=> Working(x))
      /\ \A f : Forked(f)' <=> Forked(f)
      /\ \A j : Live(j)' => Live(j) /\ j # req[q].row
  BY <1>1 DEF Family, Forked, Live, Working, Rotating
<1>3. ForkNeedsOverlap'
  BY <1>1, <1>2 DEF SessionsInv, FamiliesInv, ForkNeedsOverlap
<1>4. ASSUME NEW x \in Request, Working(x)', ~Forked(Family(x))', NEW j \in Ids', Live(j)',
             session'[j].family = Family(x)'
      PROVE  req'[x].pc = "revoke" /\ j = req'[x].row
  <2>1. req[x].pc = "revoke" /\ j = req[x].row
    BY <1>1, <1>2, <1>4 DEF SessionsInv, FamiliesInv
  <2> QED
    BY <1>1, <1>2, <1>4, <2>1
<1>5. ASSUME NEW x \in Request, NEW y \in Request, Working(x)', Working(y)', x # y,
             Family(x)' = Family(y)'
      PROVE  Forked(Family(y))'
  BY <1>2, <1>5 DEF SessionsInv, FamiliesInv
<1> QED
  BY <1>3, <1>4, <1>5 DEF FamiliesInv

\* A row of a family that has no live row and no other rotation.
LEMMA CreateFamilies ==
  ASSUME SessionsInv, NEW q \in Request, NEW row \in Row, session' = Append(session, row),
         UNCHANGED <<revoked, raced>>, req' = [req EXCEPT ![q] = Idle],
         \A i \in Ids : Live(i) /\ session[i].family = row.family => Forked(row.family),
         \A x \in Request \ {q} : Working(x) /\ Family(x) = row.family => Forked(row.family)
  PROVE  FamiliesInv'
<1> DEFINE new == Len(session) + 1
<1>1. /\ Ids' = Ids \cup {new} /\ new \notin Ids /\ session'[new] = row
      /\ \A i \in Ids : session'[i] = session[i]
  BY Appended DEF SessionsInv, RowsInv
<1>2. /\ \A x \in Request \ {q} : req'[x] = req[x]
      /\ ~Working(q)'
  BY DEF SessionsInv, RequestsInv, Working, Rotating, Idle
<1>3. /\ \A x \in Request : Working(x)' => x # q /\ Working(x) /\ Family(x)' = Family(x)
      /\ \A f : (\E k \in raced' : session'[k].family = f) <=> Forked(f)
      /\ \A i \in Ids' : Live(i)' <=> Live(i)
  <2>1. ASSUME NEW x \in Request, Working(x)'
        PROVE  x # q /\ Working(x) /\ Family(x)' = Family(x)
    <3>1. x # q /\ req'[x] = req[x] /\ Working(x)
      BY <1>2, <2>1 DEF Working
    <3>2. req[x].row \in Ids
      BY <3>1 DEF Working, SessionsInv, RequestsInv
    <3> QED
      BY <1>1, <3>1, <3>2 DEF Family
  <2>2. \A k \in raced : session'[k] = session[k]
    BY <1>1 DEF SessionsInv, RowsInv
  <2> QED
    BY <2>1, <2>2 DEF Forked, Live
<1> HIDE DEF new
<1>4. ForkNeedsOverlap'
  <2> SUFFICES ASSUME NEW i \in Ids', NEW j \in Ids', Live(i)', Live(j)', i # j,
                      session'[i].family = session'[j].family
               PROVE  \E k \in raced' : session'[k].family = session'[i].family
    BY DEF ForkNeedsOverlap
  <2>1. CASE i \in Ids /\ j \in Ids
    <3>1. session'[i] = session[i] /\ session'[j] = session[j] /\ Live(i) /\ Live(j)
      BY <1>1, <1>3, <2>1
    <3>2. Forked(session[i].family)
      BY <2>1, <3>1 DEF SessionsInv, FamiliesInv, ForkNeedsOverlap, Forked
    <3> QED
      BY <1>3, <3>1, <3>2
  <2>2. CASE i = new /\ j \in Ids
    <3>1. session'[i].family = row.family /\ session[j].family = row.family /\ Live(j)
      BY <1>1, <1>3, <2>2
    <3> QED
      BY <1>3, <2>2, <3>1
  <2>3. CASE j = new /\ i \in Ids
    <3>1. session'[i].family = row.family /\ session[i].family = row.family /\ Live(i)
      BY <1>1, <1>3, <2>3
    <3> QED
      BY <1>3, <2>3, <3>1
  <2> QED
    BY <1>1, <2>1, <2>2, <2>3
<1>5. ASSUME NEW x \in Request, Working(x)', ~Forked(Family(x))', NEW i \in Ids', Live(i)',
             session'[i].family = Family(x)'
      PROVE  req'[x].pc = "revoke" /\ i = req'[x].row
  <2>1. x # q /\ Working(x) /\ Family(x)' = Family(x) /\ req'[x] = req[x] /\ Live(i)
    BY <1>2, <1>3, <1>5
  <2>2. ~(\E k \in raced' : session'[k].family = Family(x))
    BY <1>5, <2>1 DEF Forked
  <2>3. ~Forked(Family(x))
    BY <1>3, <2>2
  <2>4. CASE i \in Ids
    <3>1. session[i].family = Family(x)
      BY <1>1, <1>5, <2>1, <2>4
    <3> QED
      BY <2>1, <2>3, <2>4, <3>1 DEF SessionsInv, FamiliesInv
  <2>5. CASE i = new
    <3>1. row.family = Family(x)
      BY <1>1, <1>5, <2>1, <2>5
    <3> QED
      BY <2>1, <2>3, <3>1
  <2> QED
    BY <1>1, <1>5, <2>4, <2>5
<1>6. ASSUME NEW x \in Request, NEW y \in Request, Working(x)', Working(y)', x # y,
             Family(x)' = Family(y)'
      PROVE  Forked(Family(y))'
  <2>1. Forked(Family(y)) /\ Family(y)' = Family(y)
    BY <1>3, <1>6 DEF SessionsInv, FamiliesInv
  <2>2. \E k \in raced' : session'[k].family = Family(y)
    BY <1>3, <2>1
  <2> QED
    BY <2>1, <2>2 DEF Forked
<1> QED
  BY <1>4, <1>5, <1>6 DEF FamiliesInv

\* A new family is nobody's yet.
LEMMA IssueFamilies ==
  ASSUME SessionsInv, NEW q \in Request, Issue(q)
  PROVE  FamiliesInv'
<1>1. PICK row \in Row :
        /\ session' = Append(session, row) /\ revoked' = revoked
        /\ row.family = Len(session) + 1
  BY IssuedRow
<1>2. raced' = raced /\ req' = [req EXCEPT ![q] = Idle]
  BY DEF Issue, End
<1>3. Len(session) + 1 \notin Ids
  BY DEF SessionsInv, RowsInv, Ids
<1>4. \A i \in Ids : session[i].family # row.family
  BY <1>1, <1>3 DEF SessionsInv, RowsInv
<1>5. \A x \in Request : Working(x) => Family(x) # row.family
  BY <1>4 DEF Working, Family, SessionsInv, RequestsInv
<1> QED
  BY <1>1, <1>2, <1>4, <1>5, CreateFamilies

\* A successor is the only live row, unless its family is forked.
LEMMA SuccessorFamilies ==
  ASSUME SessionsInv, NEW q \in Request, CreateSuccessor(q)
  PROVE  FamiliesInv'
<1>1. PICK row \in Row :
        session' = Append(session, row) /\ revoked' = revoked /\ row.family = Family(q)
  BY SuccessorRow
<1>2. raced' = raced /\ req' = [req EXCEPT ![q] = Idle] /\ Working(q) /\ req[q].pc = "create"
  BY DEF CreateSuccessor, End, Working, Rotating
<1>3. \A i \in Ids : Live(i) /\ session[i].family = row.family => Forked(row.family)
  BY <1>1, <1>2 DEF SessionsInv, FamiliesInv
<1>4. \A x \in Request \ {q} : Working(x) /\ Family(x) = row.family => Forked(row.family)
  BY <1>1, <1>2 DEF SessionsInv, FamiliesInv
<1> QED
  BY <1>1, <1>2, <1>3, <1>4, CreateFamilies

\* The families, for every action.
LEMMA FamiliesHold == SessionsInv /\ [SessionsNext]_sessionVars => FamiliesInv'
<1> SUFFICES ASSUME SessionsInv, [SessionsNext]_sessionVars PROVE FamiliesInv'
  OBVIOUS
<1> USE DEF SessionsInv, RequestsInv, sessionRows, RevokeRows
<1>1. ASSUME NEW q \in Request, NEW r, r.pc \notin Rotating, req' = [req EXCEPT ![q] = r],
             UNCHANGED <<session, raced>>, revoked \subseteq revoked'
      PROVE  FamiliesInv'
  BY <1>1, QuietFamilies DEF Working
<1>2. CASE UNCHANGED <<session, raced, req>> /\ revoked \subseteq revoked'
  BY <1>2, QuietFamilies DEF Working
<1>3. ASSUME NEW q \in Request, NEW u \in User, NEW w \in Workspace, Login(q, u, w) \/ Join(q, u, w)
      PROVE  FamiliesInv'
  <2>1. [Idle EXCEPT !.pc = "issue", !.user = u, !.workspace = w].pc \notin Rotating
    BY DEF Idle, Rotating
  <2> QED
    BY <1>1, <1>3, <2>1 DEF Login, Join, Enter
<1>4. ASSUME NEW q \in Request, NEW t \in Token, ReadToken(q, t)
      PROVE  FamiliesInv'
  <2>1. [Idle EXCEPT !.pc = "reset", !.user = token[t], !.token = t].pc \notin Rotating
    BY DEF Idle, Rotating
  <2> QED
    BY <1>1, <1>4, <2>1 DEF ReadToken, Enter
<1>5. ASSUME NEW q \in Request, RevokeFamily(q) \/ CommitReset(q) \/ RequestDies(q)
      PROVE  FamiliesInv'
  <2>1. Idle.pc \notin Rotating
    BY DEF Idle, Rotating
  <2> QED
    BY <1>1, <1>5, <2>1 DEF RevokeFamily, CommitReset, RequestDies, End
<1>6. ASSUME NEW i \in held, Logout(i) PROVE FamiliesInv'
  BY <1>2, <1>6 DEF Logout
<1>7. ASSUME NEW u \in User, LogoutAll(u) PROVE FamiliesInv'
  BY <1>2, <1>7 DEF LogoutAll
<1>8. ASSUME NEW u \in User, NEW t \in Token, RequestReset(t, u) PROVE FamiliesInv'
  BY <1>2, <1>8 DEF RequestReset
<1>9. ASSUME NEW u \in User, NEW w \in Workspace, RemoveMember(u, w) PROVE FamiliesInv'
  BY <1>2, <1>9 DEF RemoveMember
<1>10. CASE UNCHANGED sessionVars
  BY <1>2, <1>10 DEF sessionVars
<1>11. ASSUME NEW q \in Request, Begin(q) PROVE FamiliesInv'
  BY <1>3, <1>4, <1>11, ReadFamilies DEF Begin, SwitchWorkspace, Refresh
<1>12. ASSUME NEW q \in Request, Step(q) PROVE FamiliesInv'
  BY <1>5, <1>12, IssueFamilies, SuccessorFamilies, RevokeFamilies DEF Step
<1> QED
  BY <1>6, <1>7, <1>8, <1>9, <1>10, <1>11, <1>12 DEF SessionsNext

Consumed(u) == {t \in used : token[t] = u}

\* A consumed token is counted for its user, once.
LEMMA CommitCounts ==
  ASSUME SessionsInv, NEW q \in Request, CommitReset(q)
  PROVE  ResetInv'
<1> USE DEF SessionsInv, ResetInv
<1>1. PICK t \in Token, v \in User :
        req[q].token = t /\ req[q].user = v /\ token[t] = v /\ UNCHANGED token
  BY DEF CommitReset, End
<1>2. \A x \in Request : req'[x].pc = "reset" => req'[x] = req[x]
  BY DEF CommitReset, End, Idle, RequestsInv
<1>3. CASE Unclaimed(t)
  <2>1. used' = used \cup {t} /\ password' = [password EXCEPT ![v] = @ + 1] /\ t \notin used
    BY <1>1, <1>3 DEF CommitReset, Unclaimed
  <2>2. \A u \in User : Consumed(u)' = IF u = v THEN Consumed(u) \cup {t} ELSE Consumed(u)
    BY <1>1, <2>1 DEF Consumed
  <2>3. \A u \in User : IsFiniteSet(Consumed(u)) /\ t \notin Consumed(u)
    BY <2>1, SessionsAssumption, FS_Subset DEF Consumed
  <2>4. Cardinality(Consumed(v)') = Cardinality(Consumed(v)) + 1
    BY <1>1, <2>2, <2>3, FS_AddElement
  <2>5. ASSUME NEW u \in User PROVE password'[u] = Cardinality(Consumed(u)')
    <3>1. password[u] = Cardinality(Consumed(u))
      BY DEF OneResetPerToken, Consumed
    <3>2. CASE u = v
      BY <1>1, <2>1, <2>4, <3>1, <3>2
    <3>3. CASE u # v
      BY <1>1, <2>1, <2>2, <3>1, <3>3
    <3> QED
      BY <3>2, <3>3
  <2>6. OneResetPerToken'
    BY <2>5 DEF OneResetPerToken, Consumed
  <2>7. password' \in [User -> Nat] /\ used' \subseteq {x \in Token : token'[x] # NoUser}
    BY <1>1, <2>1, SessionsAssumption
  <2>8. \A x \in Request : req'[x].pc = "reset" =>
          req'[x].token \in Token /\ req'[x].user \in User /\ token'[req'[x].token] = req'[x].user
    BY <1>1, <1>2
  <2> QED
    BY <1>1, <2>6, <2>7, <2>8
<1>4. CASE ~Unclaimed(t)
  BY <1>1, <1>2, <1>4 DEF CommitReset, OneResetPerToken
<1> QED
  BY <1>3, <1>4

\* Reset tokens, for every action.
LEMMA ResetHolds == SessionsInv /\ [SessionsNext]_sessionVars => ResetInv'
<1> SUFFICES ASSUME SessionsInv, [SessionsNext]_sessionVars PROVE ResetInv'
  OBVIOUS
<1> DEFINE Good(r) == r.pc = "reset" =>
                        r.token \in Token /\ r.user \in User /\ token[r.token] = r.user
<1> USE DEF SessionsInv, ResetInv
<1>1. ASSUME UNCHANGED resetVars, NEW q \in Request, NEW r, Good(r), req' = [req EXCEPT ![q] = r]
      PROVE  ResetInv'
  <2>1. \A x \in Request : Good(req'[x])
    BY <1>1 DEF RequestsInv
  <2> QED
    BY <1>1, <2>1 DEF resetVars, OneResetPerToken
<1>2. CASE UNCHANGED <<resetVars, req>>
  BY <1>2 DEF resetVars, OneResetPerToken
<1>3. Good(Idle)
  BY DEF Idle
<1>4. ASSUME NEW q \in Request, NEW u \in User, NEW w \in Workspace, Login(q, u, w) \/ Join(q, u, w)
      PROVE  ResetInv'
  <2>1. Good([Idle EXCEPT !.pc = "issue", !.user = u, !.workspace = w])
    BY DEF Idle
  <2> QED
    BY <1>1, <1>4, <2>1 DEF Login, Join, Enter
<1>5. ASSUME NEW q \in Request, NEW u, NEW w, NEW i \in held, ReadPresented(q, u, w, i)
      PROVE  ResetInv'
  <2>1. Good(Presents("reuse", u, w, i)) /\ Good(Presents("revoke", u, w, i))
    BY DEF Presents
  <2> QED
    BY <1>1, <1>5, <2>1 DEF ReadPresented, Enter
<1>6. ASSUME NEW q \in Request, NEW t \in Token, ReadToken(q, t)
      PROVE  ResetInv'
  <2>1. Good([Idle EXCEPT !.pc = "reset", !.user = token[t], !.token = t])
    BY <1>6 DEF ReadToken, Idle
  <2> QED
    BY <1>1, <1>6, <2>1 DEF ReadToken, Enter
<1>7. ASSUME NEW q \in Request, RevokePresented(q)
      PROVE  ResetInv'
  <2>1. Good([req[q] EXCEPT !.pc = "create"])
    BY DEF RequestsInv
  <2> QED
    BY <1>1, <1>7, <2>1 DEF RevokePresented, Go
<1>8. ASSUME NEW q \in Request,
             Issue(q) \/ RevokeFamily(q) \/ CreateSuccessor(q) \/ RequestDies(q)
      PROVE  ResetInv'
  BY <1>1, <1>3, <1>8 DEF Issue, RevokeFamily, CreateSuccessor, RequestDies, End
<1>9. ASSUME NEW u \in User, NEW t \in Token, RequestReset(t, u)
      PROVE  ResetInv'
  <2>1. t \notin used /\ UNCHANGED <<used, password, req>>
    BY <1>9 DEF RequestReset
  <2>2. \A x \in Token \ {t} : token'[x] = token[x]
    BY <1>9 DEF RequestReset
  <2>3. token' \in [Token -> User \cup {NoUser}]
    BY <1>9 DEF RequestReset
  <2>4. \A x \in Request : req[x].pc = "reset" => req[x].token # t
    BY <1>9, SessionsAssumption DEF RequestReset
  <2>5. \A v \in User : {x \in used : token'[x] = v} = {x \in used : token[x] = v}
    BY <2>1, <2>2
  <2>6. OneResetPerToken'
    BY <2>1, <2>5 DEF OneResetPerToken
  <2> QED
    BY <2>1, <2>2, <2>3, <2>4, <2>6
<1> HIDE DEF Good
<1>10. ASSUME NEW q \in Request, Begin(q) PROVE ResetInv'
  BY <1>4, <1>5, <1>6, <1>10 DEF Begin, SwitchWorkspace, Refresh
<1>11. ASSUME NEW q \in Request, Step(q) PROVE ResetInv'
  BY <1>7, <1>8, <1>11, CommitCounts DEF Step
<1>12. \/ UNCHANGED <<resetVars, req>>
       \/ \E q \in Request : Begin(q) \/ Step(q)
       \/ \E u \in User, t \in Token : RequestReset(t, u)
  BY DEF SessionsNext, sessionVars, Logout, LogoutAll, RemoveMember
<1> QED
  BY <1>2, <1>9, <1>10, <1>11, <1>12

\* Every action keeps the invariant.
LEMMA SessionsStep == SessionsInv /\ [SessionsNext]_sessionVars => SessionsInv'
  BY RowsHold, RequestsHold, MembersHold, FamiliesHold, ResetHolds DEF SessionsInv

----------------------------------------------------------------------------
\* A rotation at work was at work, or has just read a live row.
LEMMA RotationsStart ==
  ASSUME SessionsInv, [SessionsNext]_sessionVars, NEW q \in Request, Working(q)'
  PROVE  \/ Working(q) /\ req'[q].row = req[q].row
         \/ req'[q].row \in Ids /\ Live(req'[q].row)
<1> DEFINE Started == \/ Working(q) /\ req'[q].row = req[q].row
                      \/ req'[q].row \in Ids /\ Live(req'[q].row)
<1> USE DEF SessionsInv, RequestsInv
<1>1. ASSUME NEW p \in Request, NEW r, r.pc \notin Rotating, req' = [req EXCEPT ![p] = r]
      PROVE  Started
  BY <1>1 DEF Working
<1>2. ASSUME NEW p \in Request, NEW u \in User, NEW w \in Workspace, Login(p, u, w) \/ Join(p, u, w)
      PROVE  Started
  <2>1. [Idle EXCEPT !.pc = "issue", !.user = u, !.workspace = w].pc \notin Rotating
    BY DEF Idle, Rotating
  <2> QED
    BY <1>1, <1>2, <2>1 DEF Login, Join, Enter
<1>3. ASSUME NEW p \in Request, NEW t \in Token, ReadToken(p, t)
      PROVE  Started
  <2>1. [Idle EXCEPT !.pc = "reset", !.user = token[t], !.token = t].pc \notin Rotating
    BY DEF Idle, Rotating
  <2> QED
    BY <1>1, <1>3, <2>1 DEF ReadToken, Enter
<1>4. ASSUME NEW p \in Request,
             Issue(p) \/ RevokeFamily(p) \/ CreateSuccessor(p) \/ CommitReset(p) \/ RequestDies(p)
      PROVE  Started
  <2>1. Idle.pc \notin Rotating
    BY DEF Idle, Rotating
  <2> QED
    BY <1>1, <1>4, <2>1 DEF Issue, RevokeFamily, CreateSuccessor, CommitReset, RequestDies, End
<1>5. ASSUME NEW p \in Request, RevokePresented(p)
      PROVE  Started
  BY <1>5 DEF RevokePresented, Go, Working, Rotating
<1>6. ASSUME NEW p \in Request, NEW u, NEW w, NEW i \in held, ReadPresented(p, u, w, i)
      PROVE  Started
  <2>1. CASE Reused(i)
    <3>1. Presents("reuse", u, w, i).pc \notin Rotating
      BY DEF Presents, Rotating
    <3> QED
      BY <1>1, <1>6, <2>1, <3>1 DEF ReadPresented, Enter
  <2>2. CASE ~Reused(i)
    <3>1. i \in Ids /\ Live(i) /\ req' = [req EXCEPT ![p] = Presents("revoke", u, w, i)]
      BY <1>6, <2>2 DEF ReadPresented, Enter, Reused, Live, RowsInv
    <3>2. Presents("revoke", u, w, i).row = i
      BY DEF Presents
    <3> QED
      BY <3>1, <3>2 DEF Working
  <2> QED
    BY <2>1, <2>2
<1>7. CASE UNCHANGED req
  BY <1>7 DEF Working
<1> HIDE DEF Started
<1>8. ASSUME NEW p \in Request, Begin(p) PROVE Started
  BY <1>2, <1>3, <1>6, <1>8 DEF Begin, SwitchWorkspace, Refresh
<1>9. ASSUME NEW p \in Request, Step(p) PROVE Started
  BY <1>4, <1>5, <1>9 DEF Step
<1>10. UNCHANGED req \/ \E p \in Request : Begin(p) \/ Step(p)
  BY DEF SessionsNext, sessionVars, Logout, LogoutAll, RequestReset, RemoveMember
<1> QED
  BY <1>7, <1>8, <1>9, <1>10 DEF Started

\* One step leaves a dead family dead.
LEMMA DeadStep ==
  ASSUME SessionsInv, [SessionsNext]_sessionVars, NEW f \in Ids, Dead(f)
  PROVE  Dead(f)'
<1>1. ASSUME \A i \in Ids : i \in Ids' /\ session'[i] = session[i], revoked \subseteq revoked',
             NEW new, Ids' \subseteq Ids \cup {new}, new \in Ids \/ session'[new].family # f
      PROVE  Dead(f)'
  <2>1. session'[f].family = f
    BY <1>1 DEF Dead
  <2>2. ASSUME NEW i \in Ids', session'[i].family = f PROVE ~Live(i)'
    BY <1>1, <2>2 DEF Dead, Live
  <2>3. ASSUME NEW q \in Request, Working(q)' PROVE session'[req'[q].row].family # f
    <3>1. CASE Working(q) /\ req'[q].row = req[q].row
      BY <1>1, <3>1 DEF Dead, Working, SessionsInv, RequestsInv
    <3>2. CASE req'[q].row \in Ids /\ Live(req'[q].row)
      BY <1>1, <3>2 DEF Dead
    <3> QED
      BY <2>3, <3>1, <3>2, RotationsStart
  <2> QED
    BY <2>1, <2>2, <2>3 DEF Dead, Working
<1>2. CASE UNCHANGED session /\ revoked \subseteq revoked'
  BY <1>1, <1>2 DEF Ids
<1>3. ASSUME NEW row \in Row, session' = Append(session, row), revoked' = revoked, row.family # f
      PROVE  Dead(f)'
  <2>1. /\ Ids' = Ids \cup {Len(session) + 1} /\ session'[Len(session) + 1] = row
        /\ \A i \in Ids : session'[i] = session[i]
    BY <1>3, Appended DEF SessionsInv, RowsInv
  <2> QED
    BY <1>1, <1>3, <2>1
<1>4. ASSUME NEW q \in Request, Issue(q) PROVE Dead(f)'
  <2>1. PICK row \in Row :
          session' = Append(session, row) /\ revoked' = revoked /\ row.family = Len(session) + 1
    BY <1>4, IssuedRow
  <2>2. f # Len(session) + 1
    BY DEF Ids, SessionsInv, RowsInv
  <2> QED
    BY <1>3, <2>1, <2>2
<1>5. ASSUME NEW q \in Request, CreateSuccessor(q) PROVE Dead(f)'
  <2>1. PICK row \in Row :
          session' = Append(session, row) /\ revoked' = revoked /\ row.family = Family(q)
    BY <1>5, SuccessorRow
  <2>2. Family(q) # f
    BY <1>5 DEF CreateSuccessor, End, Dead, Family, Rotating
  <2> QED
    BY <1>3, <2>1, <2>2
<1> QED
  BY <1>2, <1>4, <1>5, RowsChange

\* Only the steps of a request that has proved an identity move it on.
LEMMA OnlyItsSteps ==
  ASSUME SessionsInv, [SessionsNext]_sessionVars, NEW q \in Request, req[q].user # NoUser,
         req'[q] # req[q]
  PROVE  Step(q)
<1>1. req[q].pc # "idle"
  BY DEF SessionsInv, RequestsInv
<1>2. ASSUME NEW p \in Request, Begin(p) PROVE p # q /\ req'[q] = req[q]
  <2>1. PICK r : Enter(p, r)
    BY <1>2 DEF Begin, Login, Join, SwitchWorkspace, Refresh, ReadPresented, ReadToken
  <2> QED
    BY <1>1, <2>1 DEF Enter, SessionsInv, RequestsInv
<1>3. ASSUME NEW p \in Request, Step(p), p # q PROVE req'[q] = req[q]
  <2>1. CASE RevokePresented(p)
    BY <1>3, <2>1 DEF RevokePresented, Go, SessionsInv, RequestsInv
  <2>2. CASE Issue(p) \/ RevokeFamily(p) \/ CreateSuccessor(p)
    BY <1>3, <2>2 DEF Issue, RevokeFamily, CreateSuccessor, End, SessionsInv, RequestsInv
  <2>3. CASE CommitReset(p) \/ RequestDies(p)
    BY <1>3, <2>3 DEF CommitReset, RequestDies, End, SessionsInv, RequestsInv
  <2> QED
    BY <1>3, <2>1, <2>2, <2>3 DEF Step
<1>4. UNCHANGED req \/ \E p \in Request : Begin(p) \/ Step(p)
  BY DEF SessionsNext, sessionVars, Logout, LogoutAll, RequestReset, RemoveMember
<1> QED
  BY <1>2, <1>3, <1>4

\* Its steps create and revoke rows of its user.
LEMMA OwnRowsOnly ==
  ASSUME SessionsInv, NEW q \in Request, req[q].user # NoUser, Step(q), NEW i \in 1..Len(session'),
         i \notin Ids \/ i \in revoked' \ revoked
  PROVE  session'[i].user = req[q].user
<1> USE DEF SessionsInv, sessionRows, RevokeRows
<1>1. ASSUME NEW row \in Row, session' = Append(session, row), revoked' = revoked,
             row.user = req[q].user
      PROVE  session'[i].user = req[q].user
  BY <1>1, Appended DEF RowsInv, Ids
<1>2. CASE Issue(q)
  BY <1>1, <1>2, IssuedRow
<1>3. CASE CreateSuccessor(q)
  <2>1. req[q].user = session[req[q].row].user
    BY <1>3 DEF CreateSuccessor, End, RequestsInv, Rotating
  <2>2. PICK row \in Row : /\ session' = Append(session, row) /\ revoked' = revoked
                           /\ row.user = session[req[q].row].user
    BY <1>3, SuccessorRow
  <2> QED
    BY <1>1, <2>1, <2>2
<1>4. CASE RevokeFamily(q)
  <2>1. req[q].row \in Ids /\ req[q].user = session[req[q].row].user
    BY <1>4 DEF RevokeFamily, End, RequestsInv
  <2>2. session' = session /\ i \in Ids /\ session[i].family = session[req[q].row].family
    BY <1>4 DEF RevokeFamily, Ids
  <2> QED
    BY <2>1, <2>2 DEF RowsInv
<1>5. CASE RevokePresented(q)
  <2>1. req[q].user = session[req[q].row].user
    BY <1>5 DEF RevokePresented, Go, RequestsInv, Rotating
  <2>2. session' = session /\ i = req[q].row
    BY <1>5 DEF RevokePresented, Ids
  <2> QED
    BY <2>1, <2>2
<1>6. CASE CommitReset(q)
  BY <1>6 DEF CommitReset, RowsOf, Ids
<1>7. CASE RequestDies(q)
  BY <1>7 DEF RequestDies, Ids
<1> QED
  BY <1>2, <1>3, <1>4, <1>5, <1>6, <1>7 DEF Step

----------------------------------------------------------------------------
\* The invariant holds in every reachable state.
LEMMA SessionsAlways == SessionsSpec => []SessionsInv
  BY SessionsInitially, SessionsStep, PTL DEF SessionsSpec

\* A family has two live sessions only after two rotations of one of its
\* tokens overlapped (SessionService.rotate).
THEOREM ForksNeedOverlap == SessionsSpec => []ForkNeedsOverlap
<1>1. SessionsInv => ForkNeedsOverlap
  BY DEF SessionsInv, FamiliesInv
<1> QED
  BY <1>1, SessionsAlways, PTL

\* No session names a workspace its user never was a member of.
THEOREM SessionsBelongToMembers == SessionsSpec => []SessionsOfMembers
<1>1. SessionsInv => SessionsOfMembers
  BY DEF SessionsInv, MembersInv
<1> QED
  BY <1>1, SessionsAlways, PTL

\* A reset token changes one password once (PasswordResetService.resetPassword).
THEOREM TokensCountOnce == SessionsSpec => []OneResetPerToken
<1>1. SessionsInv => OneResetPerToken
  BY DEF SessionsInv, ResetInv
<1> QED
  BY <1>1, SessionsAlways, PTL

\* A family without a live session and without a rotation past its read never
\* lives again (SessionService.rotate, revoke, revokeAllForUser).
THEOREM DeadStaysDead == SessionsSpec => DeadFamilyStaysDead
<1>1. SessionsInv /\ [SessionsNext]_sessionVars =>
        [\A f \in Ids : Dead(f) => Dead(f)']_sessionVars
  BY DeadStep
<1> QED
  BY <1>1, SessionsAlways, PTL DEF SessionsSpec, DeadFamilyStaysDead

\* A request that has proved an identity touches no session of another user
\* (AuthService.switchWorkspace, SessionService.rotate with an expected user).
THEOREM OthersAreUntouched == SessionsSpec => OthersUntouched
<1>1. SessionsInv /\ [SessionsNext]_sessionVars =>
        [\A q \in Request : req[q].user # NoUser /\ req'[q] # req[q]
           => \A i \in 1..Len(session') :
                i \notin Ids \/ i \in revoked' \ revoked => session'[i].user = req[q].user]_sessionVars
  BY OnlyItsSteps, OwnRowsOnly
<1> QED
  BY <1>1, SessionsAlways, PTL DEF SessionsSpec, OthersUntouched

-----------------------------------------------------------------------------
\* The rooms of a workspace, and the gateway.

SocketRecord ==
  [pc : {"closed", "verified", "admitted", "joined"},
   person : Person \cup {NoPerson}, process : Process \cup {NoProcess}]

SocketsTypeOK ==
  /\ inside \subseteq Person /\ badge \subseteq Person
  /\ socket \in [Socket -> SocketRecord]
  /\ remover \in [Remover -> [people : SUBSET Person, process : Process \cup {NoProcess}]]
  /\ late \subseteq Socket

\* What a handshake has read holds until it joins, or a removal has noted that
\* it came too early to reach the socket.
AdmittedInv ==
  \A s \in Socket : socket[s].pc = "admitted" => socket[s].person \in inside \/ s \in late

RoomsInv == SocketsTypeOK /\ AdmittedInv /\ RoomsOfMembers

\* The initial state satisfies the invariant.
LEMMA RoomsInitially == SocketsInit => RoomsInv
  BY DEF SocketsInit, RoomsInv, SocketsTypeOK, SocketRecord, AdmittedInv, RoomsOfMembers,
         NoSocket, NoRemoval

\* Types, for every action.
LEMMA SocketsTyped == RoomsInv /\ [SocketsNext]_socketVars => SocketsTypeOK'
<1> SUFFICES ASSUME RoomsInv, [SocketsNext]_socketVars PROVE SocketsTypeOK'
  OBVIOUS
<1> USE DEF RoomsInv, SocketsTypeOK, SocketRecord, NoSocket, NoRemoval
<1>1. ASSUME NEW p \in Person, AddPerson(p) \/ IssueToken(p) \/ TokenExpires(p)
      PROVE SocketsTypeOK'
  BY <1>1 DEF AddPerson, IssueToken, TokenExpires
<1>2. ASSUME NEW p \in Person, NEW s \in Socket, NEW n \in Process, Connect(s, p, n)
      PROVE SocketsTypeOK'
  BY <1>2 DEF Connect
<1>3. ASSUME NEW s \in Socket, ReadMembership(s) \/ JoinRooms(s) \/ SocketCloses(s)
      PROVE SocketsTypeOK'
  BY <1>3 DEF ReadMembership, JoinRooms, SocketCloses
<1>4. ASSUME NEW r \in Remover, CloseSockets(r)
      PROVE SocketsTypeOK'
  BY <1>4 DEF CloseSockets
<1>5. ASSUME NEW r \in Remover, NEW n \in Process, NEW people, CommitRemoval(r, people, n)
      PROVE SocketsTypeOK'
  BY <1>5 DEF CommitRemoval
<1>6. ASSUME NEW n \in Process, ProcessDies(n)
      PROVE SocketsTypeOK'
  BY <1>6 DEF ProcessDies
<1>7. CASE UNCHANGED socketVars
  BY <1>7 DEF socketVars
<1> QED
  BY <1>1, <1>2, <1>3, <1>4, <1>5, <1>6, <1>7 DEF SocketsNext

\* Admitted handshakes, for every action.
LEMMA AdmissionsHold == RoomsInv /\ [SocketsNext]_socketVars => AdmittedInv'
<1> SUFFICES ASSUME RoomsInv, [SocketsNext]_socketVars PROVE AdmittedInv'
  OBVIOUS
<1> USE DEF RoomsInv, SocketsTypeOK, SocketRecord, NoSocket, AdmittedInv
<1>1. ASSUME NEW p \in Person, AddPerson(p) \/ IssueToken(p) \/ TokenExpires(p)
      PROVE AdmittedInv'
  BY <1>1 DEF AddPerson, IssueToken, TokenExpires
<1>2. ASSUME NEW p \in Person, NEW s \in Socket, NEW n \in Process, Connect(s, p, n)
      PROVE AdmittedInv'
  BY <1>2 DEF Connect
<1>3. ASSUME NEW s \in Socket, ReadMembership(s) \/ JoinRooms(s) \/ SocketCloses(s)
      PROVE AdmittedInv'
  BY <1>3 DEF ReadMembership, JoinRooms, SocketCloses, Admits
<1>4. ASSUME NEW r \in Remover, CloseSockets(r)
      PROVE AdmittedInv'
  BY <1>4 DEF CloseSockets
<1>5. ASSUME NEW r \in Remover, NEW n \in Process, NEW people, CommitRemoval(r, people, n)
      PROVE AdmittedInv'
  BY <1>5 DEF CommitRemoval
<1>6. ASSUME NEW n \in Process, ProcessDies(n)
      PROVE AdmittedInv'
  BY <1>6 DEF ProcessDies
<1>7. CASE UNCHANGED socketVars
  BY <1>7 DEF socketVars
<1> QED
  BY <1>1, <1>2, <1>3, <1>4, <1>5, <1>6, <1>7 DEF SocketsNext

\* The rooms after a removal: its own sockets are its targets or late.
LEMMA RoomsAfterRemoval ==
  ASSUME RoomsInv, NEW r \in Remover, NEW n \in Process, NEW people, CommitRemoval(r, people, n)
  PROVE  RoomsOfMembers'
<1> SUFFICES ASSUME NEW s \in Socket, socket'[s].pc = "joined"
             PROVE  \/ socket'[s].person \in inside' \/ s \in late'
                    \/ \E x \in Remover : Targets(s, x)'
  BY DEF RoomsOfMembers
<1>1. /\ socket'[s] = socket[s] /\ socket[s].pc = "joined"
      /\ inside' = inside \ people /\ late \subseteq late'
  BY DEF CommitRemoval
<1>2. remover'[r] = [people |-> people, process |-> n]
      /\ \A x \in Remover \ {r} : remover'[x] = remover[x]
  BY DEF CommitRemoval, RoomsInv, SocketsTypeOK
<1>3. CASE socket[s].person \in people
  <2>1. CASE socket[s].process = n
    <3>1. Targets(s, r)'
      BY <1>1, <1>2, <1>3, <2>1 DEF Targets
    <3> QED
      BY <3>1
  <2>2. CASE socket[s].process # n
    BY <1>1, <1>3, <2>2 DEF CommitRemoval
  <2> QED
    BY <2>1, <2>2
<1>4. CASE socket[s].person \in inside \ people
  BY <1>1, <1>4
<1>5. CASE s \in late
  BY <1>1, <1>5
<1>6. ASSUME NEW x \in Remover, Targets(s, x)
      PROVE  \E y \in Remover : Targets(s, y)'
  <2>1. x # r
    BY <1>6 DEF Targets, CommitRemoval, NoRemoval
  <2>2. Targets(s, x)'
    BY <1>1, <1>2, <1>6, <2>1 DEF Targets
  <2> QED
    BY <2>2
<1> QED
  BY <1>1, <1>3, <1>4, <1>5, <1>6 DEF RoomsInv, RoomsOfMembers

\* Sockets that stay open keep what explains them when a removal closes its
\* targets, or a process dies.
LEMMA RoomsAfterClosing ==
  ASSUME RoomsInv, NEW r \in Remover, CloseSockets(r)
  PROVE  RoomsOfMembers'
<1> SUFFICES ASSUME NEW s \in Socket, socket'[s].pc = "joined"
             PROVE  \/ socket'[s].person \in inside' \/ s \in late'
                    \/ \E x \in Remover : Targets(s, x)'
  BY DEF RoomsOfMembers
<1>1. /\ socket'[s] = socket[s] /\ inside' = inside /\ late \subseteq late'
      /\ Targets(s, r) => s \in late'
  BY DEF CloseSockets, NoSocket
<1>2. \A x \in Remover \ {r} : remover'[x] = remover[x]
  BY DEF CloseSockets, RoomsInv, SocketsTypeOK
<1>3. ASSUME NEW x \in Remover, Targets(s, x)
      PROVE  Targets(s, x)' \/ s \in late'
  BY <1>1, <1>2, <1>3 DEF Targets
<1> QED
  BY <1>1, <1>3 DEF RoomsInv, RoomsOfMembers

\* A process that dies takes its sockets and its removals with it.
LEMMA RoomsAfterDeath ==
  ASSUME RoomsInv, NEW n \in Process, ProcessDies(n)
  PROVE  RoomsOfMembers'
<1> SUFFICES ASSUME NEW s \in Socket, socket'[s].pc = "joined"
             PROVE  \/ socket'[s].person \in inside' \/ s \in late'
                    \/ \E x \in Remover : Targets(s, x)'
  BY DEF RoomsOfMembers
<1>1. socket[s].process # n /\ socket'[s] = socket[s] /\ inside' = inside /\ late' = late
  BY DEF ProcessDies, NoSocket
<1>2. ASSUME NEW x \in Remover, Targets(s, x)
      PROVE  Targets(s, x)'
  BY <1>1, <1>2 DEF Targets, ProcessDies
<1> QED
  BY <1>1, <1>2 DEF RoomsInv, RoomsOfMembers

\* The rooms, for every action.
LEMMA RoomsHold == RoomsInv /\ [SocketsNext]_socketVars => RoomsOfMembers'
<1> SUFFICES ASSUME RoomsInv, [SocketsNext]_socketVars PROVE RoomsOfMembers'
  OBVIOUS
<1> USE DEF RoomsInv, SocketsTypeOK, SocketRecord, NoSocket, RoomsOfMembers, Targets
<1>1. ASSUME NEW p \in Person, AddPerson(p) \/ IssueToken(p) \/ TokenExpires(p)
      PROVE RoomsOfMembers'
  BY <1>1 DEF AddPerson, IssueToken, TokenExpires
<1>2. ASSUME NEW p \in Person, NEW s \in Socket, NEW n \in Process, Connect(s, p, n)
      PROVE RoomsOfMembers'
  BY <1>2 DEF Connect
<1>3. ASSUME NEW s \in Socket, ReadMembership(s) \/ SocketCloses(s)
      PROVE RoomsOfMembers'
  BY <1>3 DEF ReadMembership, SocketCloses
<1>4. ASSUME NEW s \in Socket, JoinRooms(s)
      PROVE RoomsOfMembers'
  BY <1>4 DEF JoinRooms, AdmittedInv
<1>5. ASSUME NEW r \in Remover, CloseSockets(r)
      PROVE RoomsOfMembers'
  BY <1>5, RoomsAfterClosing
<1>6. ASSUME NEW r \in Remover, NEW n \in Process, NEW people, CommitRemoval(r, people, n)
      PROVE RoomsOfMembers'
  BY <1>6, RoomsAfterRemoval
<1>7. ASSUME NEW n \in Process, ProcessDies(n)
      PROVE RoomsOfMembers'
  BY <1>7, RoomsAfterDeath
<1>8. CASE UNCHANGED socketVars
  BY <1>8 DEF socketVars
<1> QED
  BY <1>1, <1>2, <1>3, <1>4, <1>5, <1>6, <1>7, <1>8 DEF SocketsNext

\* Whoever is in the rooms is a member or about to be put out, or connected
\* while the membership was being taken away, or elsewhere, or missed by the call
\* that was to close its socket
\* (RealtimeGateway.handleConnection, disconnectMember, disconnectWorkspace).
THEOREM OnlyMembersListen == SocketsSpec => []RoomsOfMembers
<1>1. RoomsInv /\ [SocketsNext]_socketVars => RoomsInv'
  BY SocketsTyped, AdmissionsHold, RoomsHold DEF RoomsInv
<1>2. RoomsInv => RoomsOfMembers
  BY DEF RoomsInv
<1> QED
  BY <1>1, <1>2, RoomsInitially, PTL DEF SocketsSpec

----------------------------------------------------------------------------
\* The Discord gateway.

ClientRecord ==
  [made : BOOLEAN, stopped : BOOLEAN, ws : {"closed", "closing", "open", "greeted"}, older : Nat,
   timers : Nat, beating : BOOLEAN]

GatewayTypeOK ==
  /\ account \in {"none", "active", "disconnecting", "disconnected"}
  /\ secret \in BOOLEAN
  /\ handle \in 0..MaxClients
  /\ client \in [Client -> ClientRecord]
  /\ start \in [Start -> {"idle", "called", "secret", "listen"}]
  /\ overtaken \in BOOLEAN
  /\ unsound \subseteq Client

\* A client not made yet has nothing.  Until its session is declared invalid, a
\* client has no second socket, no reconnect to come while it has a socket, no
\* second reconnect, and once it is stopped no socket but one that is closing.
SoundClient(c) ==
  /\ c = handle => client[c].made
  /\ ~client[c].made => client[c] = NoClient
  /\ c \notin unsound =>
       /\ client[c].older = 0
       /\ client[c].timers <= 1
       /\ OpenWs(c) => client[c].timers = 0 /\ (~client[c].stopped \/ client[c].ws = "closing")

\* Unless a start was overtaken, one start runs, for an active account without
\* a handle, and only the handle's client runs.
OneStart ==
  ~overtaken =>
    /\ \A s, p \in Start : start[s] # "idle" /\ start[p] # "idle" => s = p
    /\ \A s \in Start : /\ start[s] # "idle" => account = "active"
                        /\ start[s] \in {"secret", "listen"} => handle = 0
    /\ \A c \in Client : Running(c) => handle = c
    /\ account # "active" => handle = 0

\* One client's part of GatewayListens.
ClientListens(c) ==
  Running(c) => /\ OpenWs(c) \/ client[c].older > 0 \/ client[c].timers > 0
                /\ client[c].ws = "greeted" => client[c].beating \/ c \in unsound

GatewayInv ==
  /\ GatewayTypeOK
  /\ OneStart
  /\ \A c \in Client : SoundClient(c) /\ ClientListens(c)

LEMMA GatewayInitially == GatewayInit => GatewayInv
<1> SUFFICES ASSUME GatewayInit PROVE GatewayInv
  OBVIOUS
<1>0. 0 \in 0..MaxClients /\ 0 \notin Client
  BY GatewayAssumption DEF Client
<1>1. GatewayTypeOK
  BY <1>0 DEF GatewayInit, GatewayTypeOK, ClientRecord, NoClient
<1>2. OneStart
  BY DEF GatewayInit, OneStart, Running, NoClient
<1>3. ASSUME NEW c \in Client PROVE SoundClient(c) /\ ClientListens(c)
  BY <1>0 DEF GatewayInit, SoundClient, ClientListens, Running, OpenWs, NoClient
<1> QED
  BY <1>1, <1>2, <1>3 DEF GatewayInv

\* What SoundClient and ClientListens ask of a client that is made.
Settled(D, c, bad) ==
  /\ c \notin bad =>
       /\ D.older = 0 /\ D.timers <= 1
       /\ D.ws # "closed" => D.timers = 0 /\ (~D.stopped \/ D.ws = "closing")
  /\ ~D.stopped => /\ D.ws # "closed" \/ D.older > 0 \/ D.timers > 0
                   /\ D.ws = "greeted" => D.beating \/ c \in bad

\* A client that is made and moves to a settled state leaves the rest alone.
LEMMA ClientMoves ==
  ASSUME GatewayInv, NEW c \in Client, client[c].made, NEW D \in ClientRecord,
         client' = [client EXCEPT ![c] = D],
         D.made, D.stopped = client[c].stopped,
         UNCHANGED <<account, secret, handle, start, overtaken>>,
         unsound' \in {unsound, unsound \cup {c}},
         Settled(D, c, unsound')
  PROVE  GatewayInv'
<1>0. GatewayTypeOK /\ OneStart
  BY DEF GatewayInv
<1>4. /\ client'[c] = D /\ client' \in [Client -> ClientRecord]
      /\ \A d \in Client : d # c => client'[d] = client[d]
  BY <1>0 DEF GatewayTypeOK
<1>5. GatewayTypeOK'
  BY <1>0, <1>4 DEF GatewayTypeOK
<1>6. SoundClient(c)' /\ ClientListens(c)'
  BY <1>4 DEF Settled, SoundClient, ClientListens, Running, OpenWs
<1>7. ASSUME NEW d \in Client, d # c PROVE SoundClient(d)' /\ ClientListens(d)'
  BY <1>4, <1>7 DEF GatewayInv, SoundClient, ClientListens, Running, OpenWs
<1>8. OneStart'
  BY <1>0, <1>4 DEF OneStart, Running
<1> QED
  BY <1>5, <1>6, <1>7, <1>8 DEF GatewayInv

\* A step of one client's sockets and timers.
LEMMA SocketStep ==
  ASSUME GatewayInv, NEW c \in Client,
         TimerFires(c) \/ Hello(c) \/ Reconnect(c) \/ WsCloses(c) \/ OlderCloses(c)
         \/ InvalidSession(c)
  PROVE  GatewayInv'
<1> DEFINE C == client[c]
<1>0. client \in [Client -> ClientRecord] /\ C \in ClientRecord
      /\ SoundClient(c) /\ ClientListens(c) /\ unsound \subseteq Client
  BY DEF GatewayInv, GatewayTypeOK
<1>1. C.made
  BY <1>0 DEF TimerFires, Hello, Reconnect, WsCloses, OlderCloses, InvalidSession, SoundClient, OpenWs, NoClient
<1>2. /\ C.stopped \in BOOLEAN /\ C.ws \in {"closed", "closing", "open", "greeted"} /\ C.older \in Nat
      /\ C.timers \in Nat /\ C.beating \in BOOLEAN /\ C.made \in BOOLEAN
  BY <1>0 DEF ClientRecord
<1>3. /\ c \notin unsound =>
           /\ C.older = 0 /\ C.timers <= 1
           /\ C.ws # "closed" => C.timers = 0 /\ (~C.stopped \/ C.ws = "closing")
      /\ ~C.stopped => /\ C.ws # "closed" \/ C.older > 0 \/ C.timers > 0
                       /\ C.ws = "greeted" => C.beating \/ c \in unsound
  BY <1>0, <1>1 DEF SoundClient, ClientListens, Running, OpenWs
<1>t. /\ Rescheduled(c) = IF C.stopped THEN C.timers ELSE C.timers + 1
      /\ Rescheduled(c) \in Nat
  BY <1>2 DEF Rescheduled
<1>4. CASE TimerFires(c)
  <2>1. /\ C.timers > 0 /\ C.timers - 1 \in Nat /\ C.older + 1 \in Nat
        /\ UNCHANGED <<account, secret, handle, start, overtaken, unsound>>
    BY <1>2, <1>4 DEF TimerFires
  <2>2. CASE C.stopped
    <3> DEFINE D == [C EXCEPT !.timers = @ - 1]
    <3>1. client' = [client EXCEPT ![c] = D]
      BY <1>4, <2>2 DEF TimerFires
    <3>2. /\ D \in ClientRecord /\ D.made /\ D.stopped = C.stopped /\ D.ws = C.ws
          /\ D.older = C.older /\ D.timers = C.timers - 1
      BY <1>0, <1>1, <2>1 DEF ClientRecord
    <3> HIDE DEF D
    <3>3. Settled(D, c, unsound')
      BY <1>2, <1>3, <2>1, <2>2, <3>2 DEF Settled
    <3>m. /\ D \in ClientRecord /\ D.made /\ D.stopped = client[c].stopped
          /\ client' = [client EXCEPT ![c] = D]
          /\ UNCHANGED <<account, secret, handle, start, overtaken>>
          /\ unsound' \in {unsound, unsound \cup {c}}
      BY <2>1, <3>1, <3>2
    <3> QED
      BY <1>1, <3>m, <3>3, ClientMoves
  <2>3. CASE ~C.stopped
    <3> DEFINE D == [C EXCEPT !.timers = @ - 1, !.ws = "open",
                              !.older = IF OpenWs(c) THEN @ + 1 ELSE @]
    <3>1. client' = [client EXCEPT ![c] = D]
      BY <1>4, <2>3 DEF TimerFires
    <3>2. /\ D \in ClientRecord /\ D.made /\ D.stopped = C.stopped /\ D.ws = "open"
          /\ D.older = (IF C.ws = "closed" THEN C.older ELSE C.older + 1)
          /\ D.timers = C.timers - 1
      BY <1>0, <1>1, <2>1 DEF ClientRecord, OpenWs
    <3> HIDE DEF D
    <3>3. Settled(D, c, unsound')
      BY <1>2, <1>3, <2>1, <2>3, <3>2 DEF Settled
    <3>m. /\ D \in ClientRecord /\ D.made /\ D.stopped = client[c].stopped
          /\ client' = [client EXCEPT ![c] = D]
          /\ UNCHANGED <<account, secret, handle, start, overtaken>>
          /\ unsound' \in {unsound, unsound \cup {c}}
      BY <2>1, <3>1, <3>2
    <3> QED
      BY <1>1, <3>m, <3>3, ClientMoves
  <2> QED
    BY <2>2, <2>3
<1>5. CASE Hello(c)
  <2>1. UNCHANGED <<account, secret, handle, start, overtaken, unsound>>
    BY <1>5 DEF Hello
  <2>2. PICK ws \in {"closed", "closing", "open", "greeted"} :
          /\ ws = C.ws \/ (C.ws = "open" /\ ws = "greeted")
          /\ client' = [client EXCEPT ![c] = [C EXCEPT !.beating = TRUE, !.ws = ws]]
    <3>1. CASE C.older > 0 /\ client' = [client EXCEPT ![c].beating = TRUE]
      <4>1. [C EXCEPT !.beating = TRUE] = [C EXCEPT !.beating = TRUE, !.ws = C.ws]
        BY <1>0 DEF ClientRecord
      <4>2. client' = [client EXCEPT ![c] = [C EXCEPT !.beating = TRUE, !.ws = C.ws]]
        BY <1>0, <3>1, <4>1
      <4> QED
        BY <1>2, <4>2
    <3>2. CASE client' = [client EXCEPT ![c].beating = TRUE,
                                        ![c].ws = IF @ = "open" THEN "greeted" ELSE @]
      <4>1. client' = [client EXCEPT ![c] = [C EXCEPT !.beating = TRUE,
                         !.ws = IF C.ws = "open" THEN "greeted" ELSE C.ws]]
        BY <1>0, <3>2
      <4> QED
        BY <1>2, <4>1
    <3> QED
      BY <1>5, <3>1, <3>2 DEF Hello
  <2> DEFINE D == [C EXCEPT !.beating = TRUE, !.ws = ws]
  <2>3. client' = [client EXCEPT ![c] = D]
    BY <2>2
  <2>4. /\ D \in ClientRecord /\ D.made /\ D.stopped = C.stopped /\ D.older = C.older
        /\ D.timers = C.timers /\ D.ws = ws /\ D.beating
    BY <1>0, <1>1 DEF ClientRecord
  <2> HIDE DEF D
  <2>5. Settled(D, c, unsound')
    BY <1>2, <1>3, <2>1, <2>2, <2>4 DEF Settled
  <2> QED
    BY <1>1, <2>1, <2>3, <2>4, <2>5, ClientMoves
<1>9. CASE Reconnect(c)
  <2> DEFINE D == [C EXCEPT !.ws = ClosedBy(@)]
  <2>1. /\ UNCHANGED <<account, secret, handle, start, overtaken, unsound>>
        /\ client' = [client EXCEPT ![c] = D]
    BY <1>0, <1>9 DEF Reconnect
  <2>2. ClosedBy(C.ws) = IF C.ws = "closed" THEN "closed" ELSE "closing"
    BY DEF ClosedBy
  <2>3. /\ D \in ClientRecord /\ D.made /\ D.stopped = C.stopped
        /\ D.ws = (IF C.ws = "closed" THEN "closed" ELSE "closing")
        /\ D.older = C.older /\ D.timers = C.timers
    BY <1>0, <1>1, <2>2 DEF ClientRecord
  <2> HIDE DEF D
  <2>4. Settled(D, c, unsound')
    BY <1>2, <1>3, <2>1, <2>3 DEF Settled
  <2> QED
    BY <1>1, <2>1, <2>3, <2>4, ClientMoves
<1>6. CASE WsCloses(c)
  <2> DEFINE D == [C EXCEPT !.ws = "closed", !.beating = FALSE, !.timers = Rescheduled(c)]
  <2>1. /\ UNCHANGED <<account, secret, handle, start, overtaken, unsound>>
        /\ C.ws # "closed" /\ client' = [client EXCEPT ![c] = D]
    BY <1>6 DEF WsCloses, OpenWs
  <2>2. /\ D \in ClientRecord /\ D.made /\ D.stopped = C.stopped /\ D.ws = "closed"
        /\ D.older = C.older /\ D.timers = Rescheduled(c)
    BY <1>0, <1>1, <1>t DEF ClientRecord
  <2> HIDE DEF D
  <2>3. Settled(D, c, unsound')
    BY <1>2, <1>3, <1>t, <2>1, <2>2 DEF Settled
  <2>m. /\ D \in ClientRecord /\ D.made /\ D.stopped = client[c].stopped
        /\ client' = [client EXCEPT ![c] = D]
        /\ UNCHANGED <<account, secret, handle, start, overtaken>>
        /\ unsound' \in {unsound, unsound \cup {c}}
    BY <2>1, <2>2
  <2> QED
    BY <1>1, <2>m, <2>3, ClientMoves
<1>7. CASE OlderCloses(c)
  <2> DEFINE D == [C EXCEPT !.older = @ - 1, !.beating = FALSE, !.timers = Rescheduled(c)]
  <2>1. /\ UNCHANGED <<account, secret, handle, start, overtaken, unsound>>
        /\ C.older > 0 /\ C.older - 1 \in Nat /\ client' = [client EXCEPT ![c] = D]
    BY <1>2, <1>7 DEF OlderCloses
  <2>2. /\ D \in ClientRecord /\ D.made /\ D.stopped = C.stopped /\ D.ws = C.ws
        /\ D.older = C.older - 1 /\ D.timers = Rescheduled(c)
    BY <1>0, <1>1, <1>t, <2>1 DEF ClientRecord
  <2> HIDE DEF D
  <2>3. c \in unsound
    BY <1>2, <1>3, <2>1
  <2>4. Settled(D, c, unsound')
    BY <1>2, <1>3, <1>t, <2>1, <2>2, <2>3 DEF Settled
  <2>m. /\ D \in ClientRecord /\ D.made /\ D.stopped = client[c].stopped
        /\ client' = [client EXCEPT ![c] = D]
        /\ UNCHANGED <<account, secret, handle, start, overtaken>>
        /\ unsound' \in {unsound, unsound \cup {c}}
    BY <2>1, <2>2
  <2> QED
    BY <1>1, <2>m, <2>4, ClientMoves
<1>8. CASE InvalidSession(c)
  <2> DEFINE D == [C EXCEPT !.timers = Rescheduled(c), !.beating = @ /\ C.stopped]
  <2>1. /\ UNCHANGED <<account, secret, handle, start, overtaken>>
        /\ unsound' = unsound \cup {c} /\ client' = [client EXCEPT ![c] = D]
        /\ C.ws # "closed" \/ C.older > 0
    BY <1>8 DEF InvalidSession, OpenWs
  <2>2. /\ D \in ClientRecord /\ D.made /\ D.stopped = C.stopped /\ D.ws = C.ws
        /\ D.older = C.older /\ D.timers = Rescheduled(c)
    BY <1>0, <1>1, <1>t DEF ClientRecord
  <2> HIDE DEF D
  <2>3. Settled(D, c, unsound')
    BY <1>2, <1>3, <1>t, <2>1, <2>2 DEF Settled
  <2> QED
    BY <1>1, <2>1, <2>2, <2>3, ClientMoves
<1> QED
  BY <1>4, <1>5, <1>6, <1>7, <1>8, <1>9

LEMMA StartStep ==
  ASSUME GatewayInv, NEW s \in Start,
         CallStart(s) \/ EnterStart(s) \/ GetSecret(s) \/ Listen(s)
  PROVE  GatewayInv'
<1>0. GatewayTypeOK /\ OneStart /\ \A b \in Client : SoundClient(b) /\ ClientListens(b)
  BY DEF GatewayInv
<1>1. CASE CallStart(s) \/ EnterStart(s) \/ GetSecret(s)
  <2>1. UNCHANGED <<account, secret, handle, client, unsound>>
    BY <1>1 DEF CallStart, EnterStart, GetSecret
  <2>2. GatewayTypeOK'
    BY <1>0, <1>1 DEF GatewayTypeOK, CallStart, EnterStart, GetSecret
  <2>3. OneStart'
    BY <1>0, <1>1, <2>1 DEF GatewayTypeOK, OneStart, Running, CallStart, EnterStart, GetSecret
  <2>4. ASSUME NEW b \in Client PROVE SoundClient(b)' /\ ClientListens(b)'
    BY <1>0, <2>1 DEF SoundClient, ClientListens, Running, OpenWs
  <2> QED
    BY <2>2, <2>3, <2>4 DEF GatewayInv
<1>2. CASE Listen(s)
  <2>1. PICK c \in Client : /\ ~client[c].made
                            /\ client' = [client EXCEPT ![c] =
                                 [NoClient EXCEPT !.made = TRUE, !.ws = "open"]]
                            /\ handle' = c
    BY <1>2 DEF Listen
  <2>2. /\ UNCHANGED <<account, secret, overtaken, unsound>>
        /\ start' = [start EXCEPT ![s] = "idle"] /\ start[s] = "listen"
    BY <1>2 DEF Listen
  <2>3. client'[c] = [made |-> TRUE, stopped |-> FALSE, ws |-> "open", older |-> 0,
                      timers |-> 0, beating |-> FALSE]
    BY <1>0, <2>1 DEF GatewayTypeOK, NoClient
  <2>4. /\ \A b \in Client : b # c => client'[b] = client[b]
        /\ client' \in [Client -> ClientRecord]
    BY <1>0, <2>1, <2>3 DEF GatewayTypeOK, ClientRecord, NoClient
  <2>5. c \in 0..MaxClients
    BY GatewayAssumption DEF Client
  <2>6. GatewayTypeOK'
    BY <1>0, <2>1, <2>2, <2>4, <2>5 DEF GatewayTypeOK
  <2>7. OneStart'
    <3>1. ~overtaken => \A b \in Client : ~Running(b)
      <4>1. 0 \notin Client
        BY GatewayAssumption DEF Client
      <4> QED
        BY <1>0, <2>2, <4>1 DEF OneStart
    <3>2. ~overtaken => account = "active"
      BY <1>0, <2>2 DEF OneStart
    <3>3. ~overtaken => \A p \in Start : start'[p] = "idle"
      BY <1>0, <2>2 DEF OneStart, GatewayTypeOK
    <3>4. ~overtaken => \A b \in Client : Running(b)' => handle' = b
      BY <2>1, <2>4, <3>1 DEF Running
    <3>5. start' \in [Start -> {"idle", "called", "secret", "listen"}]
      BY <2>6 DEF GatewayTypeOK
    <3> QED
      BY <2>2, <3>2, <3>3, <3>4, <3>5 DEF OneStart
  <2>8. ASSUME NEW b \in Client PROVE SoundClient(b)' /\ ClientListens(b)'
    <3>1. CASE b = c
      <4>1. client'[c].made /\ client'[c].ws = "open" /\ ~client'[c].stopped
            /\ client'[c].older = 0 /\ client'[c].timers = 0
        BY <2>3
      <4> QED
        BY <3>1, <4>1 DEF SoundClient, ClientListens, OpenWs
    <3>2. CASE b # c
      BY <1>0, <2>1, <2>2, <2>4, <3>2 DEF SoundClient, ClientListens, Running, OpenWs
    <3> QED
      BY <3>1, <3>2
  <2> QED
    BY <2>6, <2>7, <2>8 DEF GatewayInv
<1> QED
  BY <1>1, <1>2

\* The account's own steps, a stop and a restart.
LEMMA AccountStep ==
  ASSUME GatewayInv, Connected \/ StopGateway \/ DeleteSecret \/ DeletionRefused \/ Restart
  PROVE  GatewayInv'
<1>0. GatewayTypeOK /\ OneStart /\ \A b \in Client : SoundClient(b) /\ ClientListens(b)
  BY DEF GatewayInv
<1>z. 0 \in 0..MaxClients /\ 0 \notin Client /\ \A h \in 0..MaxClients : h # 0 => h \in Client
  BY GatewayAssumption DEF Client
<1>1. CASE Connected \/ DeleteSecret \/ DeletionRefused
  <2>1. UNCHANGED <<handle, client, start, overtaken, unsound>>
    BY <1>1 DEF Connected, DeleteSecret, DeletionRefused
  <2>2. GatewayTypeOK' /\ OneStart'
    BY <1>0, <1>1, <2>1
    DEF GatewayTypeOK, OneStart, Running, Connected, DeleteSecret, DeletionRefused
  <2>3. ASSUME NEW b \in Client PROVE SoundClient(b)' /\ ClientListens(b)'
    BY <1>0, <2>1 DEF SoundClient, ClientListens, Running, OpenWs
  <2> QED
    BY <2>2, <2>3 DEF GatewayInv
<1>2. CASE StopGateway
  <2>1. /\ account' = "disconnecting" /\ handle' = 0
        /\ UNCHANGED <<secret, start, unsound>>
        /\ overtaken' = (overtaken \/ \E s \in Start : start[s] # "idle")
    BY <1>2 DEF StopGateway
  <2>2. \A b \in Client :
          IF b = handle
          THEN client'[b] = [client[b] EXCEPT !.stopped = TRUE, !.beating = FALSE,
                                                 !.ws = ClosedBy(@)]
          ELSE client'[b] = client[b]
    BY <1>0, <1>2, <1>z DEF StopGateway, Stopped, GatewayTypeOK
  <2>3. client' \in [Client -> ClientRecord]
    <3>1. CASE handle = 0
      BY <1>0, <1>2, <3>1 DEF StopGateway, GatewayTypeOK
    <3>2. CASE handle # 0
      <4> DEFINE new == [client[handle] EXCEPT !.stopped = TRUE, !.beating = FALSE,
                                              !.ws = ClosedBy(@)]
      <4>1. handle \in Client /\ client[handle] \in ClientRecord
        BY <1>0, <1>z, <3>2 DEF GatewayTypeOK
      <4>2. new \in ClientRecord
        BY <4>1 DEF ClientRecord, ClosedBy
      <4>3. client' = [client EXCEPT ![handle] = new]
        BY <1>2, <3>2, <4>1 DEF StopGateway, Stopped
      <4> HIDE DEF new
      <4> QED
        BY <1>0, <4>2, <4>3 DEF GatewayTypeOK
    <3> QED
      BY <3>1, <3>2
  <2>4. GatewayTypeOK'
    BY <1>0, <1>z, <2>1, <2>3 DEF GatewayTypeOK
  <2>5. ASSUME NEW b \in Client PROVE SoundClient(b)' /\ ClientListens(b)' /\ (Running(b)' => Running(b) /\ b # handle)
    <3>1. client[b] \in ClientRecord /\ SoundClient(b) /\ ClientListens(b)
      BY <1>0 DEF GatewayTypeOK
    <3>2. CASE b = handle
      <4>1. client'[b] = [client[b] EXCEPT !.stopped = TRUE, !.beating = FALSE,
                                           !.ws = ClosedBy(@)]
        BY <2>2, <3>2
      <4>2. client'[b].made /\ client'[b].stopped /\ client'[b].ws = ClosedBy(client[b].ws)
            /\ client'[b].older = client[b].older /\ client'[b].timers = client[b].timers
        BY <3>1, <3>2, <4>1 DEF ClientRecord, SoundClient, ClientListens
      <4>3. /\ client[b].ws = "closed" => client'[b].ws = "closed"
            /\ client[b].ws # "closed" => client'[b].ws = "closing"
        BY <4>2 DEF ClosedBy
      <4> QED
        BY <1>z, <2>1, <3>1, <3>2, <4>2, <4>3 DEF SoundClient, ClientListens, Running, OpenWs
    <3>3. CASE b # handle
      BY <1>z, <2>1, <2>2, <3>1, <3>3 DEF SoundClient, ClientListens, Running, OpenWs
    <3> QED
      BY <3>2, <3>3
  <2>6. OneStart'
    BY <1>0, <2>1, <2>5 DEF OneStart, GatewayTypeOK
  <2> QED
    BY <2>4, <2>5, <2>6 DEF GatewayInv
<1>3. CASE Restart
  <2>1. /\ account' = IF account = "disconnecting" THEN "active" ELSE account
        /\ handle' = 0 /\ start' = [s \in Start |-> "idle"]
        /\ UNCHANGED <<secret, overtaken, unsound>>
    BY <1>3 DEF Restart
  <2>2. ASSUME NEW b \in Client
        PROVE  client'[b] = [made |-> client[b].made, stopped |-> client[b].made, ws |-> "closed",
                             older |-> 0, timers |-> 0, beating |-> FALSE]
    <3>1. client'[b] = [client[b] EXCEPT !.stopped = client[b].made, !.ws = "closed",
                          !.older = 0, !.timers = 0, !.beating = FALSE]
      BY <1>3 DEF Restart
    <3>2. client[b] \in ClientRecord
      BY <1>0 DEF GatewayTypeOK
    <3> QED
      BY <3>1, <3>2 DEF ClientRecord
  <2>3. client' \in [Client -> ClientRecord]
    <3> DEFINE new(c) == [client[c] EXCEPT !.stopped = client[c].made, !.ws = "closed",
                            !.older = 0, !.timers = 0, !.beating = FALSE]
    <3>1. ASSUME NEW c \in Client PROVE new(c) \in ClientRecord
      <4>1. client[c] \in ClientRecord
        BY <1>0 DEF GatewayTypeOK
      <4> QED
        BY <4>1 DEF ClientRecord
    <3>2. client' = [c \in Client |-> new(c)]
      BY <1>3 DEF Restart
    <3> HIDE DEF new
    <3> QED
      BY <3>1, <3>2
  <2>4. GatewayTypeOK'
    BY <1>0, <1>z, <2>1, <2>3 DEF GatewayTypeOK
  <2>5. ASSUME NEW b \in Client PROVE SoundClient(b)' /\ ClientListens(b)' /\ ~Running(b)'
    <3>1. client[b].made \in BOOLEAN
      BY <1>0 DEF GatewayTypeOK, ClientRecord
    <3>2. /\ client'[b].ws = "closed" /\ client'[b].older = 0 /\ client'[b].timers = 0
          /\ client'[b].made => client'[b].stopped
          /\ client[b].made => client'[b].made
      <4> DEFINE m == client[b].made
      <4>1. client'[b] = [made |-> m, stopped |-> m, ws |-> "closed", older |-> 0, timers |-> 0,
                          beating |-> FALSE]
        BY <2>2
      <4> HIDE DEF m
      <4>2. /\ client'[b].ws = "closed" /\ client'[b].older = 0 /\ client'[b].timers = 0
            /\ client'[b].made = m /\ client'[b].stopped = m
        BY <4>1
      <4> QED
        BY <4>2 DEF m
    <3>3. ~Running(b)'
      BY <3>1, <3>2 DEF Running
    <3>4. ~client[b].made => client'[b] = NoClient
      BY <2>2, <3>1 DEF NoClient
    <3> QED
      BY <1>z, <2>1, <3>1, <3>2, <3>3, <3>4 DEF SoundClient, ClientListens, OpenWs
  <2>6. OneStart'
    BY <2>1, <2>5 DEF OneStart
  <2> QED
    BY <2>4, <2>5, <2>6 DEF GatewayInv
<1> QED
  BY <1>1, <1>2, <1>3

LEMMA GatewayStep == GatewayInv /\ [GatewayNext]_gatewayVars => GatewayInv'
<1>1. GatewayInv /\ UNCHANGED gatewayVars => GatewayInv'
  BY DEF gatewayVars, GatewayInv, GatewayTypeOK, SoundClient, ClientListens, OneStart, Running,
    OpenWs
<1> QED
  BY <1>1, SocketStep, StartStep, AccountStep DEF GatewayNext

\* A client that was not stopped has a socket or a reconnect to come, and a
\* greeted connection its heartbeat, whatever closes and timers interleave.
THEOREM GatewayAlwaysListens == GatewaySpec => []GatewayListens
<1>1. GatewayInv => GatewayListens
  BY DEF GatewayInv, ClientListens, GatewayListens, NeverStranded, GreetedIsBeating
<1> QED
  BY <1>1, GatewayInitially, GatewayStep, PTL DEF GatewaySpec

\* After stop the account has no connection but one that is closing, and none is
\* opened again, unless a start was overtaken or the client's session had been
\* declared invalid.
THEOREM StopAlwaysSilences == GatewaySpec => []StopSilences
<1>1. GatewayInv => StopSilences
  <2> SUFFICES ASSUME GatewayInv, NEW c \in Client, client[c].made, ~overtaken, c \notin unsound,
                      account \in {"disconnecting", "disconnected"}
               PROVE  /\ client[c].stopped /\ client[c].older = 0
                      /\ client[c].ws \in {"closing", "closed"}
    BY DEF StopSilences
  <2>1. 0 \notin Client
    BY GatewayAssumption DEF Client
  <2>2. SoundClient(c) /\ OneStart /\ client[c] \in ClientRecord
    BY DEF GatewayInv, GatewayTypeOK
  <2>3. client[c].stopped
    BY <2>1, <2>2 DEF OneStart, Running
  <2> QED
    BY <2>2, <2>3 DEF SoundClient, OpenWs, ClientRecord
<1> QED
  BY <1>1, GatewayInitially, GatewayStep, PTL DEF GatewaySpec
=============================================================================
