-------------------------- MODULE MembershipProofs --------------------------
(***************************************************************************)
(* Proofs about Membership, for any number of users, invites and requests: *)
(* its variables keep their types, no interleaving makes a second owner,   *)
(* an invite admits one member, a guarded deletion spares other members,   *)
(* and only a transfer race loses the owner.                               *)
(***************************************************************************)
EXTENDS Membership, TLAPS

\* What the parameters of a request are, by its handler and next statement.
ParamInv ==
  \A q \in Request :
    /\ pc[q] # "idle" => actor[q] \in User
    /\ pc[q] \in {"insertInvite", "readInvite", "claim", "insert"} => ticket[q] \in Invite
    /\ pc[q] = "readTarget" => op[q] \in {"change", "remove"}
    /\ pc[q] = "readSelf" => op[q] = "leave"
    /\ pc[q] = "write" => op[q] \in {"change", "remove", "leave"}
    /\ op[q] \in {"change", "remove"} => target[q] \in User /\ seen[q] # 0
    /\ op[q] = "change" => newRole[q] # "none"
    /\ pc[q] \in {"findTarget", "promote"} => op[q] = "transfer" /\ own[q] # 0
    /\ op[q] = "transfer" => target[q] \in User
    /\ pc[q] = "promote" => seen[q] # 0

Typed == TypeOK /\ ParamInv

LEMMA InitTyped == Init => Typed
<1> SUFFICES ASSUME Init PROVE Typed
  OBVIOUS
<1>1. TableTypeOK
  BY MembershipAssumption DEF Init, TableTypeOK, Roles
<1>2. LockTypeOK /\ RequestTypeOK /\ HistoryTypeOK
  BY DEF Init, LockTypeOK, RequestTypeOK, HistoryTypeOK, Roles, Ops, Labels
<1>3. ParamInv
  BY DEF Init, ParamInv
<1> QED
  BY <1>1, <1>2, <1>3 DEF Typed, TypeOK

\* The end of a request keeps everything but the tables well typed.
LEMMA EndTyped ==
  ASSUME Typed, NEW q \in Request, End(q)
  PROVE  LockTypeOK' /\ RequestTypeOK' /\ ParamInv'
<1>1. LockTypeOK'
  BY DEF Typed, TypeOK, LockTypeOK, End
<1>2. RequestTypeOK'
  BY DEF Typed, TypeOK, RequestTypeOK, End, Roles, Ops, Labels
<1>3. ParamInv'
  BY DEF Typed, TypeOK, RequestTypeOK, ParamInv, End
<1> QED
  BY <1>1, <1>2, <1>3

LEMMA RejectTyped ==
  ASSUME Typed, NEW q \in Request, Reject(q)
  PROVE  Typed'
<1>1. TableTypeOK' /\ HistoryTypeOK'
  BY DEF Reject, Typed, TypeOK, TableTypeOK, HistoryTypeOK, tableVars, historyVars
<1> QED
  BY <1>1, EndTyped DEF Reject, Typed, TypeOK

LEMMA ArriveTyped ==
  ASSUME Typed, NEW q \in Request, Arrive(q)
  PROVE  Typed'
<1> USE DEF Typed, TypeOK
<1> PICK u \in User :
      \/ \E i \in Invite : BeginInvite(q, u, i) \/ BeginAccept(q, u, i)
      \/ \E t \in User : \/ \E r \in {"admin", "member"} : BeginChange(q, u, t, r)
                         \/ BeginRemove(q, u, t)
                         \/ BeginTransfer(q, u, t)
      \/ BeginLeave(q, u)
      \/ \E alone \in BOOLEAN : BeginDelete(q, u, alone)
  BY DEF Arrive
<1> DEFINE Begun == /\ UNCHANGED <<tableVars, lockVars, joined>>
                    /\ overtaken' = [overtaken EXCEPT ![q] = FALSE]
<1>0. Begun => TableTypeOK' /\ LockTypeOK' /\ HistoryTypeOK'
  BY DEF TableTypeOK, LockTypeOK, HistoryTypeOK, tableVars, lockVars
<1>1. ASSUME NEW i \in Invite, BeginInvite(q, u, i) PROVE Typed'
  <2>1. RequestTypeOK'
    BY <1>1 DEF BeginInvite, Begin, RequestTypeOK, TableTypeOK, Ops, Labels
  <2>2. ParamInv'
    BY <1>1 DEF BeginInvite, Begin, RequestTypeOK, ParamInv
  <2> QED
    BY <1>1, <1>0, <2>1, <2>2 DEF BeginInvite, Begin
<1>2. ASSUME NEW i \in Invite, BeginAccept(q, u, i) PROVE Typed'
  <2>1. RequestTypeOK'
    BY <1>2 DEF BeginAccept, Begin, RequestTypeOK, TableTypeOK, Ops, Labels
  <2>2. ParamInv'
    BY <1>2 DEF BeginAccept, Begin, RequestTypeOK, ParamInv
  <2> QED
    BY <1>2, <1>0, <2>1, <2>2 DEF BeginAccept, Begin
<1>3. ASSUME NEW t \in User, NEW r \in {"admin", "member"}, BeginChange(q, u, t, r) PROVE Typed'
  <2>1. row[t] \in Nat \ {0}
    BY <1>3 DEF BeginChange, Member, TableTypeOK
  <2>2. RequestTypeOK'
    BY <1>3, <2>1 DEF BeginChange, Begin, RequestTypeOK, TableTypeOK, Ops, Labels
  <2>3. ParamInv'
    BY <1>3, <2>1 DEF BeginChange, Begin, RequestTypeOK, ParamInv
  <2> QED
    BY <1>3, <1>0, <2>2, <2>3 DEF BeginChange, Begin
<1>4. ASSUME NEW t \in User, BeginRemove(q, u, t) PROVE Typed'
  <2>1. row[t] \in Nat \ {0}
    BY <1>4 DEF BeginRemove, Member, TableTypeOK
  <2>2. RequestTypeOK'
    BY <1>4, <2>1 DEF BeginRemove, Begin, RequestTypeOK, TableTypeOK, Ops, Labels
  <2>3. ParamInv'
    BY <1>4, <2>1 DEF BeginRemove, Begin, RequestTypeOK, ParamInv
  <2> QED
    BY <1>4, <1>0, <2>2, <2>3 DEF BeginRemove, Begin
<1>5. ASSUME NEW t \in User, BeginTransfer(q, u, t) PROVE Typed'
  <2>1. RequestTypeOK'
    BY <1>5 DEF BeginTransfer, Begin, RequestTypeOK, TableTypeOK, Ops, Labels
  <2>2. ParamInv'
    BY <1>5 DEF BeginTransfer, Begin, RequestTypeOK, ParamInv
  <2> QED
    BY <1>5, <1>0, <2>1, <2>2 DEF BeginTransfer, Begin
<1>6. ASSUME BeginLeave(q, u) PROVE Typed'
  <2>1. RequestTypeOK'
    BY <1>6 DEF BeginLeave, Begin, RequestTypeOK, TableTypeOK, Ops, Labels
  <2>2. ParamInv'
    BY <1>6 DEF BeginLeave, Begin, RequestTypeOK, ParamInv
  <2> QED
    BY <1>6, <1>0, <2>1, <2>2 DEF BeginLeave, Begin
<1>7. ASSUME NEW alone \in BOOLEAN, BeginDelete(q, u, alone) PROVE Typed'
  <2>1. RequestTypeOK'
    BY <1>7 DEF BeginDelete, Begin, RequestTypeOK, TableTypeOK, Ops, Labels
  <2>2. ParamInv'
    BY <1>7 DEF BeginDelete, Begin, RequestTypeOK, ParamInv
  <2> QED
    BY <1>7, <1>0, <2>1, <2>2 DEF BeginDelete, Begin
<1> QED
  BY <1>1, <1>2, <1>3, <1>4, <1>5, <1>6, <1>7

\* A statement that only moves its request on to the next one.
LEMMA GoTyped ==
  ASSUME Typed, NEW q \in Request, NEW from \in Labels, NEW to \in Labels,
         Go(q, from, to), UNCHANGED <<paramVars, readVars>>, from # "idle",
         to \in {"claim", "insert"} => from \in {"readInvite", "claim"},
         to = "write" => from \in {"readTarget", "readSelf"},
         to \in {"claim", "insert", "write", "lock", "verify", "erase"}
  PROVE  RequestTypeOK' /\ ParamInv'
<1>1. RequestTypeOK'
  BY DEF Typed, TypeOK, RequestTypeOK, Go, paramVars, readVars
<1>2. ParamInv'
  BY DEF Typed, TypeOK, RequestTypeOK, ParamInv, Go, paramVars, readVars
<1> QED
  BY <1>1, <1>2

LEMMA StatementTyped ==
  ASSUME Typed, NEW q \in Request, Statement(q)
  PROVE  Typed'
<1> USE DEF Typed, TypeOK
<1>t. UNCHANGED tableVars => TableTypeOK'
  BY DEF TableTypeOK, tableVars
<1>l. UNCHANGED lockVars => LockTypeOK'
  BY DEF LockTypeOK, lockVars
<1>h. UNCHANGED historyVars => HistoryTypeOK'
  BY DEF HistoryTypeOK, historyVars
<1>g. UNCHANGED <<tableVars, lockVars, historyVars>> =>
        TableTypeOK' /\ LockTypeOK' /\ HistoryTypeOK'
  BY <1>t, <1>l, <1>h
<1>a. pc[q] # "idle" => actor[q] \in User
  BY DEF ParamInv
<1>1. CASE CreateInvite(q)
  <2>1. ticket[q] \in Invite
    BY <1>1 DEF CreateInvite, ParamInv
  <2>2. TableTypeOK'
    BY <1>1, <2>1 DEF CreateInvite, TableTypeOK
  <2>3. HistoryTypeOK'
    BY <1>1, <1>h DEF CreateInvite
  <2> QED
    BY <1>1, <2>2, <2>3, EndTyped DEF CreateInvite
<1>2. CASE ReadInvite(q)
  <2>1. CASE Reject(q)
    BY <2>1, RejectTyped
  <2>2. CASE Go(q, "readInvite", "claim") /\ UNCHANGED <<tableVars, lockVars, paramVars, readVars, historyVars>>
    BY <2>2, <1>g, GoTyped DEF Labels
  <2> QED
    BY <1>2, <2>1, <2>2 DEF ReadInvite
<1>3. CASE ClaimInvite(q)
  <2>1. CASE Reject(q)
    BY <2>1, RejectTyped
  <2>2. CASE ~Reject(q)
    <3>1. Go(q, "claim", "insert") /\ UNCHANGED <<tableVars, lock, paramVars, readVars, historyVars>>
      BY <1>3, <2>2 DEF ClaimInvite
    <3>2. claim' = [claim EXCEPT ![ticket[q]] = q]
      BY <1>3, <2>2 DEF ClaimInvite
    <3>3. LockTypeOK'
      BY <3>1, <3>2 DEF LockTypeOK
    <3> QED
      BY <3>1, <3>3, <1>t, <1>h, GoTyped DEF Labels
  <2> QED
    BY <2>1, <2>2
<1>4. CASE CreateMember(q)
  <2>1. CASE Reject(q)
    BY <2>1, RejectTyped
  <2>2. CASE Join(q) /\ pc[q] = "insert"
    <3>1. ticket[q] \in Invite /\ actor[q] \in User
      BY <2>2 DEF ParamInv
    <3>2. InviteRole[ticket[q]] \in {"admin", "member"}
      BY <3>1, MembershipAssumption
    <3>3. TableTypeOK'
      BY <2>2, <3>1, <3>2 DEF Join, TableTypeOK, Roles
    <3>4. HistoryTypeOK'
      BY <2>2, <3>1 DEF Join, HistoryTypeOK
    <3> QED
      BY <2>2, <3>3, <3>4, EndTyped DEF Join
  <2> QED
    BY <1>4, <2>1, <2>2 DEF CreateMember
<1>5. CASE ReadTarget(q)
  <2>1. CASE Reject(q)
    BY <2>1, RejectTyped
  <2>2. CASE Go(q, "readTarget", "write") /\ UNCHANGED <<tableVars, lockVars, paramVars, readVars, historyVars>>
    BY <2>2, <1>g, GoTyped DEF Labels
  <2> QED
    BY <1>5, <2>1, <2>2 DEF ReadTarget
<1>6. CASE ChangeRole(q)
  <2>1. CASE Reject(q)
    BY <2>1, RejectTyped
  <2>2. CASE ~Reject(q)
    <3>1. /\ SeenRow(q)
          /\ role' = [role EXCEPT ![target[q]] = newRole[q]]
          /\ End(q)
          /\ UNCHANGED <<exists, row, nextRow, invite, historyVars>>
      BY <1>6, <2>2 DEF ChangeRole
    <3>2. target[q] \in User /\ row[target[q]] # 0 /\ newRole[q] \in {"admin", "member"}
      BY <1>6, <3>1 DEF ChangeRole, ParamInv, SeenRow, RequestTypeOK
    <3>3. TableTypeOK'
      BY <3>1, <3>2 DEF TableTypeOK, Roles
    <3> QED
      BY <3>1, <3>3, <1>h, EndTyped
  <2> QED
    BY <2>1, <2>2
<1>r. \A u \in User : RemoveRow(u) => TableTypeOK'
  BY DEF RemoveRow, TableTypeOK, Roles
<1>7. CASE RemoveMember(q)
  <2>1. target[q] \in User
    BY <1>7 DEF RemoveMember, ParamInv
  <2>2. TableTypeOK'
    BY <1>7, <2>1, <1>r, <1>t DEF RemoveMember
  <2> QED
    BY <1>7, <2>2, <1>h, EndTyped DEF RemoveMember
<1>8. CASE ReadSelf(q)
  <2>1. CASE Reject(q)
    BY <2>1, RejectTyped
  <2>2. CASE Go(q, "readSelf", "write") /\ UNCHANGED <<tableVars, lockVars, paramVars, readVars, historyVars>>
    BY <2>2, <1>g, GoTyped DEF Labels
  <2> QED
    BY <1>8, <2>1, <2>2 DEF ReadSelf
<1>9. CASE Leave(q)
  BY <1>9, <1>a, <1>r, <1>h, EndTyped DEF Leave
<1>10. CASE LockWorkspace(q)
  <2>1. CASE Reject(q)
    BY <2>1, RejectTyped
  <2>2. CASE Go(q, "lock", "verify") /\ lock' = q /\ UNCHANGED <<tableVars, claim, paramVars, readVars, historyVars>>
    <3>1. LockTypeOK'
      BY <2>2 DEF LockTypeOK
    <3> QED
      BY <2>2, <3>1, <1>t, <1>h, GoTyped DEF Labels
  <2> QED
    BY <1>10, <2>1, <2>2 DEF LockWorkspace
<1>11. CASE VerifyActor(q)
  <2>1. CASE Reject(q)
    BY <2>1, RejectTyped
  <2>2. CASE ~Reject(q)
    <3>1. /\ op[q] = "transfer" /\ role[actor[q]] = "owner"
          /\ Go(q, "verify", "findTarget")
          /\ own' = [own EXCEPT ![q] = row[actor[q]]]
          /\ UNCHANGED <<tableVars, lockVars, paramVars, seen, historyVars>>
      BY <1>11, <2>2 DEF VerifyActor
    <3>2. row[actor[q]] \in Nat \ {0}
      BY <3>1, <1>a DEF Go, TableTypeOK
    <3>3. RequestTypeOK'
      BY <3>1, <3>2 DEF Go, RequestTypeOK, Labels, paramVars
    <3>4. ParamInv'
      BY <3>1, <3>2 DEF Go, RequestTypeOK, ParamInv, paramVars
    <3> QED
      BY <3>1, <3>3, <3>4, <1>g
  <2> QED
    BY <2>1, <2>2
<1>12. CASE FindTarget(q)
  <2>1. CASE Reject(q)
    BY <2>1, RejectTyped
  <2>2. CASE ~Reject(q)
    <3>1. /\ Member(target[q])
          /\ Go(q, "findTarget", "promote")
          /\ seen' = [seen EXCEPT ![q] = row[target[q]]]
          /\ UNCHANGED <<tableVars, lockVars, paramVars, own, historyVars>>
      BY <1>12, <2>2 DEF FindTarget
    <3>2. target[q] \in User /\ op[q] = "transfer" /\ own[q] # 0
      BY <3>1 DEF Go, ParamInv
    <3>3. row[target[q]] \in Nat \ {0}
      BY <3>1, <3>2 DEF Member, TableTypeOK
    <3>4. RequestTypeOK'
      BY <3>1, <3>3 DEF Go, RequestTypeOK, Labels, paramVars
    <3>5. ParamInv'
      BY <3>1, <3>2, <3>3 DEF Go, RequestTypeOK, ParamInv, paramVars
    <3> QED
      BY <3>1, <3>4, <3>5, <1>g
  <2> QED
    BY <2>1, <2>2
<1>13. CASE Promote(q)
  <2>1. CASE Reject(q)
    BY <2>1, RejectTyped
  <2>2. CASE ~Reject(q)
    <3>1. /\ SeenRow(q) /\ row[actor[q]] = own[q]
          /\ role' = [role EXCEPT ![actor[q]] = "admin", ![target[q]] = "owner"]
          /\ overtaken' = [r \in Request |-> pc[r] = "write"]
          /\ End(q)
          /\ UNCHANGED <<exists, row, nextRow, invite, joined>>
      BY <1>13, <2>2 DEF Promote
    <3>2. /\ actor[q] \in User /\ row[actor[q]] # 0
          /\ target[q] \in User /\ row[target[q]] # 0
      BY <1>13, <3>1 DEF Promote, ParamInv, SeenRow
    <3>3. TableTypeOK'
      BY <3>1, <3>2 DEF TableTypeOK, Roles
    <3>4. HistoryTypeOK'
      BY <3>1 DEF HistoryTypeOK
    <3> QED
      BY <3>1, <3>3, <3>4, EndTyped
  <2> QED
    BY <2>1, <2>2
<1>14. CASE ReadOwner(q)
  <2>1. CASE Reject(q)
    BY <2>1, RejectTyped
  <2>2. CASE Go(q, "readOwner", "lock") /\ UNCHANGED <<tableVars, lockVars, paramVars, readVars, historyVars>>
    BY <2>2, <1>g, GoTyped DEF Labels
  <2> QED
    BY <1>14, <2>1, <2>2 DEF ReadOwner
<1>15. CASE VerifyOwner(q)
  <2>1. CASE Reject(q)
    BY <2>1, RejectTyped
  <2>2. CASE Go(q, "verify", "erase") /\ UNCHANGED <<tableVars, lockVars, paramVars, readVars, historyVars>>
    BY <2>2, <1>g, GoTyped DEF Labels
  <2> QED
    BY <1>15, <2>1, <2>2 DEF VerifyOwner
<1>16. CASE Erase(q)
  <2>1. TableTypeOK'
    BY <1>16 DEF Erase, TableTypeOK, Roles
  <2> QED
    BY <1>16, <2>1, <1>h, EndTyped DEF Erase
<1> QED
  BY <1>1, <1>2, <1>3, <1>4, <1>5, <1>6, <1>7, <1>8, <1>9, <1>10, <1>11, <1>12,
     <1>13, <1>14, <1>15, <1>16 DEF Statement

LEMMA NextTyped == Typed /\ [Next]_vars => Typed'
<1> SUFFICES ASSUME Typed, [Next]_vars PROVE Typed'
  OBVIOUS
<1>1. ASSUME NEW q \in Request, Arrive(q) \/ Statement(q) \/ RequestFails(q) PROVE Typed'
  BY <1>1, ArriveTyped, StatementTyped, RejectTyped DEF RequestFails
<1>2. ASSUME NEW a \in Request, NEW d \in Request, DeadlockVictim(a, d) PROVE Typed'
  BY <1>2, RejectTyped DEF DeadlockVictim
<1>3. CASE UNCHANGED vars
  BY <1>3 DEF Typed, TypeOK, TableTypeOK, LockTypeOK, RequestTypeOK, HistoryTypeOK, ParamInv,
    vars, tableVars, lockVars, paramVars, readVars, historyVars
<1> QED
  BY <1>1, <1>2, <1>3 DEF Next

\* The variables of Membership keep their types in every behaviour, and a user
\* has a role exactly when there is a workspace_members row for it.
THEOREM MembershipTyped == Spec => []TypeOK
<1>1. Typed => TypeOK
  BY DEF Typed
<1> QED
  BY <1>1, InitTyped, NextTyped, PTL DEF Spec

----------------------------------------------------------------------------
\* A step of one request leaves the locals of the others alone, and takes the
\* workspace row's lock only when it is free.

Step(q) == Arrive(q) \/ Statement(q) \/ Reject(q)

Held == {"verify", "findTarget", "promote", "erase"}

Frame(q) ==
  \A r \in Request \ {q} :
    /\ pc'[r] = pc[r] /\ op'[r] = op[r] /\ actor'[r] = actor[r] /\ target'[r] = target[r]
    /\ ticket'[r] = ticket[r] /\ guarded'[r] = guarded[r]
    /\ pc[r] = "write" /\ overtaken[r] => overtaken'[r]

Locking(q) ==
  \/ lock' = lock /\ (pc'[q] \in Held => pc[q] \in Held)
  \/ Free /\ lock' = q
  \/ lock = q /\ lock' = NoRequest /\ pc'[q] = "idle"

LEMMA EndFrame ==
  ASSUME Typed, NEW q \in Request, End(q)
  PROVE  /\ \A r \in Request \ {q} :
              /\ pc'[r] = pc[r] /\ op'[r] = op[r] /\ actor'[r] = actor[r] /\ target'[r] = target[r]
              /\ ticket'[r] = ticket[r] /\ guarded'[r] = guarded[r]
         /\ pc'[q] = "idle"
         /\ Locking(q)
BY DEF End, Typed, TypeOK, RequestTypeOK, Locking, Held

LEMMA RejectFrame ==
  ASSUME Typed, NEW q \in Request, Reject(q)
  PROVE  Frame(q) /\ Locking(q) /\ pc'[q] = "idle" /\ UNCHANGED <<tableVars, historyVars>>
BY EndFrame DEF Reject, Frame, historyVars

\* A statement that neither ends the request nor takes the lock.
LEMMA GoFrame ==
  ASSUME Typed, NEW q \in Request, NEW from, NEW to, Go(q, from, to),
         UNCHANGED <<lock, paramVars, historyVars>>, to \in Held => from \in Held
  PROVE  Frame(q) /\ Locking(q)
BY DEF Go, Frame, Locking, Held, paramVars, historyVars, Typed, TypeOK, RequestTypeOK

LEMMA ArriveFrame ==
  ASSUME Typed, NEW q \in Request, Arrive(q)
  PROVE  /\ Frame(q) /\ Locking(q)
         /\ UNCHANGED <<tableVars, claim, joined>>
         /\ pc'[q] \notin {"claim", "insert", "write", "verify", "findTarget", "promote", "erase"}
<1> USE DEF Typed, TypeOK
<1> PICK u \in User :
      \/ \E i \in Invite : BeginInvite(q, u, i) \/ BeginAccept(q, u, i)
      \/ \E t \in User : \/ \E r \in {"admin", "member"} : BeginChange(q, u, t, r)
                         \/ BeginRemove(q, u, t)
                         \/ BeginTransfer(q, u, t)
      \/ BeginLeave(q, u)
      \/ \E alone \in BOOLEAN : BeginDelete(q, u, alone)
  BY DEF Arrive
<1>1. UNCHANGED <<tableVars, claim, joined, lock>>
  BY DEF BeginInvite, BeginAccept, BeginChange, BeginRemove, BeginTransfer, BeginLeave,
    BeginDelete, Begin, lockVars
<1>2. Frame(q)
  BY DEF BeginInvite, BeginAccept, BeginChange, BeginRemove, BeginTransfer, BeginLeave,
    BeginDelete, Begin, Frame, RequestTypeOK, HistoryTypeOK
<1>3. pc'[q] \notin {"claim", "insert", "write", "verify", "findTarget", "promote", "erase"}
  BY DEF BeginInvite, BeginAccept, BeginChange, BeginRemove, BeginTransfer, BeginLeave,
    BeginDelete, Begin, RequestTypeOK
<1> QED
  BY <1>1, <1>2, <1>3 DEF Locking, Held

\* The statements that only read, take a lock or reject.
LEMMA ReadFrame ==
  ASSUME Typed, NEW q \in Request,
         \/ ReadInvite(q) \/ ClaimInvite(q) \/ ReadTarget(q) \/ ReadSelf(q) \/ LockWorkspace(q)
         \/ VerifyActor(q) \/ FindTarget(q) \/ ReadOwner(q) \/ VerifyOwner(q)
  PROVE  Frame(q) /\ Locking(q) /\ UNCHANGED <<tableVars, historyVars>>
<1>1. CASE Reject(q)
  BY <1>1, RejectFrame
<1>2. CASE LockWorkspace(q) /\ ~Reject(q)
  BY <1>2 DEF LockWorkspace, Go, Frame, Locking, paramVars, historyVars, Typed, TypeOK, RequestTypeOK
<1>3. CASE ~LockWorkspace(q) /\ ~Reject(q)
  <2>1. \E from, to : /\ Go(q, from, to) /\ (to \in Held => from \in Held)
                      /\ UNCHANGED <<lock, paramVars, historyVars, tableVars>>
    <3>1. CASE ReadInvite(q) \/ ClaimInvite(q) \/ ReadTarget(q) \/ ReadSelf(q) \/ ReadOwner(q)
      BY <1>3, <3>1 DEF ReadInvite, ClaimInvite, ReadTarget, ReadSelf, ReadOwner, Held, lockVars
    <3>2. CASE VerifyActor(q) \/ FindTarget(q) \/ VerifyOwner(q)
      BY <1>3, <3>2 DEF VerifyActor, FindTarget, VerifyOwner, Held, lockVars
    <3> QED
      BY <1>3, <3>1, <3>2
  <2> QED
    BY <2>1, GoFrame
<1> QED
  BY <1>1, <1>2, <1>3

LEMMA StepFrame ==
  ASSUME Typed, NEW q \in Request, Step(q)
  PROVE  Frame(q) /\ Locking(q)
<1> USE DEF Frame, historyVars
<1>1. CASE Arrive(q)
  BY <1>1, ArriveFrame
<1>2. CASE Reject(q)
  BY <1>2, RejectFrame
<1>3. CASE End(q) /\ overtaken' = overtaken
  BY <1>3, EndFrame
<1>4. CASE Promote(q)
  BY <1>4, EndFrame, RejectFrame DEF Promote
<1>5. CASE CreateInvite(q) \/ CreateMember(q) \/ ChangeRole(q) \/ RemoveMember(q) \/ Leave(q) \/ Erase(q)
  BY <1>2, <1>3, <1>5 DEF CreateInvite, CreateMember, Join, ChangeRole, RemoveMember, Leave, Erase
<1> QED
  BY <1>1, <1>2, <1>4, <1>5, ReadFrame DEF Step, Statement

----------------------------------------------------------------------------
\* What a step does to the roles.

Victim(q) == IF op[q] = "leave" THEN actor[q] ELSE target[q]

Demotes(q) ==
  /\ pc[q] = "write" /\ pc'[q] = "idle" /\ Victim(q) \in User
  /\ \E r \in {"none", "admin", "member"} :
       /\ role' = [role EXCEPT ![Victim(q)] = r]
       /\ r # "none" => Member(Victim(q))

Joins(q) ==
  /\ pc[q] = "insert" /\ Free /\ actor[q] \in User /\ ~Member(actor[q])
  /\ \E r \in {"admin", "member"} : role' = [role EXCEPT ![actor[q]] = r]

Transfers(q) ==
  /\ pc[q] = "promote" /\ target[q] \in User /\ Member(target[q])
  /\ role' = [role EXCEPT ![actor[q]] = "admin", ![target[q]] = "owner"]
  /\ overtaken' = [r \in Request |-> pc[r] = "write"]

Erases(q) == pc[q] = "erase" /\ ~exists' /\ role' = [u \in User |-> "none"]

LEMMA RoleSteps ==
  ASSUME Typed, NEW q \in Request, Step(q)
  PROVE  role' = role \/ Demotes(q) \/ Joins(q) \/ Transfers(q) \/ Erases(q)
<1> USE DEF Typed, TypeOK
<1>1. CASE Arrive(q)
  BY <1>1, ArriveFrame DEF tableVars
<1>2. CASE Reject(q)
  BY <1>2, RejectFrame DEF tableVars
<1>3. CASE CreateInvite(q)
  BY <1>3 DEF CreateInvite
<1>4. CASE CreateMember(q) /\ ~Reject(q)
  <2>1. pc[q] = "insert" /\ Free /\ ~Member(actor[q]) /\ Join(q)
    BY <1>4 DEF CreateMember
  <2>2. actor[q] \in User /\ InviteRole[ticket[q]] \in {"admin", "member"}
    BY <2>1, MembershipAssumption DEF ParamInv
  <2> QED
    BY <2>1, <2>2 DEF Joins, Join
<1>5. CASE ChangeRole(q) /\ ~Reject(q)
  <2>1. /\ op[q] = "change" /\ pc[q] = "write" /\ SeenRow(q) /\ End(q)
        /\ role' = [role EXCEPT ![target[q]] = newRole[q]]
    BY <1>5 DEF ChangeRole
  <2>2. target[q] \in User /\ newRole[q] \in {"admin", "member"} /\ row[target[q]] # 0
    BY <2>1 DEF ParamInv, SeenRow, RequestTypeOK
  <2>3. Member(target[q])
    BY <2>2 DEF Member, TableTypeOK
  <2> QED
    BY <2>1, <2>2, <2>3, EndFrame DEF Demotes, Victim
<1>6. CASE RemoveMember(q)
  BY <1>6, EndFrame DEF RemoveMember, RemoveRow, tableVars, Demotes, Victim, ParamInv
<1>7. CASE Leave(q)
  BY <1>7, EndFrame DEF Leave, RemoveRow, Demotes, Victim, ParamInv
<1>8. CASE Promote(q) /\ ~Reject(q)
  <2>1. /\ pc[q] = "promote" /\ SeenRow(q)
        /\ role' = [role EXCEPT ![actor[q]] = "admin", ![target[q]] = "owner"]
        /\ overtaken' = [r \in Request |-> pc[r] = "write"]
    BY <1>8 DEF Promote
  <2>2. target[q] \in User /\ row[target[q]] # 0
    BY <2>1 DEF ParamInv, SeenRow
  <2> QED
    BY <2>1, <2>2 DEF Transfers, Member, TableTypeOK
<1>9. CASE Erase(q)
  BY <1>9 DEF Erase, Erases
<1> QED
  BY <1>1, <1>2, <1>3, <1>4, <1>5, <1>6, <1>7, <1>8, <1>9, ReadFrame DEF Step, Statement, tableVars

\* The checks a request has passed when it reaches its write.
Checked(q) ==
  /\ pc[q] # "idle"
  /\ pc'[q] = "findTarget" => role[actor[q]] = "owner"
  /\ pc'[q] = "promote" => pc[q] = "findTarget"
  /\ pc'[q] = "write" => role[Victim(q)] # "owner"
  /\ pc'[q] = "erase" => (guarded[q] => Others(q) = {})

LEMMA MoveSteps ==
  ASSUME Typed, NEW q \in Request, Step(q), pc'[q] \in {"findTarget", "promote", "write", "erase"}
  PROVE  Checked(q) /\ UNCHANGED <<role, paramVars>>
<1> USE DEF Typed, TypeOK, RequestTypeOK
<1>1. ~Arrive(q)
  BY ArriveFrame
<1>2. ~Reject(q)
  BY RejectFrame
<1>3. ~End(q)
  BY EndFrame
<1>4. Statement(q)
  BY <1>1, <1>2 DEF Step
<1>5. ~(CreateInvite(q) \/ CreateMember(q) \/ ChangeRole(q) \/ RemoveMember(q) \/ Leave(q)
        \/ Promote(q) \/ Erase(q))
  BY <1>2, <1>3 DEF CreateInvite, CreateMember, Join, ChangeRole, RemoveMember, Leave, Promote, Erase
<1>6. ~(ReadInvite(q) \/ ClaimInvite(q) \/ LockWorkspace(q) \/ ReadOwner(q))
  BY <1>2 DEF ReadInvite, ClaimInvite, LockWorkspace, ReadOwner, Go
<1>7. CASE ReadTarget(q)
  BY <1>2, <1>7 DEF ReadTarget, Go, MayTouch, Victim, Checked, ParamInv, tableVars
<1>8. CASE ReadSelf(q)
  BY <1>2, <1>8 DEF ReadSelf, Go, Victim, Checked, ParamInv, tableVars
<1>9. CASE VerifyActor(q)
  BY <1>2, <1>9 DEF VerifyActor, Go, Checked, tableVars
<1>10. CASE FindTarget(q)
  BY <1>2, <1>10 DEF FindTarget, Go, Checked, tableVars
<1>11. CASE VerifyOwner(q)
  BY <1>2, <1>11 DEF VerifyOwner, Go, Checked, tableVars
<1> QED
  BY <1>4, <1>5, <1>6, <1>7, <1>8, <1>9, <1>10, <1>11 DEF Statement

----------------------------------------------------------------------------
\* The inductive invariant behind the safety theorems.

\* A transaction between its lock and its commit holds the workspace row.
LockInv == \A q \in Request : pc[q] \in Held => lock = q

\* Between its check and its commit nobody but a transfer's actor is owner.
TransferInv ==
  \A q \in Request : pc[q] \in {"findTarget", "promote"} =>
    \A u \in User : role[u] = "owner" => u = actor[q]

\* A role change, removal or departure about to be written was not aimed at
\* the owner, unless a transfer has overtaken it.
WriteInv ==
  \A q \in Request : pc[q] = "write" /\ ~overtaken[q] => role[Victim(q)] # "owner"

\* A guarded deletion about to erase is alone.
GuardInv == \A q \in Request : pc[q] = "erase" /\ guarded[q] => Others(q) = {}

OwnerInv == AtMostOneOwner /\ LockInv /\ TransferInv /\ WriteInv /\ GuardInv

LEMMA InitOwner == Init => OwnerInv
BY DEF Init, OwnerInv, AtMostOneOwner, LockInv, TransferInv, WriteInv, GuardInv, Held

LEMMA LockStep ==
  ASSUME Typed, LockInv, NEW q \in Request, Step(q)
  PROVE  LockInv'
BY StepFrame, MembershipAssumption DEF LockInv, Frame, Locking, Free, Held

\* A step that finds the row locked by another request is not a transfer's
\* commit, an erasure or a join.
LEMMA LockedOut ==
  ASSUME Typed, LockInv, NEW q \in Request, NEW r \in Request \ {q}, pc[r] \in Held
  PROVE  ~Transfers(q) /\ ~Erases(q) /\ ~Joins(q)
BY MembershipAssumption DEF LockInv, Held, Transfers, Erases, Joins, Free

LEMMA OwnerStep ==
  ASSUME Typed, OwnerInv, NEW q \in Request, Step(q)
  PROVE  OwnerInv'
<1> USE DEF OwnerInv
<1>f. Frame(q) /\ Locking(q)
  BY StepFrame
<1>e. role' = role \/ Demotes(q) \/ Joins(q) \/ Transfers(q) \/ Erases(q)
  BY RoleSteps
<1>r. role \in [User -> Roles]
  BY DEF Typed, TypeOK, TableTypeOK
<1>o. ~Transfers(q) => \A u \in User : role'[u] = "owner" => role[u] = "owner"
  BY <1>e, <1>r DEF Demotes, Joins, Erases
<1>1. LockInv'
  BY LockStep
<1>2. AtMostOneOwner'
  <2>1. CASE Transfers(q)
    BY <2>1, <1>r DEF Transfers, TransferInv, AtMostOneOwner
  <2>2. CASE ~Transfers(q)
    BY <2>2, <1>o DEF AtMostOneOwner
  <2> QED
    BY <2>1, <2>2
<1>3. TransferInv'
  <2> SUFFICES ASSUME NEW r \in Request, (pc[r] \in {"findTarget", "promote"})',
                      NEW u \in User, (role[u] = "owner")'
               PROVE  u = actor'[r]
    BY DEF TransferInv
  <2>1. CASE r # q
    <3>1. pc[r] \in {"findTarget", "promote"} /\ actor'[r] = actor[r]
      BY <2>1, <1>f DEF Frame
    <3>2. ~Transfers(q)
      BY <2>1, <3>1, LockedOut DEF Held
    <3> QED
      BY <3>1, <3>2, <1>o DEF TransferInv
  <2>2. CASE r = q
    <3>1. Checked(q) /\ UNCHANGED <<role, paramVars>>
      BY <2>2, MoveSteps
    <3>2. CASE pc'[q] = "findTarget"
      <4>1. actor[q] \in User /\ actor'[q] = actor[q]
        BY <3>1 DEF Checked, Typed, ParamInv, paramVars
      <4> QED
        BY <2>2, <3>1, <3>2, <4>1 DEF Checked, AtMostOneOwner
    <3>3. CASE pc'[q] = "promote"
      BY <2>2, <3>1, <3>3 DEF Checked, TransferInv, paramVars
    <3> QED
      BY <2>2, <3>2, <3>3
  <2> QED
    BY <2>1, <2>2
<1>4. WriteInv'
  <2> SUFFICES ASSUME NEW r \in Request, (pc[r] = "write")', (~overtaken[r])'
               PROVE  (role[Victim(r)] # "owner")'
    BY DEF WriteInv
  <2>1. CASE r # q
    <3>1. pc[r] = "write" /\ Victim(r)' = Victim(r) /\ ~overtaken[r]
      BY <2>1, <1>f DEF Frame, Victim
    <3>2. ~Transfers(q)
      BY <3>1 DEF Transfers
    <3>3. Victim(r) \in User
      BY <3>1 DEF Victim, Typed, TypeOK, ParamInv
    <3> QED
      BY <3>1, <3>2, <3>3, <1>o DEF WriteInv
  <2>2. CASE r = q
    BY <2>2, MoveSteps DEF Checked, Victim, paramVars
  <2> QED
    BY <2>1, <2>2
<1>5. GuardInv'
  <2> SUFFICES ASSUME NEW r \in Request, (pc[r] = "erase")', guarded'[r]
               PROVE  Others(r)' = {}
    BY DEF GuardInv
  <2>1. CASE r # q
    <3>1. pc[r] = "erase" /\ actor'[r] = actor[r] /\ guarded[r]
      BY <2>1, <1>f DEF Frame
    <3>2. role' = role \/ Demotes(q)
      BY <2>1, <3>1, <1>e, LockedOut DEF Held
    <3>3. \A u \in User : Member(u)' => Member(u)
      BY <3>2, <1>r DEF Demotes, Member
    <3> QED
      BY <3>1, <3>3 DEF GuardInv, Others
  <2>2. CASE r = q
    BY <2>2, MoveSteps DEF Checked, Others, Member, paramVars
  <2> QED
    BY <2>1, <2>2
<1> QED
  BY <1>1, <1>2, <1>3, <1>4, <1>5

LEMMA StepOfNext ==
  ASSUME Next
  PROVE  \E q \in Request : Step(q)
BY DEF Next, Step, RequestFails, DeadlockVictim

LEMMA NextOwner == Typed /\ OwnerInv /\ [Next]_vars => OwnerInv'
<1> SUFFICES ASSUME Typed, OwnerInv, [Next]_vars PROVE OwnerInv'
  OBVIOUS
<1>1. CASE Next
  BY <1>1, StepOfNext, OwnerStep
<1>2. CASE UNCHANGED vars
  BY <1>2 DEF OwnerInv, AtMostOneOwner, LockInv, TransferInv, WriteInv, GuardInv, Victim, Others,
    Member, vars, tableVars, lockVars, paramVars, readVars, historyVars
<1> QED
  BY <1>1, <1>2

LEMMA SafetyInv == Spec => [](Typed /\ OwnerInv)
BY InitTyped, InitOwner, NextTyped, NextOwner, PTL DEF Spec

\* However transfers, role changes, removals, joins and deletions interleave, a
\* workspace never has two owners (transferOwnership checks under the row lock
\* that its caller still is the owner).
THEOREM NeverTwoOwners == Spec => []AtMostOneOwner
<1>1. OwnerInv => AtMostOneOwner
  BY DEF OwnerInv
<1> QED
  BY <1>1, SafetyInv, PTL

\* deleteWorkspace with requireNoOtherMembers erases no other member, also when
\* a redeemed invite races it: the check is made under the row lock.
THEOREM GuardedDeleteSafe == Spec => GuardedDeleteSparesMembers
<1>1. OwnerInv => \A q \in Request : Erase(q) /\ guarded[q] => Others(q) = {}
  BY DEF OwnerInv, GuardInv, Erase
<1> QED
  BY <1>1, SafetyInv, PTL DEF GuardedDeleteSparesMembers

\* The only way to a workspace without an owner is a transfer that commits
\* between the read and the write of changeMemberRole, removeMember or leave.
THEOREM OwnerLossExplained == Spec => OwnerLostOnlyToTransferRace
<1> DEFINE Race == \E q \in Request : pc[q] = "write" /\ pc'[q] = "idle" /\ overtaken[q]
<1>1. ASSUME Typed, OwnerInv, [Next]_vars, HasOwner, exists', ~HasOwner'
      PROVE  Race
  <2>1. Next
    BY <1>1 DEF HasOwner, vars, tableVars
  <2>2. PICK q \in Request : Step(q)
    BY <2>1, StepOfNext
  <2>3. PICK o \in User : role[o] = "owner" /\ role'[o] # "owner"
    BY <1>1 DEF HasOwner
  <2>r. role \in [User -> Roles]
    BY <1>1 DEF Typed, TypeOK, TableTypeOK
  <2>4. ~Joins(q)
    BY <2>3, <2>r DEF Joins, Member
  <2>5. ~Transfers(q)
    BY <1>1, <2>r DEF Transfers, HasOwner
  <2>6. Demotes(q) /\ Victim(q) = o
    BY <1>1, <2>2, <2>3, <2>4, <2>5, <2>r, RoleSteps DEF Demotes, Erases
  <2> QED
    BY <1>1, <2>3, <2>6 DEF Demotes, OwnerInv, WriteInv
<1> QED
  BY <1>1, SafetyInv, PTL DEF OwnerLostOnlyToTransferRace, Spec

----------------------------------------------------------------------------
\* An invite admits one member.

\* A claimed invite is still open and claimed by one request; one that is being
\* created is known to nobody else; one that has been redeemed stays so.
InviteInv ==
  /\ \A i \in Invite : joined[i] <= 1 /\ (joined[i] # 0 => invite[i] \in {"used", "erased"})
  /\ \A q \in Request : pc[q] = "insert" => claim[ticket[q]] = q /\ invite[ticket[q]] = "open"
  /\ \A q \in Request : pc[q] = "insertInvite" =>
       invite[ticket[q]] = "none" /\ \A p \in Request \ {q} : ticket[p] # ticket[q]

LEMMA InitInvite == Init => InviteInv
BY DEF Init, InviteInv

LEMMA InviteArrive ==
  ASSUME Typed, InviteInv, NEW q \in Request, Arrive(q)
  PROVE  InviteInv'
<1>f. /\ Frame(q) /\ UNCHANGED <<tableVars, claim, joined>>
      /\ pc'[q] # "insert"
  BY ArriveFrame
<1>1. ticket'[q] # ticket[q] => \A r \in Request \ {q} : pc[r] = "insertInvite" => ticket'[q] # ticket[r]
  BY DEF Arrive, BeginInvite, BeginAccept, BeginChange, BeginRemove, BeginTransfer, BeginLeave,
    BeginDelete, Begin, InviteInv, Typed, TypeOK, RequestTypeOK
<1>2. pc'[q] = "insertInvite" =>
        invite[ticket'[q]] = "none" /\ \A r \in Request : ticket[r] # ticket'[q]
  BY DEF Arrive, BeginInvite, BeginAccept, BeginChange, BeginRemove, BeginTransfer, BeginLeave,
    BeginDelete, Begin, Typed, TypeOK, RequestTypeOK
<1> QED
  BY <1>f, <1>1, <1>2 DEF InviteInv, Frame, tableVars

\* The end of a request that leaves the invites of the others as they are.
LEMMA InviteEnd ==
  ASSUME Typed, InviteInv, NEW q \in Request, End(q),
         \A i \in Invite : joined'[i] <= 1 /\ (joined'[i] # 0 => invite'[i] \in {"used", "erased"}),
         \A r \in Request \ {q} :
           pc[r] \in {"insert", "insertInvite"} => invite'[ticket[r]] = invite[ticket[r]]
  PROVE  InviteInv'
<1>t. ticket \in [Request -> Invite \cup {NoInvite}] /\ claim \in [Invite -> Request \cup {NoRequest}]
  BY DEF Typed, TypeOK, RequestTypeOK, LockTypeOK
<1>f. /\ \A r \in Request \ {q} : pc'[r] = pc[r] /\ ticket'[r] = ticket[r]
      /\ pc'[q] = "idle"
  BY EndFrame
<1>n. ticket'[q] = NoInvite
  BY <1>t DEF End
<1>r. \A r \in Request : pc[r] \in {"insert", "insertInvite"} => ticket[r] \in Invite
  BY DEF Typed, ParamInv
<1>1. ASSUME NEW r \in Request, pc'[r] = "insert"
      PROVE  claim'[ticket'[r]] = r /\ invite'[ticket'[r]] = "open"
  <2>1. r # q /\ pc[r] = "insert" /\ ticket'[r] = ticket[r] /\ ticket[r] \in Invite
    BY <1>1, <1>f, <1>r
  <2>2. claim'[ticket[r]] = r
    BY <2>1, <1>t DEF InviteInv, End
  <2> QED
    BY <2>1, <2>2 DEF InviteInv
<1>2. ASSUME NEW r \in Request, pc'[r] = "insertInvite"
      PROVE  invite'[ticket'[r]] = "none" /\ \A p \in Request \ {r} : ticket'[p] # ticket'[r]
  <2>1. r # q /\ pc[r] = "insertInvite" /\ ticket'[r] = ticket[r] /\ ticket[r] \in Invite
    BY <1>2, <1>f, <1>r
  <2> QED
    BY <2>1, <1>f, <1>n, MembershipAssumption DEF InviteInv
<1> QED
  BY <1>1, <1>2 DEF InviteInv

LEMMA InviteReject ==
  ASSUME Typed, InviteInv, NEW q \in Request, Reject(q)
  PROVE  InviteInv'
BY InviteEnd DEF Reject, InviteInv, tableVars, historyVars

LEMMA InviteStatement ==
  ASSUME Typed, InviteInv, NEW q \in Request, Statement(q)
  PROVE  InviteInv'
<1>t. /\ ticket \in [Request -> Invite \cup {NoInvite}]
      /\ claim \in [Invite -> Request \cup {NoRequest}]
      /\ invite \in [Invite -> {"none", "open", "used", "erased"}]
      /\ joined \in [Invite -> Nat]
      /\ pc \in [Request -> Labels]
  BY DEF Typed, TypeOK, RequestTypeOK, LockTypeOK, TableTypeOK, HistoryTypeOK
<1>p. \A r \in Request : pc[r] \in {"insert", "insertInvite", "claim"} => ticket[r] \in Invite
  BY DEF Typed, ParamInv
<1>0. CASE Reject(q)
  BY <1>0, InviteReject
<1>1. CASE CreateInvite(q)
  <2>1. /\ pc[q] = "insertInvite" /\ End(q)
        /\ invite' = [invite EXCEPT ![ticket[q]] = IF exists THEN "open" ELSE @]
        /\ joined' = joined
    BY <1>1 DEF CreateInvite, historyVars
  <2>2. ticket[q] \in Invite /\ invite[ticket[q]] = "none"
    BY <2>1, <1>p DEF InviteInv
  <2> QED
    BY <2>1, <2>2, <1>t, <1>p, InviteEnd DEF InviteInv
<1>2. CASE CreateMember(q) /\ ~Reject(q)
  <2>1. /\ pc[q] = "insert" /\ End(q)
        /\ invite' = [invite EXCEPT ![ticket[q]] = "used"]
        /\ joined' = [joined EXCEPT ![ticket[q]] = @ + 1]
    BY <1>2 DEF CreateMember, Join
  <2>2. ticket[q] \in Invite /\ invite[ticket[q]] = "open" /\ claim[ticket[q]] = q
    BY <2>1, <1>p DEF InviteInv
  <2>3. joined[ticket[q]] = 0
    BY <2>2, <1>t DEF InviteInv
  <2>4. \A r \in Request \ {q} : pc[r] \in {"insert", "insertInvite"} => ticket[r] # ticket[q]
    BY <2>2 DEF InviteInv
  <2>5. \A i \in Invite : joined'[i] <= 1 /\ (joined'[i] # 0 => invite'[i] \in {"used", "erased"})
    BY <2>1, <2>2, <2>3, <1>t DEF InviteInv
  <2>6. \A r \in Request \ {q} :
          pc[r] \in {"insert", "insertInvite"} => invite'[ticket[r]] = invite[ticket[r]]
    BY <2>1, <2>4, <1>t, <1>p
  <2> QED
    BY <2>1, <2>5, <2>6, InviteEnd
<1>3. CASE Erase(q)
  <2>1. /\ \A i \in Invite : claim[i] = NoRequest
        /\ invite' = [i \in Invite |-> IF invite[i] = "none" THEN "none" ELSE "erased"]
        /\ End(q) /\ joined' = joined
    BY <1>3 DEF Erase, historyVars
  <2>2. \A r \in Request : pc[r] # "insert"
    BY <2>1, <1>p, MembershipAssumption DEF InviteInv
  <2>3. \A r \in Request : pc[r] = "insertInvite" => invite'[ticket[r]] = invite[ticket[r]]
    BY <2>1, <1>p DEF InviteInv
  <2> QED
    BY <2>1, <2>2, <2>3, <1>t, InviteEnd DEF InviteInv
<1>4. CASE ChangeRole(q) \/ RemoveMember(q) \/ Leave(q) \/ Promote(q)
  <2>1. End(q) /\ invite' = invite /\ joined' = joined
    BY <1>4 DEF ChangeRole, RemoveMember, Leave, Promote, Reject, RemoveRow, tableVars, historyVars
  <2> QED
    BY <2>1, InviteEnd DEF InviteInv
<1>5. CASE ClaimInvite(q) /\ ~Reject(q)
  <2>1. /\ pc[q] = "claim" /\ pc' = [pc EXCEPT ![q] = "insert"]
        /\ claim[ticket[q]] = NoRequest /\ invite[ticket[q]] = "open"
        /\ claim' = [claim EXCEPT ![ticket[q]] = q]
        /\ UNCHANGED <<invite, joined, ticket>>
    BY <1>5 DEF ClaimInvite, Go, tableVars, paramVars, historyVars
  <2>2. ticket[q] \in Invite
    BY <2>1, <1>p
  <2> QED
    BY <2>1, <2>2, <1>t, <1>p, MembershipAssumption DEF InviteInv
<1>6. CASE /\ ReadInvite(q) \/ ReadTarget(q) \/ ReadSelf(q) \/ LockWorkspace(q) \/ VerifyActor(q)
              \/ FindTarget(q) \/ ReadOwner(q) \/ VerifyOwner(q)
           /\ ~Reject(q)
  <2>1. /\ UNCHANGED <<invite, claim, joined, ticket>>
        /\ \E to \in Labels \ {"insert", "insertInvite"} : pc' = [pc EXCEPT ![q] = to]
    BY <1>6 DEF ReadInvite, ReadTarget, ReadSelf, LockWorkspace, VerifyActor, FindTarget, ReadOwner,
      VerifyOwner, Go, Labels, tableVars, lockVars, paramVars, historyVars
  <2> QED
    BY <2>1, <1>t DEF InviteInv
<1> QED
  BY <1>0, <1>1, <1>2, <1>3, <1>4, <1>5, <1>6 DEF Statement

\* However many accounts redeem a code at once, also while the workspace is
\* being deleted, the conditional update of acceptInvite admits one of them.
THEOREM InviteAdmitsOne == Spec => []InviteJoinsOnce
<1>1. InviteInv => InviteJoinsOnce
  BY DEF InviteInv, InviteJoinsOnce
<1>2. Typed /\ InviteInv /\ [Next]_vars => InviteInv'
  <2> SUFFICES ASSUME Typed, InviteInv, [Next]_vars PROVE InviteInv'
    OBVIOUS
  <2>1. CASE Next
    BY <2>1, StepOfNext, InviteArrive, InviteStatement, InviteReject DEF Step
  <2>2. CASE UNCHANGED vars
    BY <2>2 DEF InviteInv, vars, tableVars, lockVars, paramVars, historyVars
  <2> QED
    BY <2>1, <2>2
<1> QED
  BY <1>1, <1>2, InitInvite, InitTyped, NextTyped, PTL DEF Spec
============================================================================
