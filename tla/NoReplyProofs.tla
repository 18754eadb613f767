--------------------------- MODULE NoReplyProofs ---------------------------
(***************************************************************************)
(* Proofs about NoReply: its variables keep their types, and a timer that  *)
(* was cancelled or replaced before fire() read it never acts, for any     *)
(* number of rules, callers, workers, faults and stalls.                   *)
(***************************************************************************)
EXTENDS NoReply, TLAPS

LEMMA SlotFacts == Timer \subseteq Slot /\ 0 \in Slot /\ 0 \notin Timer /\ Timer \subseteq Nat
BY NoReplyAssumption DEF Timer, Slot

\* queue.remove keeps the job table well typed.
LEMMA RemoveJobTyped ==
  ASSUME QueueTypeOK, NEW r \in Rule, RemoveJob(r)
  PROVE  QueueTypeOK'
BY SlotFacts DEF QueueTypeOK, RemoveJob, queueVars

\* The loop of a call keeps the caller's locals well typed.
LEMMA NextRuleTyped ==
  ASSUME CallerTypeOK, NEW c \in Caller, at[c] \in Rule, NEW more \in {"upsert", "unqueue"},
         NextRule(c, more), alone' = alone
  PROVE  CallerTypeOK'
BY SlotFacts DEF CallerTypeOK, NextRule

LEMMA ForsakeTyped ==
  ASSUME CallerTypeOK, NEW c \in Caller, Forsake(c), alone' = alone
  PROVE  CallerTypeOK'
BY SlotFacts DEF CallerTypeOK, Forsake

LEMMA RetireTyped ==
  ASSUME RowTypeOK, dead \subseteq Timer, NEW r \in Rule, Retire(r)
  PROVE  dead' \subseteq Timer
BY DEF RowTypeOK, Retire

LEMMA CallTyped ==
  ASSUME TypeOK, NEW c \in Caller, Call(c)
  PROVE  TypeOK'
<1> USE DEF TypeOK
<1>1. CASE Schedule(c)
  <2>1. CallerTypeOK'
    BY <1>1 DEF Schedule, Begins, CallerTypeOK
  <2> QED
    BY <1>1, <2>1 DEF Schedule, RowTypeOK, QueueTypeOK, WorkerTypeOK, HistoryTypeOK,
      rowVars, queueVars, workerVars, effectVars
<1>2. ASSUME NEW r \in Rule, UpsertTimer(c, r) PROVE TypeOK'
  <2>1. RowTypeOK'
    BY <1>2, SlotFacts DEF UpsertTimer, RowTypeOK
  <2>2. CallerTypeOK'
    BY <1>2, SlotFacts DEF UpsertTimer, CallerTypeOK
  <2>3. HistoryTypeOK'
    BY <1>2, RetireTyped DEF UpsertTimer, HistoryTypeOK, effectVars
  <2> QED
    BY <1>2, <2>1, <2>2, <2>3 DEF UpsertTimer, QueueTypeOK, WorkerTypeOK, queueVars, workerVars
<1>3. CASE ReplaceJob(c)
  <2>1. QueueTypeOK'
    BY <1>3, RemoveJobTyped DEF ReplaceJob, CallerTypeOK
  <2>2. CallerTypeOK'
    BY <1>3 DEF ReplaceJob, CallerTypeOK
  <2> QED
    BY <1>3, <2>1, <2>2 DEF ReplaceJob, RowTypeOK, WorkerTypeOK, HistoryTypeOK,
      rowVars, workerVars, effectVars
<1>4. CASE AddJob(c)
  <2>1. at[c] \in Rule /\ snap[c][at[c]] \in Timer
    BY <1>4 DEF AddJob, CallerTypeOK
  <2>2. QueueTypeOK'
    BY <1>4, <2>1, SlotFacts DEF AddJob, QueueTypeOK
  <2>3. CallerTypeOK'
    BY <1>4, <2>1, NextRuleTyped DEF AddJob
  <2> QED
    BY <1>4, <2>2, <2>3 DEF AddJob, RowTypeOK, WorkerTypeOK, HistoryTypeOK,
      rowVars, workerVars, effectVars
<1>5. CASE Cancel(c)
  <2>1. CallerTypeOK'
    BY <1>5, SlotFacts DEF Cancel, Begins, CallerTypeOK, RowTypeOK
  <2> QED
    BY <1>5, <2>1 DEF Cancel, RowTypeOK, QueueTypeOK, WorkerTypeOK, HistoryTypeOK,
      rowVars, queueVars, workerVars, effectVars
<1>6. ASSUME NEW r \in Rule, UnqueueJob(c, r) PROVE TypeOK'
  <2>1. QueueTypeOK'
    BY <1>6, RemoveJobTyped DEF UnqueueJob
  <2>2. CallerTypeOK'
    BY <1>6 DEF UnqueueJob, CallerTypeOK
  <2> QED
    BY <1>6, <2>1, <2>2 DEF UnqueueJob, RowTypeOK, WorkerTypeOK, HistoryTypeOK,
      rowVars, workerVars, effectVars
<1>7. CASE MarkCancelled(c)
  <2>1. at[c] \in Rule
    BY <1>7 DEF MarkCancelled, CallerTypeOK
  <2>2. CallerTypeOK'
    BY <1>7, <2>1, NextRuleTyped, ForsakeTyped DEF MarkCancelled
  <2>3. RowTypeOK'
    BY <1>7, <2>1 DEF MarkCancelled, RowTypeOK
  <2>4. HistoryTypeOK'
    BY <1>7, <2>1, RetireTyped DEF MarkCancelled, HistoryTypeOK, effectVars
  <2> QED
    BY <1>7, <2>2, <2>3, <2>4 DEF MarkCancelled, QueueTypeOK, WorkerTypeOK, queueVars, workerVars
<1>8. CASE CallFails(c)
  <2>1. CallerTypeOK'
    BY <1>8, ForsakeTyped DEF CallFails
  <2> QED
    BY <1>8, <2>1 DEF CallFails, Fault, RowTypeOK, QueueTypeOK, WorkerTypeOK, HistoryTypeOK,
      rowVars, queueVars, workerVars, effectVars
<1> QED
  BY <1>1, <1>2, <1>3, <1>4, <1>5, <1>6, <1>7, <1>8 DEF Call

LEMMA FireTyped ==
  ASSUME TypeOK, NEW w \in Worker, Fire(w)
  PROVE  TypeOK'
<1> USE DEF TypeOK
<1>r. UNCHANGED rowVars => RowTypeOK'
  BY DEF rowVars, RowTypeOK
<1>q. UNCHANGED queueVars => QueueTypeOK'
  BY DEF queueVars, QueueTypeOK
<1>c. UNCHANGED callerVars => CallerTypeOK'
  BY DEF callerVars, CallerTypeOK
<1>h. UNCHANGED <<effectVars, lapsed, dead>> /\ faults' \in Nat => HistoryTypeOK'
  BY DEF effectVars, HistoryTypeOK
<1>f. faults \in Nat /\ (Fault => faults' \in Nat)
  BY DEF Fault, HistoryTypeOK
<1>1. ASSUME NEW r \in Rule, Take(w, r) PROVE TypeOK'
  <2>1. QueueTypeOK'
    BY <1>1 DEF Take, QueueTypeOK
  <2>2. CallerTypeOK'
    BY <1>1 DEF Take, CallerTypeOK
  <2>3. WorkerTypeOK'
    BY <1>1 DEF Take, WorkerTypeOK, QueueTypeOK
  <2> QED
    BY <1>1, <1>f, <2>1, <2>2, <2>3, <1>r, <1>h DEF Take
<1>2. CASE ReadTimer(w)
  <2>1. WorkerTypeOK'
    BY <1>2 DEF ReadTimer, WorkerTypeOK
  <2> QED
    BY <1>2, <1>f, <2>1, <1>r, <1>q, <1>c, <1>h DEF ReadTimer
<1>3. CASE CompleteTimer(w)
  <2>1. WorkerTypeOK'
    BY <1>3 DEF CompleteTimer, WorkerTypeOK
  <2>2. RowTypeOK'
    BY <1>3 DEF CompleteTimer, RowTypeOK, WorkerTypeOK
  <2> QED
    BY <1>3, <1>f, <2>1, <2>2, <1>q, <1>c, <1>h DEF CompleteTimer
<1>4. CASE ExecuteRule(w)
  <2>1. WorkerTypeOK'
    BY <1>4 DEF ExecuteRule, WorkerTypeOK
  <2>2. HistoryTypeOK'
    BY <1>4 DEF ExecuteRule, HistoryTypeOK, WorkerTypeOK
  <2> QED
    BY <1>4, <2>1, <2>2, <1>r, <1>q, <1>c DEF ExecuteRule
<1>5. CASE LogExecution(w)
  <2>1. WorkerTypeOK'
    BY <1>5 DEF LogExecution, WorkerTypeOK
  <2>2. HistoryTypeOK'
    BY <1>5, <1>f DEF LogExecution, HistoryTypeOK, WorkerTypeOK
  <2> QED
    BY <1>5, <2>1, <2>2, <1>r, <1>q, <1>c DEF LogExecution
<1>6. ASSUME wpc[w] # "idle", Finish(w), faults' \in Nat PROVE TypeOK'
  <2>1. QueueTypeOK'
    BY <1>6, NoReplyAssumption DEF Finish, QueueTypeOK, WorkerTypeOK
  <2>2. WorkerTypeOK'
    BY <1>6, SlotFacts DEF Finish, FreeWorker, WorkerTypeOK
  <2> QED
    BY <1>6, <2>1, <2>2, <1>r, <1>c, <1>h DEF Finish
<1>7. CASE Crash(w)
  <2>1. WorkerTypeOK'
    BY <1>7, SlotFacts DEF Crash, FreeWorker, WorkerTypeOK
  <2> QED
    BY <1>7, <1>f, <2>1, <1>r, <1>q, <1>c, <1>h DEF Crash
<1> QED
  BY <1>1, <1>2, <1>3, <1>4, <1>5, <1>6, <1>7, <1>f DEF Fire, EndJob, FireFails

LEMMA QueueStepTyped ==
  ASSUME TypeOK, NEW r \in Rule, LockExpires(r) \/ Stall(r) \/ Evict(r)
  PROVE  TypeOK'
<1> USE DEF TypeOK
<1>1. RowTypeOK' /\ CallerTypeOK' /\ WorkerTypeOK'
  BY DEF LockExpires, Stall, Evict, RowTypeOK, CallerTypeOK, WorkerTypeOK,
    rowVars, callerVars, workerVars
<1>2. QueueTypeOK'
  BY RemoveJobTyped DEF LockExpires, Stall, Evict, QueueTypeOK
<1>3. HistoryTypeOK'
  BY DEF LockExpires, Locked, Stall, Evict, Fault, HistoryTypeOK, QueueTypeOK, effectVars
<1> QED
  BY <1>1, <1>2, <1>3

\* Every variable of the scheduler keeps its type, whatever calls, firings,
\* faults and evictions interleave.
THEOREM NoReplyTyped == Spec => []TypeOK
<1>1. Init => TypeOK
  BY SlotFacts DEF Init, TypeOK, RowTypeOK, QueueTypeOK, CallerTypeOK, WorkerTypeOK, HistoryTypeOK
<1>2. TypeOK /\ [Next]_vars => TypeOK'
  <2>1. TypeOK /\ UNCHANGED vars => TypeOK'
    BY DEF TypeOK, RowTypeOK, QueueTypeOK, CallerTypeOK, WorkerTypeOK, HistoryTypeOK, vars,
      rowVars, queueVars, callerVars, workerVars, effectVars
  <2> QED
    BY <2>1, CallTyped, FireTyped, QueueStepTyped DEF Next
<1> QED
  BY <1>1, <1>2, PTL DEF Spec

\* Retiring a row's timer, together with the new row it gets, keeps the
\* invariant: no other row has its id and no worker is past reading it.
LEMMA RetireKeeps ==
  ASSUME TypeOK, RetiredInv, NEW r \in Rule, Retire(r),
         UNCHANGED <<fired, wid, wpc>>,
         \/ /\ rowId' = rowId /\ nextId' = nextId
            /\ rowStatus' = [rowStatus EXCEPT ![r] = "cancelled"]
         \/ /\ rowId' = [rowId EXCEPT ![r] = nextId] /\ nextId' = nextId + 1
            /\ rowStatus' = [rowStatus EXCEPT ![r] = "pending"]
  PROVE  RetiredInv'
<1> USE DEF TypeOK, RowTypeOK, WorkerTypeOK, HistoryTypeOK, RetiredInv
<1> DEFINE old == rowId[r]
<1>0. Slot \subseteq Nat /\ Timer \subseteq Nat
  BY NoReplyAssumption DEF Slot, Timer
<1>n. nextId \in Nat \ {0} /\ \A s \in Rule : rowId[s] \in Nat /\ rowId[s] < nextId
  BY <1>0
<1>1. /\ \A s \in Rule : rowId'[s] < nextId'
      /\ \A s, q \in Rule : rowId'[s] = rowId'[q] /\ rowId'[s] # 0 => s = q
  <2>1. CASE rowId' = rowId /\ nextId' = nextId
    BY <2>1
  <2>2. CASE rowId' = [rowId EXCEPT ![r] = nextId] /\ nextId' = nextId + 1
    <3>1. \A s \in Rule : rowId'[s] = IF s = r THEN nextId ELSE rowId[s]
      BY <2>2
    <3> QED
      BY <1>n, <2>2, <3>1
  <2> QED
    BY <2>1, <2>2
<1>2. \A t \in dead' \ dead : /\ t = old /\ t # 0 /\ fired[t] = 0
                              /\ \A w \in Worker : wid[w] = t => wpc[w] \notin {"complete", "execute"}
  BY <1>0 DEF Retire, Timer
<1>3. ASSUME NEW t \in dead'
      PROVE  /\ t < nextId'
             /\ fired'[t] = 0
             /\ \A s \in Rule : rowId'[s] = t => rowStatus'[s] # "pending"
             /\ \A w \in Worker : wid'[w] = t => wpc'[w] \notin {"complete", "execute"}
  <2>1. t \in Nat /\ t < nextId /\ fired[t] = 0
        /\ \A w \in Worker : wid[w] = t => wpc[w] \notin {"complete", "execute"}
    <3>1. CASE t \in dead
      BY <1>0, <3>1
    <3>2. CASE t \notin dead
      BY <1>n, <1>2, <3>2
    <3> QED
      BY <3>1, <3>2
  <2>2. \A s \in Rule \ {r} : rowId[s] = t => rowStatus[s] # "pending"
    BY <1>2
  <2>3. rowId'[r] = t => rowStatus'[r] # "pending"
    BY <2>1
  <2> QED
    BY <1>0, <2>1, <2>2, <2>3
<1> QED
  BY <1>1, <1>3

\* A step that leaves the rows and the history alone, and moves no worker on
\* from reading a timer that is not a pending row's.
LEMMA QuietKeeps ==
  ASSUME RetiredInv, UNCHANGED <<rowId, rowStatus, nextId, dead, fired>>,
         \A w \in Worker : wpc'[w] \in {"complete", "execute"} =>
            /\ wid'[w] = wid[w]
            /\ \/ wpc[w] \in {"complete", "execute"}
               \/ \E r \in Rule : rowId[r] = wid[w] /\ rowStatus[r] = "pending"
  PROVE  RetiredInv'
BY DEF RetiredInv

LEMMA StepRetired == TypeOK /\ RetiredInv /\ [Next]_vars => RetiredInv'
<1> SUFFICES ASSUME TypeOK, RetiredInv, [Next]_vars PROVE RetiredInv'
  OBVIOUS
<1>q. UNCHANGED <<rowVars, wpc, wid, fired, dead>> => RetiredInv'
  BY DEF RetiredInv, rowVars
<1>1. ASSUME NEW c \in Caller, Call(c) PROVE RetiredInv'
  <2>1. ASSUME NEW r \in Rule, UpsertTimer(c, r) PROVE RetiredInv'
    BY <2>1, RetireKeeps DEF UpsertTimer, workerVars, effectVars
  <2>2. CASE MarkCancelled(c)
    <3>1. CASE rowId[at[c]] = snap[c][at[c]]
      <4>1. at[c] \in Rule
        BY <2>2 DEF MarkCancelled, TypeOK, CallerTypeOK
      <4> QED
        BY <2>2, <3>1, <4>1, RetireKeeps DEF MarkCancelled, workerVars, effectVars
    <3>2. CASE rowId[at[c]] # snap[c][at[c]]
      BY <2>2, <3>2, <1>q DEF MarkCancelled, workerVars, effectVars, rowVars
    <3> QED
      BY <3>1, <3>2
  <2> QED
    BY <1>1, <2>1, <2>2, <1>q
    DEF Call, Schedule, ReplaceJob, AddJob, Cancel, CallFails, UnqueueJob, workerVars, effectVars
<1>2. ASSUME NEW w \in Worker, Fire(w) PROVE RetiredInv'
  <2> USE DEF TypeOK, WorkerTypeOK
  <2>1. ASSUME NEW r \in Rule, Take(w, r) PROVE RetiredInv'
    BY <2>1, QuietKeeps DEF Take, rowVars, effectVars
  <2>2. CASE ReadTimer(w)
    BY <2>2, QuietKeeps DEF ReadTimer, IsRow, rowVars, effectVars
  <2>3. CASE CompleteTimer(w)
    BY <2>3 DEF CompleteTimer, IsRow, RetiredInv, RowTypeOK, effectVars
  <2>4. CASE ExecuteRule(w)
    BY <2>4 DEF ExecuteRule, RetiredInv, rowVars, HistoryTypeOK
  <2>5. CASE LogExecution(w)
    BY <2>5, QuietKeeps DEF LogExecution, rowVars
  <2>6. CASE EndJob(w) \/ FireFails(w)
    BY <2>6, QuietKeeps DEF EndJob, FireFails, Finish, FreeWorker, rowVars, effectVars
  <2>7. CASE Crash(w)
    BY <2>7, QuietKeeps DEF Crash, FreeWorker, rowVars, effectVars
  <2> QED
    BY <1>2, <2>1, <2>2, <2>3, <2>4, <2>5, <2>6, <2>7 DEF Fire
<1>3. ASSUME NEW r \in Rule, LockExpires(r) \/ Stall(r) \/ Evict(r) PROVE RetiredInv'
  BY <1>3, <1>q DEF LockExpires, Stall, Evict, workerVars, effectVars
<1>4. CASE UNCHANGED vars
  BY <1>4, <1>q DEF vars, workerVars, effectVars
<1> QED
  BY <1>1, <1>2, <1>3, <1>4 DEF Next

\* A timer cancelled or replaced before fire() read its row never acts.
THEOREM RetiredTimersStayQuiet == Spec => []RetiredNeverFires
<1>1. Init => RetiredInv
  BY DEF Init, RetiredInv
<1>2. RetiredInv => RetiredNeverFires
  BY DEF RetiredInv, RetiredNeverFires
<1> QED
  BY <1>1, <1>2, NoReplyTyped, StepRetired, PTL DEF Spec

----------------------------------------------------------------------------
\* Why a timer fires once.

\* Timer id t stands somewhere for rule r: in its row, in its job, in the job a
\* worker has in hand, or in what a caller wrote or read.
Uses(r, t) ==
  \/ rowId[r] = t
  \/ jobId[r] = t
  \/ \E w \in Worker : wrule[w] = r /\ wid[w] = t
  \/ \E c \in Caller : snap[c][r] = t

\* No two rules share a timer id, and none is ahead of the source of ids.
OwnInv ==
  \A r \in Rule, t \in Timer : Uses(r, t) => /\ t < nextId
                                             /\ \A s \in Rule : Uses(s, t) => s = r

\* A worker whose lock has not lapsed under it has the lock of its job.
LockInv ==
  \A w \in Worker : wpc[w] # "idle" /\ wid[w] \notin lapsed =>
                      holder[wrule[w]] = w /\ jobId[wrule[w]] = wid[w]

\* A timer has fired only once its row is no longer pending, so that nobody who
\* reads the row from then on goes further.
Once(t) ==
  /\ fired[t] <= 1
  /\ fired[t] > 0 => t < nextId /\ \A r \in Rule : rowId[r] = t => rowStatus[r] # "pending"
  /\ \A w \in Worker :
       wid[w] = t =>
         /\ wpc[w] = "execute" => \A r \in Rule : rowId[r] = t => rowStatus[r] # "pending"
         /\ wpc[w] \in {"complete", "execute"} => fired[t] = 0

OnceInv == \A t \in Timer \ lapsed : Once(t)

LEMMA NoNewIds ==
  ASSUME OwnInv, nextId' = nextId,
         \A r \in Rule, t \in Timer :
           \/ rowId'[r] = t
           \/ jobId'[r] = t
           \/ \E w \in Worker : wrule'[w] = r /\ wid'[w] = t
           \/ \E c \in Caller : snap'[c][r] = t
           => Uses(r, t)
  PROVE  OwnInv'
BY DEF OwnInv, Uses

LEMMA StepOwn == TypeOK /\ OwnInv /\ [Next]_vars => OwnInv'
<1> SUFFICES ASSUME TypeOK, OwnInv, [Next]_vars PROVE OwnInv'
  OBVIOUS
<1> USE DEF rowVars, queueVars, callerVars, workerVars, effectVars
<1>0. Slot \subseteq Nat /\ Timer \subseteq Nat /\ 0 \notin Timer
  BY NoReplyAssumption DEF Slot, Timer
<1>q. UNCHANGED <<rowId, jobId, wrule, wid, snap, nextId>> => OwnInv'
  BY NoNewIds DEF Uses
<1>r. ASSUME NEW q \in Rule, RemoveJob(q), UNCHANGED <<rowId, wrule, wid, snap, nextId>>
      PROVE  OwnInv'
  <2>1. \A r \in Rule : jobId'[r] = jobId[r] \/ jobId'[r] = 0
    BY <1>r DEF RemoveJob, TypeOK, QueueTypeOK
  <2> QED
    BY <1>0, <1>r, <2>1, NoNewIds DEF Uses
<1>s. ASSUME NEW c \in Caller, UNCHANGED <<rowId, wrule, wid, nextId>>,
             \A r \in Rule : jobId'[r] = jobId[r] \/ jobId'[r] = snap[c][r],
             \A d \in Caller, r \in Rule :
               snap'[d][r] = snap[d][r] \/ snap'[d][r] \in {0, rowId[r]}
      PROVE  OwnInv'
  BY <1>0, <1>s, NoNewIds DEF Uses
<1>1. ASSUME NEW c \in Caller, Call(c) PROVE OwnInv'
  <2> USE DEF TypeOK, CallerTypeOK, QueueTypeOK
  <2>1. ASSUME NEW q \in Rule, UpsertTimer(c, q) PROVE OwnInv'
    <3>1. /\ rowId' = [rowId EXCEPT ![q] = nextId] /\ nextId' = nextId + 1
          /\ UNCHANGED <<jobId, wrule, wid>>
          /\ snap' = [snap EXCEPT ![c] = [snap[c] EXCEPT ![q] = nextId]]
          /\ nextId \in Timer /\ nextId \in Nat
      BY <1>0, <2>1 DEF UpsertTimer
    <3>2. /\ \A r \in Rule : rowId'[r] = rowId[r] \/ (r = q /\ rowId'[r] = nextId)
          /\ \A d \in Caller, r \in Rule :
               snap'[d][r] = snap[d][r] \/ (r = q /\ snap'[d][r] = nextId)
      BY <3>1 DEF RowTypeOK
    <3>3. ASSUME NEW r \in Rule, NEW t \in Timer, Uses(r, t)'
          PROVE  Uses(r, t) \/ (r = q /\ t = nextId)
      BY <3>1, <3>2, <3>3 DEF Uses
    <3>4. ASSUME NEW r \in Rule, NEW t \in Timer, Uses(r, t)' PROVE t < nextId'
      BY <1>0, <3>1, <3>3, <3>4 DEF OwnInv
    <3>5. ASSUME NEW r \in Rule, NEW t \in Timer, Uses(r, t)', NEW s \in Rule, Uses(s, t)'
          PROVE  s = r
      <4>1. Uses(r, t) \/ (r = q /\ t = nextId)
        BY <3>3, <3>5
      <4>2. Uses(s, t) \/ (s = q /\ t = nextId)
        BY <3>3, <3>5
      <4> QED
        BY <1>0, <3>1, <4>1, <4>2 DEF OwnInv
    <3> QED
      BY <3>4, <3>5 DEF OwnInv
  <2>2. CASE AddJob(c)
    BY <2>2, <1>s DEF AddJob, NextRule
  <2>3. CASE Cancel(c)
    BY <2>3, <1>s DEF Cancel
  <2>4. CASE MarkCancelled(c) \/ CallFails(c)
    <3>1. UNCHANGED <<rowId, jobId, wrule, wid, nextId>>
      BY <2>4 DEF MarkCancelled, CallFails
    <3>2. \A d \in Caller, r \in Rule : snap'[d][r] = snap[d][r] \/ snap'[d][r] = 0
      <4>1. NextRule(c, "unqueue") \/ Forsake(c)
        BY <2>4 DEF MarkCancelled, CallFails
      <4>2. CASE NextRule(c, "unqueue")
        BY <4>2 DEF NextRule
      <4>3. CASE Forsake(c)
        BY <4>3 DEF Forsake
      <4> QED
        BY <4>1, <4>2, <4>3
    <3> QED
      BY <1>s, <3>1, <3>2
  <2>5. CASE Schedule(c)
    BY <2>5, <1>q DEF Schedule
  <2>6. CASE ReplaceJob(c)
    BY <2>6, <1>r DEF ReplaceJob
  <2>7. ASSUME NEW r \in Rule, UnqueueJob(c, r) PROVE OwnInv'
    BY <2>7, <1>r DEF UnqueueJob
  <2> QED
    BY <1>1, <2>1, <2>2, <2>3, <2>4, <2>5, <2>6, <2>7 DEF Call
<1>2. ASSUME NEW w \in Worker, Fire(w) PROVE OwnInv'
  <2> USE DEF TypeOK, WorkerTypeOK
  <2>1. ASSUME NEW q \in Rule, Take(w, q) PROVE OwnInv'
    <3>1. /\ UNCHANGED <<rowId, jobId, snap, nextId>>
          /\ \A v \in Worker : \/ wrule'[v] = wrule[v] /\ wid'[v] = wid[v]
                               \/ wrule'[v] = q /\ wid'[v] = jobId[q]
      BY <2>1 DEF Take
    <3> QED
      BY <3>1, NoNewIds DEF Uses
  <2>2. CASE EndJob(w) \/ FireFails(w) \/ Crash(w)
    <3>1. /\ UNCHANGED <<rowId, jobId, snap, nextId>>
          /\ \A v \in Worker : \/ wrule'[v] = wrule[v] /\ wid'[v] = wid[v]
                               \/ wid'[v] = 0
      BY <2>2 DEF EndJob, FireFails, Finish, Crash, FreeWorker
    <3> QED
      BY <1>0, <3>1, NoNewIds DEF Uses
  <2>3. CASE ReadTimer(w) \/ CompleteTimer(w) \/ ExecuteRule(w) \/ LogExecution(w)
    BY <2>3, <1>q DEF ReadTimer, CompleteTimer, ExecuteRule, LogExecution
  <2> QED
    BY <1>2, <2>1, <2>2, <2>3 DEF Fire
<1>3. ASSUME NEW r \in Rule, LockExpires(r) \/ Stall(r) \/ Evict(r) PROVE OwnInv'
  BY <1>3, <1>q, <1>r DEF LockExpires, Stall, Evict
<1>4. CASE UNCHANGED vars
  BY <1>4, <1>q DEF vars
<1> QED
  BY <1>1, <1>2, <1>3, <1>4 DEF Next

\* Only an active job is locked, so no job a worker holds is taken, removed or
\* added under it.
LEMMA StepLock == TypeOK /\ LockInv /\ [Next]_vars => LockInv'
<1> SUFFICES ASSUME TypeOK, LockInv, [Next]_vars PROVE LockInv'
  OBVIOUS
<1> USE NoReplyAssumption
    DEF TypeOK, QueueTypeOK, WorkerTypeOK, LockInv, rowVars, queueVars, callerVars, workerVars,
      effectVars
<1>q. UNCHANGED <<workerVars, holder, jobId, lapsed>> => LockInv'
  OBVIOUS
<1>r. ASSUME NEW q \in Rule, RemoveJob(q), UNCHANGED <<workerVars, lapsed>> PROVE LockInv'
  <2>1. CASE Locked(q)
    BY <1>r, <2>1 DEF RemoveJob
  <2>2. CASE ~Locked(q)
    <3>1. holder[q] = NoWorker
      BY <2>2 DEF Locked
    <3>2. \A r \in Rule : r # q => holder'[r] = holder[r] /\ jobId'[r] = jobId[r]
      BY <1>r, <2>2 DEF RemoveJob
    <3> QED
      BY <1>r, <3>1, <3>2
  <2> QED
    BY <2>1, <2>2
<1>1. ASSUME NEW c \in Caller, Call(c) PROVE LockInv'
  <2>1. CASE AddJob(c)
    <3>1. CASE jobState[at[c]] = "none"
      <4>1. at[c] \in Rule /\ holder[at[c]] = NoWorker
        BY <2>1, <3>1 DEF AddJob, CallerTypeOK
      <4>2. \A r \in Rule : r # at[c] => jobId'[r] = jobId[r]
        BY <2>1, <3>1 DEF AddJob
      <4>3. UNCHANGED <<workerVars, holder, lapsed>>
        BY <2>1 DEF AddJob
      <4> QED
        BY <4>1, <4>2, <4>3
    <3>2. CASE jobState[at[c]] # "none"
      BY <2>1, <3>2 DEF AddJob
    <3> QED
      BY <3>1, <3>2
  <2>2. CASE ReplaceJob(c)
    BY <2>2, <1>r DEF ReplaceJob, CallerTypeOK
  <2>3. ASSUME NEW r \in Rule, UnqueueJob(c, r) PROVE LockInv'
    BY <2>3, <1>r DEF UnqueueJob
  <2>4. CASE Schedule(c) \/ Cancel(c) \/ MarkCancelled(c) \/ CallFails(c)
    BY <2>4, <1>q DEF Schedule, Cancel, MarkCancelled, CallFails
  <2>5. ASSUME NEW r \in Rule, UpsertTimer(c, r) PROVE LockInv'
    BY <2>5, <1>q DEF UpsertTimer
  <2> QED
    BY <1>1, <2>1, <2>2, <2>3, <2>4, <2>5 DEF Call
<1>2. ASSUME NEW w \in Worker, Fire(w) PROVE LockInv'
  <2>1. ASSUME NEW q \in Rule, Take(w, q) PROVE LockInv'
    <3>1. holder[q] = NoWorker
      BY <2>1 DEF Take
    <3>2. /\ \A v \in Worker : v # w => wpc'[v] = wpc[v] /\ wrule'[v] = wrule[v] /\ wid'[v] = wid[v]
          /\ \A r \in Rule : r # q => holder'[r] = holder[r]
          /\ holder'[q] = w /\ wrule'[w] = q /\ wid'[w] = jobId[q]
          /\ UNCHANGED <<jobId, lapsed>>
      BY <2>1 DEF Take
    <3> QED
      BY <3>1, <3>2
  <2>2. CASE EndJob(w) \/ FireFails(w)
    <3>1. /\ \A v \in Worker : v # w => wpc'[v] = wpc[v] /\ wrule'[v] = wrule[v] /\ wid'[v] = wid[v]
          /\ wpc'[w] = "idle"
          /\ UNCHANGED <<jobId, lapsed>>
          /\ \A r \in Rule : holder[r] # w => holder'[r] = holder[r]
      BY <2>2 DEF EndJob, FireFails, Finish, FreeWorker
    <3> QED
      BY <3>1
  <2>3. CASE Crash(w)
    BY <2>3 DEF Crash, FreeWorker
  <2>4. CASE ReadTimer(w) \/ CompleteTimer(w) \/ ExecuteRule(w) \/ LogExecution(w)
    <3>1. /\ UNCHANGED <<wrule, wid, holder, jobId, lapsed>>
          /\ \A v \in Worker : wpc'[v] # "idle" => wpc[v] # "idle"
      BY <2>4 DEF ReadTimer, CompleteTimer, ExecuteRule, LogExecution
    <3> QED
      BY <3>1
  <2> QED
    BY <1>2, <2>1, <2>2, <2>3, <2>4 DEF Fire
<1>3. ASSUME NEW q \in Rule, LockExpires(q) PROVE LockInv'
  <2>1. \A v \in Worker : wpc[v] # "idle" /\ wrule[v] = q /\ wid[v] \notin lapsed =>
                            lapsed' = lapsed \cup {wid[v]}
    BY <1>3 DEF LockExpires
  <2>2. lapsed \subseteq lapsed' /\ UNCHANGED <<wpc, wrule, wid, jobId>>
    BY <1>3 DEF LockExpires
  <2>3. \A r \in Rule : r # q => holder'[r] = holder[r]
    BY <1>3 DEF LockExpires
  <2> QED
    BY <2>1, <2>2, <2>3
<1>4. ASSUME NEW q \in Rule, Stall(q) \/ Evict(q) PROVE LockInv'
  BY <1>4, <1>q, <1>r DEF Stall, Evict
<1>5. CASE UNCHANGED vars
  BY <1>5, <1>q DEF vars
<1> QED
  BY <1>1, <1>2, <1>3, <1>4, <1>5 DEF Next

\* The inductive step: of the workers on a timer that has not lapsed there is
\* one, and its row leaves pending before its rule acts.
LEMMA StepOnce ==
  TypeOK /\ RetiredInv /\ OwnInv /\ LockInv /\ OnceInv /\ [Next]_vars => OnceInv'
<1> SUFFICES ASSUME TypeOK, RetiredInv, OwnInv, LockInv, OnceInv, [Next]_vars,
                    NEW t \in Timer, t \notin lapsed'
             PROVE  Once(t)'
  BY DEF OnceInv
<1> USE DEF rowVars, queueVars, callerVars, workerVars, effectVars
<1>0. Timer \subseteq Nat /\ 0 \notin Timer
  BY NoReplyAssumption DEF Timer
<1>l. lapsed \subseteq lapsed'
  BY DEF Next, Call, Schedule, UpsertTimer, ReplaceJob, AddJob, Cancel, UnqueueJob, MarkCancelled,
    CallFails, Fire, Take, ReadTimer, CompleteTimer, ExecuteRule, LogExecution, EndJob, FireFails,
    Finish, Crash, LockExpires, Stall, Evict, vars
<1>o. Once(t)
  BY <1>l DEF OnceInv
<1>q. ASSUME UNCHANGED <<rowId, nextId, fired>>,
             \A r \in Rule : rowStatus'[r] = "pending" => rowStatus[r] = "pending",
             \A w \in Worker :
               wpc'[w] \in {"complete", "execute"} => wpc'[w] = wpc[w] /\ wid'[w] = wid[w]
      PROVE  Once(t)'
  BY <1>o, <1>q DEF Once
<1>1. ASSUME NEW c \in Caller, Call(c) PROVE Once(t)'
  <2>1. ASSUME NEW q \in Rule, UpsertTimer(c, q) PROVE Once(t)'
    <3>1. /\ UNCHANGED <<fired, wpc, wid, wrule>> /\ nextId' = nextId + 1 /\ nextId \in Nat
          /\ \A r \in Rule : \/ r = q /\ rowId'[r] = nextId
                             \/ rowId'[r] = rowId[r] /\ rowStatus'[r] = rowStatus[r]
      BY <2>1 DEF UpsertTimer, TypeOK, RowTypeOK
    <3>2. \A w \in Worker : wid[w] = t /\ wpc[w] # "idle" => t < nextId
      <4> TAKE w \in Worker
      <4> HAVE wid[w] = t /\ wpc[w] # "idle"
      <4>1. wrule[w] \in Rule
        BY DEF TypeOK, WorkerTypeOK
      <4>2. Uses(wrule[w], t)
        BY DEF Uses
      <4> QED
        BY <4>1, <4>2 DEF OwnInv
    <3> QED
      BY <1>0, <1>o, <3>1, <3>2 DEF Once
  <2>2. CASE Schedule(c) \/ ReplaceJob(c) \/ AddJob(c) \/ Cancel(c) \/ CallFails(c)
             \/ \E r \in Rule : UnqueueJob(c, r)
    BY <2>2, <1>q DEF Schedule, ReplaceJob, AddJob, Cancel, CallFails, UnqueueJob
  <2>3. CASE MarkCancelled(c)
    <3>1. /\ UNCHANGED <<rowId, nextId, fired, wpc, wid>>
          /\ \A r \in Rule : rowStatus'[r] = "pending" => rowStatus[r] = "pending"
      BY <2>3 DEF MarkCancelled, TypeOK, RowTypeOK
    <3> QED
      BY <1>q, <3>1
  <2> QED
    BY <1>1, <2>1, <2>2, <2>3 DEF Call
<1>2. ASSUME NEW w \in Worker, Fire(w) PROVE Once(t)'
  <2> USE DEF TypeOK, WorkerTypeOK
  <2>1. CASE (\E r \in Rule : Take(w, r)) \/ LogExecution(w) \/ EndJob(w) \/ FireFails(w) \/ Crash(w)
    BY <2>1, <1>q DEF Take, LogExecution, EndJob, FireFails, Finish, FreeWorker, Crash
  <2>2. CASE ReadTimer(w)
    <3>1. /\ UNCHANGED <<rowId, rowStatus, nextId, fired, wid>>
          /\ \A v \in Worker : v # w => wpc'[v] = wpc[v]
          /\ \/ wpc'[w] = "end"
             \/ /\ wpc'[w] = "complete"
                /\ rowId[wrule[w]] = wid[w] /\ rowStatus[wrule[w]] = "pending"
                /\ wrule[w] \in Rule
      BY <2>2 DEF ReadTimer, IsRow
    <3>2. fired[t] \in Nat
      BY DEF HistoryTypeOK
    <3> QED
      BY <1>o, <3>1, <3>2 DEF Once
  <2>3. CASE CompleteTimer(w)
    <3>1. CASE IsRow(w)
      <4>1. /\ UNCHANGED <<rowId, nextId, fired, wid>> /\ wrule[w] \in Rule
            /\ rowStatus' = [rowStatus EXCEPT ![wrule[w]] = "completed"]
            /\ \A v \in Worker : v # w => wpc'[v] = wpc[v]
            /\ wpc[w] = "complete" /\ wpc'[w] = "execute"
        BY <2>3, <3>1 DEF CompleteTimer
      <4>2. /\ \A r \in Rule : rowStatus'[r] = "pending" => rowStatus[r] = "pending"
            /\ rowStatus'[wrule[w]] # "pending"
        BY <4>1 DEF RowTypeOK
      <4>3. wid[w] = t => \A r \in Rule : rowId[r] = t => r = wrule[w]
        BY <1>0, <3>1, <4>1 DEF IsRow, RetiredInv
      <4> QED
        BY <1>o, <4>1, <4>2, <4>3 DEF Once
    <3>2. CASE ~IsRow(w)
      BY <1>q, <2>3, <3>2 DEF CompleteTimer
    <3> QED
      BY <3>1, <3>2
  <2>4. CASE ExecuteRule(w)
    <3>1. CASE wid[w] = t
      <4>1. \A v \in Worker : v # w /\ wid[v] = t => wpc[v] = "idle"
        <5> SUFFICES ASSUME NEW v \in Worker, v # w, wid[v] = t, wpc[v] # "idle" PROVE FALSE
          OBVIOUS
        <5>1. wpc[w] # "idle" /\ wrule[w] \in Rule /\ wrule[v] \in Rule
          BY <2>4 DEF ExecuteRule
        <5>2. Uses(wrule[w], t) /\ Uses(wrule[v], t)
          BY <3>1 DEF Uses
        <5>3. wrule[v] = wrule[w]
          BY <5>1, <5>2 DEF OwnInv
        <5>4. holder[wrule[w]] = w /\ holder[wrule[v]] = v
          BY <1>l, <3>1, <5>1 DEF LockInv
        <5> QED
          BY <5>3, <5>4
      <4>2. /\ UNCHANGED <<rowId, rowStatus, nextId, wid>>
            /\ \A v \in Worker : v # w => wpc'[v] = wpc[v]
            /\ wpc[w] = "execute" /\ wpc'[w] \in {"end", "log"}
            /\ fired'[t] \in {fired[t], fired[t] + 1}
        BY <2>4, <3>1 DEF ExecuteRule, HistoryTypeOK
      <4>3. fired[t] = 0 /\ \A r \in Rule : rowId[r] = t => rowStatus[r] # "pending"
        BY <1>o, <3>1, <4>2 DEF Once
      <4>4. t < nextId
        <5>1. Uses(wrule[w], t) /\ wrule[w] \in Rule
          BY <3>1, <4>2 DEF Uses
        <5> QED
          BY <5>1 DEF OwnInv
      <4> QED
        BY <4>1, <4>2, <4>3, <4>4 DEF Once
    <3>2. CASE wid[w] # t
      <4>1. /\ UNCHANGED <<rowId, rowStatus, nextId, wid>>
            /\ \A v \in Worker : v # w => wpc'[v] = wpc[v]
            /\ fired'[t] = fired[t]
        BY <2>4, <3>2 DEF ExecuteRule, HistoryTypeOK
      <4> QED
        BY <1>o, <3>2, <4>1 DEF Once
    <3> QED
      BY <3>1, <3>2
  <2> QED
    BY <1>2, <2>1, <2>2, <2>3, <2>4 DEF Fire
<1>3. ASSUME NEW r \in Rule, LockExpires(r) \/ Stall(r) \/ Evict(r) PROVE Once(t)'
  BY <1>3, <1>q DEF LockExpires, Stall, Evict
<1>4. CASE UNCHANGED vars
  BY <1>4, <1>q DEF vars
<1> QED
  BY <1>1, <1>2, <1>3, <1>4 DEF Next

\* A timer's rule acts at most once, whatever crashes, rejected queries and
\* redeliveries do, unless the lock of its job expired under a live worker.
THEOREM TimersFireOnce == Spec => []FiresOncePerTimer
<1>0. Slot \subseteq Nat /\ Timer \subseteq Nat /\ 0 \notin Timer
  BY NoReplyAssumption DEF Slot, Timer
<1>1. Init => RetiredInv /\ OwnInv /\ LockInv /\ OnceInv
  <2> SUFFICES ASSUME Init PROVE RetiredInv /\ OwnInv /\ LockInv /\ OnceInv
    OBVIOUS
  <2>1. RetiredInv
    BY DEF Init, RetiredInv
  <2>2. \A r \in Rule, t \in Timer : ~Uses(r, t)
    BY <1>0 DEF Init, Uses
  <2>3. OwnInv
    BY <2>2 DEF OwnInv
  <2>4. LockInv /\ OnceInv
    BY DEF Init, LockInv, OnceInv, Once
  <2> QED
    BY <2>1, <2>3, <2>4
<1>2. OnceInv => FiresOncePerTimer
  BY DEF OnceInv, Once, FiresOncePerTimer
<1> QED
  BY <1>1, <1>2, NoReplyTyped, StepRetired, StepOwn, StepLock, StepOnce, PTL DEF Spec

----------------------------------------------------------------------------
\* What a call that runs alone knows.

\* Nothing else is under way, and no job is in a worker's hands.
Unaccompanied(c) ==
  /\ \A d \in Caller : d # c => cpc[d] = "idle"
  /\ \A w \in Worker : wpc[w] = "idle"
  /\ \A r \in Rule : jobState[r] # "active"

\* A schedule call has written the row it is about to give a job, under a name
\* that is free by then; a cancel call has still to visit every pending row, and
\* knows its id.
OnCourse(c) ==
  /\ cpc[c] \in {"remove", "add"} =>
       rowStatus[at[c]] = "pending" /\ rowId[at[c]] = snap[c][at[c]]
  /\ cpc[c] = "add" => jobState[at[c]] = "none"
  /\ cpc[c] \in {"unqueue", "mark"} =>
       /\ \A r \in Rule : rowStatus[r] = "pending" => r \in todo[c]
       /\ \A r \in todo[c] : snap[c][r] = rowId[r]
  /\ cpc[c] = "mark" => at[c] \in todo[c]

LoneInv == \A c \in Caller : alone[c] => Unaccompanied(c) /\ OnCourse(c)

\* What the lone call of c itself does next.
LEMMA LoneCall ==
  ASSUME TypeOK, LoneInv, NEW c \in Caller, Call(c), alone'[c]
  PROVE  Unaccompanied(c)' /\ OnCourse(c)'
<1> USE DEF TypeOK, CallerTypeOK, rowVars, queueVars, callerVars, workerVars, effectVars
<1>1. CASE Schedule(c)
  BY <1>1 DEF Schedule, Begins, Quiet, Unaccompanied, OnCourse
<1>2. CASE Cancel(c)
  <2>1. Unaccompanied(c)'
    BY <1>2 DEF Cancel, Begins, Quiet, Unaccompanied
  <2>2. /\ cpc'[c] = "unqueue" /\ UNCHANGED <<rowStatus, rowId>>
        /\ todo'[c] = {r \in Rule : rowStatus[r] = "pending"}
        /\ \A r \in todo'[c] : snap'[c][r] = rowId[r]
    BY <1>2 DEF Cancel
  <2> QED
    BY <2>1, <2>2 DEF OnCourse
<1>3. CASE ~Schedule(c) /\ ~Cancel(c)
  <2>1. alone' = alone
    BY <1>3 DEF Call, ReplaceJob, AddJob, MarkCancelled, CallFails, UpsertTimer, UnqueueJob
  <2>2. Unaccompanied(c) /\ OnCourse(c)
    BY <2>1 DEF LoneInv
  <2>r. ASSUME NEW r \in Rule, RemoveJob(r)
        PROVE  jobState'[r] = "none" /\ \A q \in Rule : jobState'[q] \in {jobState[q], "none"}
    BY <2>2, <2>r DEF RemoveJob, Locked, Unaccompanied, QueueTypeOK
  <2>3. ASSUME NEW r \in Rule, UpsertTimer(c, r) PROVE Unaccompanied(c)' /\ OnCourse(c)'
    BY <2>2, <2>3 DEF UpsertTimer, Unaccompanied, OnCourse, RowTypeOK
  <2>4. CASE ReplaceJob(c)
    BY <2>2, <2>r, <2>4 DEF ReplaceJob, Unaccompanied, OnCourse
  <2>5. CASE AddJob(c)
    BY <2>2, <2>5 DEF AddJob, NextRule, Unaccompanied, OnCourse, QueueTypeOK
  <2>6. ASSUME NEW r \in Rule, UnqueueJob(c, r) PROVE Unaccompanied(c)' /\ OnCourse(c)'
    BY <2>2, <2>r, <2>6 DEF UnqueueJob, Unaccompanied, OnCourse
  <2>7. CASE MarkCancelled(c)
    <3>1. Unaccompanied(c)'
      BY <2>2, <2>7 DEF MarkCancelled, NextRule, Forsake, Unaccompanied
    <3>2. CASE cpc'[c] = "idle"
      BY <3>1, <3>2 DEF OnCourse
    <3>3. CASE cpc'[c] # "idle"
      <4>1. /\ rowStatus' = [rowStatus EXCEPT ![at[c]] = "cancelled"] /\ rowId' = rowId
            /\ cpc'[c] = "unqueue" /\ todo'[c] = todo[c] \ {at[c]}
            /\ \A r \in Rule : r # at[c] => snap'[c][r] = snap[c][r]
            /\ cpc[c] = "mark"
        BY <2>7, <3>3 DEF MarkCancelled, NextRule, Forsake
      <4>2. \A r \in Rule : rowStatus'[r] = "pending" => rowStatus[r] = "pending" /\ r # at[c]
        BY <4>1 DEF RowTypeOK
      <4> QED
        BY <2>2, <3>1, <4>1, <4>2 DEF OnCourse
    <3> QED
      BY <3>2, <3>3
  <2>8. CASE CallFails(c)
    BY <2>2, <2>8 DEF CallFails, Forsake, Unaccompanied, OnCourse
  <2> QED
    BY <1>3, <2>3, <2>4, <2>5, <2>6, <2>7, <2>8 DEF Call
<1> QED
  BY <1>1, <1>2, <1>3

\* Whatever else begins or runs ends the call's being alone.
LEMMA StepLone == TypeOK /\ LoneInv /\ [Next]_vars => LoneInv'
<1> SUFFICES ASSUME TypeOK, LoneInv, [Next]_vars, NEW c \in Caller, alone'[c]
             PROVE  Unaccompanied(c)' /\ OnCourse(c)'
  BY DEF LoneInv
<1> USE DEF TypeOK, CallerTypeOK, rowVars, queueVars, callerVars, workerVars, effectVars
<1>1. ASSUME NEW d \in Caller, Call(d) PROVE Unaccompanied(c)' /\ OnCourse(c)'
  <2>1. CASE d = c
    BY <1>1, <2>1, LoneCall
  <2>2. CASE d # c
    <3>1. ~Schedule(d) /\ ~Cancel(d)
      BY <2>2 DEF Schedule, Cancel, Begins
    <3>2. alone' = alone /\ cpc[d] # "idle"
      BY <1>1, <3>1 DEF Call, ReplaceJob, AddJob, MarkCancelled, CallFails, UpsertTimer, UnqueueJob
    <3> QED
      BY <2>2, <3>2 DEF LoneInv, Unaccompanied
  <2> QED
    BY <2>1, <2>2
<1>2. ASSUME NEW w \in Worker, Fire(w) PROVE FALSE
  <2>1. CASE \E r \in Rule : Take(w, r)
    BY <2>1 DEF Take
  <2>2. CASE ~\E r \in Rule : Take(w, r)
    <3>1. alone' = alone /\ wpc[w] # "idle"
      BY <1>2, <2>2 DEF Fire, ReadTimer, CompleteTimer, ExecuteRule, LogExecution, EndJob,
        FireFails, Finish, Crash
    <3> QED
      BY <3>1 DEF LoneInv, Unaccompanied
  <2> QED
    BY <2>1, <2>2
<1>3. ASSUME NEW r \in Rule, LockExpires(r) \/ Stall(r) \/ Evict(r)
      PROVE  Unaccompanied(c)' /\ OnCourse(c)'
  <2>1. alone' = alone
    BY <1>3 DEF LockExpires, Stall, Evict
  <2>2. Unaccompanied(c) /\ OnCourse(c)
    BY <2>1 DEF LoneInv
  <2>3. Evict(r)
    BY <1>3, <2>2 DEF LockExpires, Locked, Stall, Unaccompanied
  <2>4. \A q \in Rule : jobState'[q] \in {jobState[q], "none"}
    BY <2>3 DEF Evict, RemoveJob, QueueTypeOK
  <2> QED
    BY <2>2, <2>3, <2>4 DEF Evict, Unaccompanied, OnCourse
<1>4. CASE UNCHANGED vars
  BY <1>4 DEF vars, LoneInv, Unaccompanied, OnCourse
<1> QED
  BY <1>1, <1>2, <1>3, <1>4 DEF Next

\* Whatever faults and overlaps left behind, a schedule call that runs alone
\* gives every rule it visits exactly its job, and a cancel call that runs alone
\* leaves nothing pending.
THEOREM LoneCallsRepair == Spec => LoneCallRepairs
<1> DEFINE Repairs ==
      \A c \in Caller :
        alone[c] => /\ AddJob(c) => ScheduledExactly(c)
                    /\ MarkCancelled(c) /\ cpc'[c] = "idle" =>
                         \A r \in Rule : rowStatus'[r] # "pending"
<1>1. Init => LoneInv
  BY DEF Init, LoneInv
<1>2. TypeOK /\ LoneInv => Repairs
  <2> SUFFICES ASSUME TypeOK, LoneInv, NEW c \in Caller, alone[c]
               PROVE  /\ AddJob(c) => ScheduledExactly(c)
                      /\ MarkCancelled(c) /\ cpc'[c] = "idle" =>
                           \A r \in Rule : rowStatus'[r] # "pending"
    OBVIOUS
  <2>1. OnCourse(c)
    BY DEF LoneInv
  <2>2. ASSUME AddJob(c) PROVE ScheduledExactly(c)
    <3>1. at[c] \in Rule /\ jobState[at[c]] = "none" /\ UNCHANGED rowVars
          /\ rowStatus[at[c]] = "pending" /\ rowId[at[c]] = snap[c][at[c]]
      BY <2>1, <2>2 DEF AddJob, OnCourse, TypeOK, CallerTypeOK
    <3>2. /\ jobState' = [jobState EXCEPT ![at[c]] = "delayed"]
          /\ jobId' = [jobId EXCEPT ![at[c]] = snap[c][at[c]]]
      BY <2>2, <3>1 DEF AddJob
    <3> QED
      BY <3>1, <3>2 DEF ScheduledExactly, TypeOK, QueueTypeOK, rowVars
  <2>3. ASSUME MarkCancelled(c), cpc'[c] = "idle", NEW r \in Rule PROVE rowStatus'[r] # "pending"
    <3>1. cpc[c] = "mark" /\ at[c] \in Rule /\ at[c] \in todo[c] /\ rowId[at[c]] = snap[c][at[c]]
      BY <2>1, <2>3 DEF MarkCancelled, OnCourse, TypeOK, CallerTypeOK
    <3>2. todo[c] = {at[c]} /\ rowStatus' = [rowStatus EXCEPT ![at[c]] = "cancelled"]
      BY <2>3, <3>1 DEF MarkCancelled, NextRule, TypeOK, CallerTypeOK
    <3> QED
      BY <2>1, <3>1, <3>2 DEF OnCourse, TypeOK, RowTypeOK
  <2> QED
    BY <2>2, <2>3
<1>3. Spec => [][Repairs]_vars
  BY <1>1, <1>2, NoReplyTyped, StepLone, PTL DEF Spec
<1> QED
  BY <1>3 DEF LoneCallRepairs
============================================================================
