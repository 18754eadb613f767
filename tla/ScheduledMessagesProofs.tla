----------------------- MODULE ScheduledMessagesProofs -----------------------
(***************************************************************************)
(* Proofs about ScheduledMessages: its variables keep their types, and a   *)
(* message cancelled before fire() read it never reaches the provider, for *)
(* any number of messages, cancel requests, workers, faults and stalls.    *)
(***************************************************************************)
EXTENDS ScheduledMessages, FiniteSetTheorems, TLAPS

LEMMA InitTyped == Init => TypeOK
BY DEF Init, TypeOK, PastRead

LEMMA ScheduleTyped ==
  ASSUME TypeOK, NEW m \in Message,
         Create(m) \/ Enqueue(m) \/ ScheduleFails(m) \/ LockExpires(m) \/ Stall(m)
  PROVE  TypeOK'
<1> USE DEF TypeOK, scheduleVars, queueVars, requestVars, workerVars, effectVars
<1>1. CASE Create(m)
  BY <1>1 DEF Create
<1>2. CASE Enqueue(m)
  BY <1>2 DEF Enqueue
<1>3. CASE ScheduleFails(m)
  BY <1>3 DEF ScheduleFails, Fault
<1>4. CASE LockExpires(m)
  BY <1>4 DEF LockExpires, Fault
<1>5. CASE Stall(m)
  BY <1>5 DEF Stall
<1> QED
  BY <1>1, <1>2, <1>3, <1>4, <1>5

LEMMA RequestTyped ==
  ASSUME TypeOK, NEW q \in Request,
         Proceed(q) \/ CancelFails(q) \/ \E m \in Message : Cancel(q, m)
  PROVE  TypeOK'
<1> USE DEF TypeOK, scheduleVars, queueVars, requestVars, workerVars, effectVars
<1>1. ASSUME NEW m \in Message, Cancel(q, m) PROVE TypeOK'
  BY <1>1 DEF Cancel
<1>2. CASE Unqueue(q)
  BY <1>2 DEF Unqueue
<1>3. CASE MarkCancelled(q)
  BY <1>3 DEF MarkCancelled, EndRequest
<1>4. CASE CancelFails(q)
  BY <1>4 DEF CancelFails, EndRequest, Fault
<1> QED
  BY <1>1, <1>2, <1>3, <1>4 DEF Proceed

LEMMA FireTyped ==
  ASSUME TypeOK, NEW w \in Worker, Fire(w) \/ Crash(w)
  PROVE  TypeOK'
<1> USE DEF TypeOK, scheduleVars, queueVars, requestVars, workerVars, effectVars, PastRead
<1>1. ASSUME NEW m \in Message, Take(w, m) PROVE TypeOK'
  BY <1>1 DEF Take
<1>2. CASE ReadScheduled(w)
  BY <1>2 DEF ReadScheduled, Go
<1>3. CASE Deliver(w)
  BY <1>3 DEF Deliver, Go, Fault
<1>4. CASE Record(w)
  BY <1>4 DEF Record, Go
<1>5. CASE AfterRecord(w)
  BY <1>5 DEF AfterRecord, Go
<1>6. CASE MarkSent(w)
  BY <1>6 DEF MarkSent, Go, Fault
<1>7. CASE MarkFailed(w)
  BY <1>7 DEF MarkFailed, Go, Fault
<1>8. CASE EndJob(w)
  BY <1>8 DEF EndJob, FreeWorker, Fault
<1>9. CASE Crash(w)
  BY <1>9 DEF Crash, FreeWorker, Fault
<1> QED
  BY <1>1, <1>2, <1>3, <1>4, <1>5, <1>6, <1>7, <1>8, <1>9 DEF Fire

LEMMA NextTyped == TypeOK /\ [Next]_vars => TypeOK'
<1>1. UNCHANGED vars => (TypeOK => TypeOK')
  BY DEF vars, TypeOK, scheduleVars, queueVars, requestVars, workerVars, effectVars
<1> QED
  BY <1>1, ScheduleTyped, RequestTyped, FireTyped DEF Next

\* The variables of ScheduledMessages keep their types in every behaviour:
\* jobs, rows and workers only ever name messages that exist.
THEOREM ScheduledTyped == Spec => []TypeOK
BY InitTyped, NextTyped, PTL DEF Spec

----------------------------------------------------------------------------
\* The inductive form of InTimeCancelHolds: the row is not pending and never
\* will be, and no worker got past reading it.

InTimeInv ==
  \A m \in inTime :
    /\ status[m] \notin {"none", "pending"}
    /\ delivered[m] = 0
    /\ \A w \in Worker : wmsg[w] = m => wpc[w] \notin PastRead

LEMMA ScheduleInTime ==
  ASSUME TypeOK, InTimeInv, NEW m \in Message,
         Create(m) \/ Enqueue(m) \/ ScheduleFails(m) \/ LockExpires(m) \/ Stall(m)
  PROVE  InTimeInv'
BY DEF TypeOK, InTimeInv, Create, Enqueue, ScheduleFails, LockExpires, Stall,
  scheduleVars, queueVars, requestVars, workerVars, effectVars

LEMMA RequestInTime ==
  ASSUME TypeOK, InTimeInv, NEW q \in Request,
         Proceed(q) \/ CancelFails(q) \/ \E m \in Message : Cancel(q, m)
  PROVE  InTimeInv'
<1> USE DEF TypeOK, InTimeInv, scheduleVars, workerVars, effectVars
<1>1. CASE MarkCancelled(q)
  BY <1>1 DEF MarkCancelled
<1>2. CASE ~MarkCancelled(q)
  <2>1. UNCHANGED <<status, delivered, workerVars, inTime>>
    BY <1>2 DEF Proceed, Unqueue, CancelFails, Cancel
  <2> QED
    BY <2>1
<1> QED
  BY <1>1, <1>2

LEMMA FireInTime ==
  ASSUME TypeOK, InTimeInv, NEW w \in Worker, Fire(w) \/ Crash(w)
  PROVE  InTimeInv'
<1> USE DEF TypeOK, InTimeInv, PastRead, scheduleVars, effectVars
<1>1. ASSUME NEW m \in Message, Take(w, m) PROVE InTimeInv'
  BY <1>1 DEF Take
<1>2. CASE ReadScheduled(w)
  BY <1>2 DEF ReadScheduled, Go
<1>3. CASE Deliver(w)
  BY <1>3 DEF Deliver, Go
<1>4. CASE Record(w) \/ AfterRecord(w)
  BY <1>4 DEF Record, AfterRecord, Go
<1>5. CASE MarkSent(w) \/ MarkFailed(w)
  BY <1>5 DEF MarkSent, MarkFailed, Go
<1>6. CASE EndJob(w) \/ Crash(w)
  BY <1>6 DEF EndJob, Crash, FreeWorker
<1> QED
  BY <1>1, <1>2, <1>3, <1>4, <1>5, <1>6 DEF Fire

LEMMA NextInTime == TypeOK /\ InTimeInv /\ [Next]_vars => InTimeInv'
<1>1. UNCHANGED vars => (InTimeInv => InTimeInv')
  BY DEF vars, InTimeInv, scheduleVars, workerVars, effectVars
<1> QED
  BY <1>1, ScheduleInTime, RequestInTime, FireInTime DEF Next

\* A message cancelled before any fire() read its row never reaches the
\* provider, even when its job could not be removed or was added after the
\* cancellation: fire() rereads the row (scheduled-message.service.ts:111).
THEOREM InTimeCancelsHold == Spec => []InTimeCancelHolds
<1>1. Init => InTimeInv
  BY DEF Init, InTimeInv
<1>2. InTimeInv => InTimeCancelHolds
  BY DEF InTimeInv, InTimeCancelHolds
<1> QED
  BY <1>1, <1>2, InitTyped, NextTyped, NextInTime, PTL DEF Spec

----------------------------------------------------------------------------
\* Counting deliveries: who may still cause one, and who owes a Message row.

Among(m, S) == {w \in Worker : wmsg[w] = m /\ wpc[w] \in S}
Firing(m) == Among(m, {"read", "send"})
Recording(m) == Among(m, {"record"})

Bit(b) == IF b THEN 1 ELSE 0

\* Nothing happens to a message before its row is created, its job is added
\* once, and only an active job is locked.
FreshInv ==
  \A m \in Message :
    /\ status[m] = "none" => /\ m \notin adding /\ jobState[m] = "none"
                             /\ delivered[m] = 0 /\ \A w \in Worker : wmsg[w] # m
    /\ m \in adding => jobState[m] = "none"
    /\ holder[m] # NoWorker => jobState[m] = "active"

\* A delivery made, a worker that may deliver, a waiting job or a job still to
\* be added: there is one of them, and one more for each stall.
Budget(m) ==
  /\ IsFiniteSet(Firing(m))
  /\ delivered[m] + Cardinality(Firing(m)) + Bit(jobState[m] = "delayed") + Bit(m \in adding)
       <= 1 + stalls[m]

BudgetInv == \A m \in Message : Budget(m)

\* A Message row is made once per delivery, and comes before the status.
Recorded(m) ==
  /\ IsFiniteSet(Recording(m))
  /\ recorded[m] + Cardinality(Recording(m)) <= delivered[m]
  /\ status[m] = "sent" => recorded[m] > 0
  /\ \A w \in Worker : wmsg[w] = m /\ wpc[w] \in {"after", "sent"} => recorded[m] > 0

RecordInv == \A m \in Message : Recorded(m)

\* Every other worker stays where it is.
OnlyMoves(w) ==
  \A v \in Worker : v # w => wpc'[v] = wpc[v] /\ wmsg'[v] = wmsg[v]

\* When one worker moves, it leaves the set it was in and joins the one it is
\* in now; the others stay.
LEMMA OneWorkerMoves ==
  ASSUME NEW w \in Worker, OnlyMoves(w), NEW S, NEW m \in Message, IsFiniteSet(Among(m, S))
  PROVE  /\ IsFiniteSet(Among(m, S)')
         /\ Cardinality(Among(m, S)) \in Nat
         /\ Cardinality(Among(m, S)') \in Nat
         /\ Cardinality(Among(m, S)') = Cardinality(Among(m, S))
              - Bit(wmsg[w] = m /\ wpc[w] \in S) + Bit(wmsg'[w] = m /\ wpc'[w] \in S)
<1> DEFINE A == Among(m, S)
           B == A \ {w}
<1>1. (w \in A <=> wmsg[w] = m /\ wpc[w] \in S) /\ w \notin B
  BY DEF Among
<1>2. A' = IF wmsg'[w] = m /\ wpc'[w] \in S THEN B \cup {w} ELSE B
  BY DEF Among, OnlyMoves
<1>3. /\ IsFiniteSet(B) /\ Cardinality(A) \in Nat
      /\ Cardinality(B) = Cardinality(A) - Bit(w \in A)
  BY FS_RemoveElement, FS_CardinalityType DEF Bit
<1>4. Cardinality(B) \in Nat
  BY <1>3, FS_CardinalityType
<1> HIDE DEF A, B
<1>5. /\ IsFiniteSet(B \cup {w})
      /\ Cardinality(B \cup {w}) = Cardinality(B) + 1
  BY <1>1, <1>3, FS_AddElement
<1>6. /\ IsFiniteSet(A')
      /\ Cardinality(A') = Cardinality(B) + Bit(wmsg'[w] = m /\ wpc'[w] \in S)
  BY <1>2, <1>3, <1>4, <1>5 DEF Bit
<1> QED
  BY <1>1, <1>3, <1>4, <1>6 DEF A, Bit

\* The counts follow the workers alone.
LEMMA SameWorkers ==
  ASSUME UNCHANGED workerVars, NEW m, NEW S
  PROVE  Among(m, S)' = Among(m, S)
BY DEF workerVars, Among

LEMMA FreshStep == TypeOK /\ FreshInv /\ [Next]_vars => FreshInv'
<1> SUFFICES ASSUME TypeOK, FreshInv, [Next]_vars PROVE FreshInv'
  OBVIOUS
<1> USE DEF TypeOK, FreshInv, scheduleVars, queueVars, requestVars, workerVars, effectVars
<1>1. ASSUME NEW m \in Message,
             Create(m) \/ Enqueue(m) \/ ScheduleFails(m) \/ LockExpires(m) \/ Stall(m)
      PROVE  FreshInv'
  BY <1>1 DEF Create, Enqueue, ScheduleFails, LockExpires, Stall
<1>2. ASSUME NEW q \in Request, Proceed(q) \/ CancelFails(q) \/ \E m \in Message : Cancel(q, m)
      PROVE  FreshInv'
  BY <1>2 DEF Proceed, Unqueue, MarkCancelled, CancelFails, Cancel
<1>3. ASSUME NEW w \in Worker, NEW m \in Message, Take(w, m) PROVE FreshInv'
  BY <1>3 DEF Take
<1>4. ASSUME NEW w \in Worker, \/ ReadScheduled(w) \/ Deliver(w) \/ Record(w) \/ AfterRecord(w)
                               \/ MarkSent(w) \/ MarkFailed(w)
      PROVE  FreshInv'
  <2>1. wmsg[w] \in Message /\ status[wmsg[w]] # "none"
    BY <1>4 DEF ReadScheduled, Deliver, Record, AfterRecord, MarkSent, MarkFailed, Go
  <2>2. UNCHANGED <<adding, jobState, wmsg>>
    BY <1>4 DEF ReadScheduled, Deliver, Record, AfterRecord, MarkSent, MarkFailed, Go
  <2>3. \A m \in Message : m # wmsg[w] => status'[m] = status[m] /\ delivered'[m] = delivered[m]
    BY <1>4 DEF ReadScheduled, Deliver, Record, AfterRecord, MarkSent, MarkFailed, Go
  <2>4. status'[wmsg[w]] # "none"
    BY <1>4, <2>1 DEF ReadScheduled, Deliver, Record, AfterRecord, MarkSent, MarkFailed, Go
  <2>5. UNCHANGED holder
    BY <1>4 DEF ReadScheduled, Deliver, Record, AfterRecord, MarkSent, MarkFailed, Go
  <2> QED
    BY <2>1, <2>2, <2>3, <2>4, <2>5
<1>5. ASSUME NEW w \in Worker, EndJob(w) \/ Crash(w) PROVE FreshInv'
  <2>1. UNCHANGED <<status, adding, delivered>> /\ wmsg' = [wmsg EXCEPT ![w] = NoMessage]
    BY <1>5 DEF EndJob, Crash, FreeWorker
  <2>2. wmsg[w] \in Message
    BY <1>5 DEF EndJob, Crash
  <2>3. \/ UNCHANGED <<jobState, holder>>
        \/ /\ holder[wmsg[w]] = w
           /\ jobState' = [jobState EXCEPT ![wmsg[w]] = "finished"]
           /\ holder' = [holder EXCEPT ![wmsg[w]] = NoWorker]
    BY <1>5, <2>2 DEF EndJob, Crash
  <2> QED
    BY <2>1, <2>2, <2>3, ScheduledAssumption
<1>6. CASE UNCHANGED vars
  BY <1>6 DEF vars
<1> QED
  BY <1>1, <1>2, <1>3, <1>4, <1>5, <1>6 DEF Next, Fire


\* The schedule calls, the queue and cancel requests keep the budget: an added
\* job was to be added, and a stalled one pays for its second life.
LEMMA BudgetOfQueue ==
  ASSUME TypeOK, FreshInv, BudgetInv, UNCHANGED workerVars,
         \/ \E m \in Message : Create(m) \/ Enqueue(m) \/ ScheduleFails(m)
                                \/ LockExpires(m) \/ Stall(m)
         \/ \E q \in Request : Proceed(q) \/ CancelFails(q) \/ \E m \in Message : Cancel(q, m)
         \/ UNCHANGED vars
  PROVE  BudgetInv'
<1> SUFFICES ASSUME NEW n \in Message PROVE Budget(n)'
  BY DEF BudgetInv
<1> DEFINE N == Cardinality(Firing(n))
           Keeps == delivered'[n] + N + Bit(jobState'[n] = "delayed") + Bit(n \in adding')
                      <= 1 + stalls'[n]
<1>1. Firing(n)' = Firing(n)
  BY SameWorkers DEF Firing
<1>2. /\ IsFiniteSet(Firing(n)) /\ N \in Nat /\ delivered[n] \in Nat /\ stalls[n] \in Nat
      /\ delivered[n] + N + Bit(jobState[n] = "delayed") + Bit(n \in adding) <= 1 + stalls[n]
  BY FS_CardinalityType DEF BudgetInv, Budget, TypeOK
<1>3. status[n] = "none" => N = 0
  <2>1. status[n] = "none" => Firing(n) = {}
    BY DEF FreshInv, Firing, Among
  <2> QED
    BY <2>1, FS_EmptySet
<1> HIDE DEF N
<1> USE DEF TypeOK, Bit, scheduleVars, queueVars, requestVars, workerVars, effectVars
<1>4. Keeps
  <2>1. ASSUME NEW m \in Message, Create(m) PROVE Keeps
    BY <1>2, <1>3, <2>1 DEF Create, FreshInv
  <2>2. ASSUME NEW m \in Message, Enqueue(m) \/ ScheduleFails(m) PROVE Keeps
    BY <1>2, <2>2 DEF Enqueue, ScheduleFails, FreshInv
  <2>3. ASSUME NEW m \in Message, LockExpires(m) \/ Stall(m) PROVE Keeps
    BY <1>2, <2>3 DEF LockExpires, Stall
  <2>4. ASSUME NEW q \in Request,
               Proceed(q) \/ CancelFails(q) \/ \E m \in Message : Cancel(q, m)
        PROVE  Keeps
    BY <1>2, <2>4 DEF Proceed, Unqueue, MarkCancelled, CancelFails, Cancel
  <2>5. CASE UNCHANGED vars
    BY <1>2, <2>5 DEF vars
  <2> QED
    BY <2>1, <2>2, <2>3, <2>4, <2>5
<1> QED
  BY <1>1, <1>2, <1>4 DEF N, Budget

\* A worker's move keeps the budget when what it adds to the deliveries and to
\* the waiting jobs is no more than what it leaves.
LEMMA MoveInBudget ==
  ASSUME TypeOK, NEW n \in Message, Budget(n), NEW w \in Worker, OnlyMoves(w),
         UNCHANGED <<adding, stalls>>, delivered'[n] \in Nat,
         delivered'[n] + Bit(wmsg'[w] = n /\ wpc'[w] \in {"read", "send"})
             + Bit(jobState'[n] = "delayed")
           <= delivered[n] + Bit(wmsg[w] = n /\ wpc[w] \in {"read", "send"})
                + Bit(jobState[n] = "delayed")
  PROVE  Budget(n)'
<1> DEFINE A == Among(n, {"read", "send"})
<1>1. IsFiniteSet(Among(n, {"read", "send"}))
  BY DEF Budget, Firing
<1>2. /\ IsFiniteSet(A') /\ Cardinality(A) \in Nat /\ Cardinality(A') \in Nat
      /\ Cardinality(A') = Cardinality(A) - Bit(wmsg[w] = n /\ wpc[w] \in {"read", "send"})
                             + Bit(wmsg'[w] = n /\ wpc'[w] \in {"read", "send"})
  BY <1>1, OneWorkerMoves
<1>3. delivered[n] \in Nat /\ stalls[n] \in Nat
  BY DEF TypeOK
<1>4. delivered[n] + Cardinality(A) + Bit(jobState[n] = "delayed") + Bit(n \in adding)
        <= 1 + stalls[n]
  BY DEF Budget, Firing
<1> HIDE DEF A
<1>5. delivered'[n] + Cardinality(A') + Bit(jobState'[n] = "delayed") + Bit(n \in adding')
        <= 1 + stalls'[n]
  BY <1>2, <1>3, <1>4 DEF Bit
<1> QED
  BY <1>2, <1>5 DEF A, Budget, Firing

\* A worker brings the job it takes, and delivers by leaving the set.
LEMMA BudgetOfWorker ==
  ASSUME TypeOK, BudgetInv, NEW w \in Worker, Fire(w) \/ Crash(w)
  PROVE  BudgetInv'
<1> SUFFICES ASSUME NEW n \in Message PROVE Budget(n)'
  BY DEF BudgetInv
<1> USE DEF scheduleVars, queueVars, requestVars, workerVars, effectVars
<1>1. Budget(n) /\ delivered[n] \in Nat
  BY DEF BudgetInv, TypeOK
<1>2. UNCHANGED <<adding, stalls>>
  BY DEF Fire, Crash, Take, ReadScheduled, Deliver, Record, AfterRecord, MarkSent, MarkFailed,
    EndJob, Go
<1>3. OnlyMoves(w)
  BY DEF OnlyMoves, TypeOK, Fire, Crash, Take, ReadScheduled, Deliver, Record, AfterRecord,
    MarkSent, MarkFailed, EndJob, FreeWorker, Go
<1> DEFINE Bought == delivered'[n] + Bit(wmsg'[w] = n /\ wpc'[w] \in {"read", "send"})
                       + Bit(jobState'[n] = "delayed")
           Paid == delivered[n] + Bit(wmsg[w] = n /\ wpc[w] \in {"read", "send"})
                     + Bit(jobState[n] = "delayed")
<1>4. delivered'[n] \in Nat /\ Bought <= Paid
  <2> USE <1>1 DEF TypeOK, Bit
  <2>1. ASSUME NEW m \in Message, Take(w, m) PROVE delivered'[n] \in Nat /\ Bought <= Paid
    BY <2>1 DEF Take
  <2>2. CASE ReadScheduled(w)
    BY <2>2 DEF ReadScheduled, Go
  <2>3. CASE Deliver(w)
    BY <2>3 DEF Deliver, Go
  <2>4. CASE Record(w) \/ AfterRecord(w) \/ MarkSent(w) \/ MarkFailed(w)
    BY <2>4 DEF Record, AfterRecord, MarkSent, MarkFailed, Go
  <2>5. CASE EndJob(w) \/ Crash(w)
    BY <2>5, ScheduledAssumption DEF EndJob, Crash, FreeWorker
  <2> HIDE DEF Bought, Paid
  <2> QED
    BY <2>1, <2>2, <2>3, <2>4, <2>5 DEF Fire
<1> QED
  BY <1>1, <1>2, <1>3, <1>4, MoveInBudget

LEMMA BudgetStep == TypeOK /\ FreshInv /\ BudgetInv /\ [Next]_vars => BudgetInv'
<1>1. ASSUME NEW m \in Message,
             Create(m) \/ Enqueue(m) \/ ScheduleFails(m) \/ LockExpires(m) \/ Stall(m)
      PROVE  UNCHANGED workerVars
  BY <1>1 DEF Create, Enqueue, ScheduleFails, LockExpires, Stall
<1>2. ASSUME NEW q \in Request, Proceed(q) \/ CancelFails(q) \/ \E m \in Message : Cancel(q, m)
      PROVE  UNCHANGED workerVars
  BY <1>2 DEF Proceed, Unqueue, MarkCancelled, CancelFails, Cancel
<1>3. UNCHANGED vars => UNCHANGED workerVars
  BY DEF vars
<1>4. ASSUME TypeOK, FreshInv, BudgetInv,
             \/ \E m \in Message : Create(m) \/ Enqueue(m) \/ ScheduleFails(m)
                                    \/ LockExpires(m) \/ Stall(m)
             \/ \E q \in Request : Proceed(q) \/ CancelFails(q) \/ \E m \in Message : Cancel(q, m)
             \/ UNCHANGED vars
      PROVE  BudgetInv'
  <2>1. UNCHANGED workerVars
    BY <1>1, <1>2, <1>3, <1>4
  <2> QED
    BY <1>4, <2>1, BudgetOfQueue
<1>5. ASSUME TypeOK, BudgetInv, NEW w \in Worker, Fire(w) \/ Crash(w)
      PROVE  BudgetInv'
  BY <1>5, BudgetOfWorker
<1> SUFFICES ASSUME TypeOK, FreshInv, BudgetInv, [Next]_vars
             PROVE  BudgetInv'
  OBVIOUS
<1>6. CASE \E w \in Worker : Fire(w) \/ Crash(w)
  BY <1>5, <1>6
<1>7. CASE ~\E w \in Worker : Fire(w) \/ Crash(w)
  <2>1. \/ \E m \in Message : Create(m) \/ Enqueue(m) \/ ScheduleFails(m)
                              \/ LockExpires(m) \/ Stall(m)
        \/ \E q \in Request : Proceed(q) \/ CancelFails(q) \/ \E m \in Message : Cancel(q, m)
        \/ UNCHANGED vars
    BY <1>7 DEF Next
  <2> QED
    BY <1>4, <2>1
<1> QED
  BY <1>6, <1>7

\* The provider gets a message once, and once more only for each time BullMQ
\* took its job from a worker that stalled.
THEOREM OneDeliveryPerStall == Spec => []DeliveredOncePerStall
<1>1. Init => FreshInv
  BY ScheduledAssumption DEF Init, FreshInv
<1>2. ASSUME Init PROVE BudgetInv
  <2> SUFFICES ASSUME NEW m \in Message PROVE Budget(m)
    BY DEF BudgetInv
  <2>1. Firing(m) = {}
    BY <1>2 DEF Init, Firing, Among
  <2>2. IsFiniteSet(Firing(m)) /\ Cardinality(Firing(m)) = 0
    BY <2>1, FS_EmptySet
  <2>3. delivered[m] = 0 /\ jobState[m] = "none" /\ m \notin adding /\ stalls[m] = 0
    BY <1>2 DEF Init
  <2> QED
    BY <2>2, <2>3 DEF Budget, Bit
<1>3. ASSUME TypeOK, BudgetInv PROVE DeliveredOncePerStall
  <2> SUFFICES ASSUME NEW m \in Message PROVE delivered[m] <= 1 + stalls[m]
    BY DEF DeliveredOncePerStall
  <2>1. Budget(m) /\ delivered[m] \in Nat /\ stalls[m] \in Nat
    BY <1>3 DEF TypeOK, BudgetInv
  <2>2. Cardinality(Firing(m)) \in Nat
    BY <2>1, FS_CardinalityType DEF Budget
  <2> QED
    BY <2>1, <2>2 DEF Budget, Bit
<1> QED
  BY <1>1, <1>2, <1>3, InitTyped, NextTyped, FreshStep, BudgetStep, PTL DEF Spec

----------------------------------------------------------------------------
\* The status never runs ahead of the record, nor the record of the delivery.

\* Everything but a worker leaves the record alone, and shows nothing as sent.
LEMMA RecordOutsideFire ==
  ASSUME TypeOK, RecordInv, UNCHANGED <<workerVars, effectVars>>,
         \A m \in Message : status'[m] = "sent" => status[m] = "sent"
  PROVE  RecordInv'
<1> SUFFICES ASSUME NEW m \in Message PROVE Recorded(m)'
  BY DEF RecordInv
<1>1. Recorded(m)
  BY DEF RecordInv
<1>2. Recording(m)' = Recording(m)
  BY SameWorkers DEF Recording
<1> QED
  BY <1>1, <1>2 DEF Recorded, workerVars, effectVars

\* A worker's move keeps the record when it records no more than it delivers
\* or was about to record.
LEMMA MoveInRecord ==
  ASSUME TypeOK, NEW m \in Message, Recorded(m), NEW w \in Worker, OnlyMoves(w),
         delivered'[m] \in Nat, recorded'[m] \in Nat, recorded[m] <= recorded'[m],
         recorded'[m] - delivered'[m] + Bit(wmsg'[w] = m /\ wpc'[w] \in {"record"})
           <= recorded[m] - delivered[m] + Bit(wmsg[w] = m /\ wpc[w] \in {"record"}),
         wmsg'[w] = m /\ wpc'[w] \in {"after", "sent"} => recorded'[m] > 0,
         status'[m] = "sent" => recorded'[m] > 0
  PROVE  Recorded(m)'
<1> DEFINE A == Among(m, {"record"})
<1>1. IsFiniteSet(Among(m, {"record"}))
  BY DEF Recorded, Recording
<1>2. /\ IsFiniteSet(A') /\ Cardinality(A) \in Nat /\ Cardinality(A') \in Nat
      /\ Cardinality(A') = Cardinality(A) - Bit(wmsg[w] = m /\ wpc[w] \in {"record"})
                             + Bit(wmsg'[w] = m /\ wpc'[w] \in {"record"})
  BY <1>1, OneWorkerMoves
<1>3. recorded[m] \in Nat /\ delivered[m] \in Nat
  BY DEF TypeOK
<1>4. recorded[m] + Cardinality(A) <= delivered[m]
  BY DEF Recorded, Recording
<1> HIDE DEF A
<1>5. recorded'[m] + Cardinality(A') <= delivered'[m]
  BY <1>2, <1>3, <1>4 DEF Bit
<1>6. \A v \in Worker : wmsg'[v] = m /\ wpc'[v] \in {"after", "sent"} => recorded'[m] > 0
  BY <1>3 DEF Recorded, OnlyMoves
<1> QED
  BY <1>2, <1>5, <1>6 DEF A, Recorded, Recording

LEMMA RecordOfWorker ==
  ASSUME TypeOK, RecordInv, NEW w \in Worker, Fire(w) \/ Crash(w)
  PROVE  RecordInv'
<1> SUFFICES ASSUME NEW n \in Message PROVE Recorded(n)'
  BY DEF RecordInv
<1> USE DEF scheduleVars, queueVars, requestVars, workerVars, effectVars
<1>1. Recorded(n) /\ delivered[n] \in Nat /\ recorded[n] \in Nat
  BY DEF RecordInv, TypeOK
<1>2. OnlyMoves(w)
  BY DEF OnlyMoves, TypeOK, Fire, Crash, Take, ReadScheduled, Deliver, Record, AfterRecord,
    MarkSent, MarkFailed, EndJob, FreeWorker, Go
<1> DEFINE Owes == recorded'[n] - delivered'[n] + Bit(wmsg'[w] = n /\ wpc'[w] \in {"record"})
           Owed == recorded[n] - delivered[n] + Bit(wmsg[w] = n /\ wpc[w] \in {"record"})
           Kept == /\ delivered'[n] \in Nat /\ recorded'[n] \in Nat
                   /\ recorded[n] <= recorded'[n] /\ Owes <= Owed
                   /\ wmsg'[w] = n /\ wpc'[w] \in {"after", "sent"} => recorded'[n] > 0
                   /\ status'[n] = "sent" => recorded'[n] > 0
<1>3. Kept
  <2>1. /\ status[n] = "sent" => recorded[n] > 0
        /\ wmsg[w] = n /\ wpc[w] \in {"after", "sent"} => recorded[n] > 0
    BY <1>1 DEF Recorded
  <2> USE <1>1, <2>1 DEF TypeOK, Bit
  <2>2. ASSUME NEW m \in Message, Take(w, m) PROVE Kept
    BY <2>2 DEF Take
  <2>3. CASE ReadScheduled(w)
    BY <2>3 DEF ReadScheduled, Go
  <2>4. CASE Deliver(w)
    BY <2>4 DEF Deliver, Go
  <2>5. CASE Record(w)
    BY <2>5 DEF Record, Go
  <2>6. CASE AfterRecord(w)
    BY <2>6 DEF AfterRecord, Go
  <2>7. CASE MarkSent(w) \/ MarkFailed(w)
    BY <2>7 DEF MarkSent, MarkFailed, Go
  <2>8. CASE EndJob(w) \/ Crash(w)
    BY <2>8, ScheduledAssumption DEF EndJob, Crash, FreeWorker
  <2> HIDE DEF Kept
  <2> QED
    BY <2>2, <2>3, <2>4, <2>5, <2>6, <2>7, <2>8 DEF Fire
<1> QED
  BY <1>1, <1>2, <1>3, MoveInRecord

LEMMA RecordStep == TypeOK /\ RecordInv /\ [Next]_vars => RecordInv'
<1> SUFFICES ASSUME TypeOK, RecordInv, [Next]_vars PROVE RecordInv'
  OBVIOUS
<1> DEFINE Aside == /\ UNCHANGED <<workerVars, effectVars>>
                    /\ \A m \in Message : status'[m] = "sent" => status[m] = "sent"
<1> USE DEF scheduleVars, queueVars, requestVars, workerVars, effectVars
<1>1. ASSUME NEW m \in Message,
             Create(m) \/ Enqueue(m) \/ ScheduleFails(m) \/ LockExpires(m) \/ Stall(m)
      PROVE  Aside
  BY <1>1 DEF TypeOK, Create, Enqueue, ScheduleFails, LockExpires, Stall
<1>2. ASSUME NEW q \in Request, Proceed(q) \/ CancelFails(q) \/ \E m \in Message : Cancel(q, m)
      PROVE  Aside
  BY <1>2 DEF TypeOK, Proceed, Unqueue, MarkCancelled, CancelFails, Cancel
<1>3. UNCHANGED vars => Aside
  BY DEF vars
<1> QED
  BY <1>1, <1>2, <1>3, RecordOutsideFire, RecordOfWorker DEF Next

\* Whatever cancellations and second workers do, a message shown as sent is in
\* the conversation, and the conversation has no row for a message the provider
\* has not got.
THEOREM SentMeansRecorded == Spec => []SentIsRecorded
<1>1. ASSUME Init PROVE RecordInv
  <2> SUFFICES ASSUME NEW m \in Message PROVE Recorded(m)
    BY DEF RecordInv
  <2>1. Recording(m) = {}
    BY <1>1 DEF Init, Recording, Among
  <2>2. IsFiniteSet(Recording(m)) /\ Cardinality(Recording(m)) = 0
    BY <2>1, FS_EmptySet
  <2> QED
    BY <1>1, <2>2 DEF Init, Recorded
<1>2. ASSUME TypeOK, RecordInv PROVE SentIsRecorded
  <2> SUFFICES ASSUME NEW m \in Message
               PROVE  (status[m] = "sent" => recorded[m] > 0) /\ recorded[m] <= delivered[m]
    BY DEF SentIsRecorded
  <2>1. Recorded(m) /\ delivered[m] \in Nat /\ recorded[m] \in Nat
    BY <1>2 DEF TypeOK, RecordInv
  <2>2. Cardinality(Recording(m)) \in Nat
    BY <2>1, FS_CardinalityType DEF Recorded
  <2> QED
    BY <2>1, <2>2 DEF Recorded
<1> QED
  BY <1>1, <1>2, InitTyped, NextTyped, RecordStep, PTL DEF Spec
============================================================================
