------------------------------ MODULE NoReply ------------------------------
(***************************************************************************)
(* SchedulerService: the `time.no_reply_after` timers of one conversation. *)
(* Every rule has a row in scheduled_jobs, unique per (rule, conversation),*)
(* and a BullMQ job of the fixed name jobIdFor(rule, conversation).  Both  *)
(* are rewritten by scheduleNoReplyRules and cancelNoReplyRules, which run *)
(* in event workers and send requests of several processes, and read by    *)
(* fire, which runs in a worker of its own.  Nothing spans the two stores. *)
(***************************************************************************)
EXTENDS Naturals

CONSTANTS
  Rule,       \* enabled rules with trigger type time.no_reply_after
  Caller,     \* event handlers and send requests that call the service
  Worker,     \* workers of the scheduled-jobs queue, one per process
  MaxTimers,  \* bound on the ids scheduleNoReplyRules draws
  MaxFaults,  \* bound on crashes, rejected queries and lapsed locks
  MaxStalls,  \* BullMQ's maxStalledCount, 1 by default
  NoRule, NoWorker

ASSUME NoReplyAssumption ==
  /\ MaxTimers \in Nat /\ MaxFaults \in Nat /\ MaxStalls \in Nat
  /\ NoRule \notin Rule
  /\ NoWorker \notin Worker

VARIABLES
  rowId,     \* id of a rule's scheduled_jobs row, 0 when there is none
  rowStatus, \* its status
  jobState,  \* BullMQ state of the job jobIdFor(rule); delayed includes waiting
  jobId,     \* data.scheduledJobId of that job
  holder,    \* the worker that holds the job's lock
  stalls,    \* times the job was found stalled
  nextId,    \* source of newId()
  cpc,       \* next await of each caller
  todo,      \* rules the caller's loop has still to visit
  at,        \* the rule it is visiting
  snap,      \* the row id the caller wrote (schedule) or read (cancel), by rule
  wpc,       \* next await of each worker's fire()
  wrule, wid,\* data.ruleId and data.scheduledJobId of the job in hand
  fired,     \* times the action chain ran, per timer id
  logged,    \* timers with a RuleExecutionLog row
  faults,    \* faults so far
  lapsed,    \* history: timers whose lock expired under a live worker
  dead,      \* history: timers cancelled or replaced before fire() read them
  alone      \* history: nothing else has run since this call began

rowVars    == <<rowId, rowStatus, nextId>>
queueVars  == <<jobState, jobId, holder, stalls>>
callerVars == <<cpc, todo, at, snap, alone>>
workerVars == <<wpc, wrule, wid>>
effectVars == <<fired, logged>>
vars == <<rowVars, queueVars, callerVars, workerVars, effectVars, faults, lapsed, dead>>

Timer == 1 .. MaxTimers

Quiet ==
  /\ \A c \in Caller : cpc[c] = "idle"
  /\ \A w \in Worker : wpc[w] = "idle"
  /\ \A r \in Rule : jobState[r] # "active"

\* Call c begins; it overlaps with whatever else is running.
Begins(c) == alone' = [d \in Caller |-> d = c /\ Quiet]

\* Row r's timer is cancelled or replaced.  It is dead unless a worker has
\* already read it, or it has fired.
Retire(r) ==
  dead' = IF \/ rowId[r] \notin Timer
             \/ fired[rowId[r]] > 0
             \/ \E w \in Worker : wid[w] = rowId[r] /\ wpc[w] \in {"complete", "execute"}
          THEN dead
          ELSE dead \cup {rowId[r]}

Locked(r) == jobState[r] = "active" /\ holder[r] # NoWorker

\* queue.remove(jobId): any job but one a worker has locked.
RemoveJob(r) ==
  IF Locked(r)
  THEN UNCHANGED queueVars
  ELSE /\ jobState' = [jobState EXCEPT ![r] = "none"]
       /\ jobId' = [jobId EXCEPT ![r] = 0]
       /\ holder' = [holder EXCEPT ![r] = NoWorker]
       /\ stalls' = [stalls EXCEPT ![r] = 0]

Fault == faults < MaxFaults /\ faults' = faults + 1

----------------------------------------------------------------------------
\* scheduleNoReplyRules.

\* rule.findMany: the rules enabled now.
Schedule(c) ==
  /\ cpc[c] = "idle"
  /\ \E enabled \in SUBSET Rule \ {{}} : todo' = [todo EXCEPT ![c] = enabled]
  /\ cpc' = [cpc EXCEPT ![c] = "upsert"]
  /\ Begins(c)
  /\ UNCHANGED <<rowVars, queueVars, at, snap, workerVars, effectVars, faults, lapsed, dead>>

\* scheduledJob.upsert: a fresh id and status pending, over whatever row is there.
UpsertTimer(c, r) ==
  /\ cpc[c] = "upsert"
  /\ r \in todo[c]
  /\ nextId \in Timer
  /\ Retire(r)
  /\ rowId' = [rowId EXCEPT ![r] = nextId]
  /\ rowStatus' = [rowStatus EXCEPT ![r] = "pending"]
  /\ nextId' = nextId + 1
  /\ snap' = [snap EXCEPT ![c] = [snap[c] EXCEPT ![r] = nextId]]
  /\ at' = [at EXCEPT ![c] = r]
  /\ cpc' = [cpc EXCEPT ![c] = "remove"]
  /\ UNCHANGED <<queueVars, todo, alone, workerVars, effectVars, faults, lapsed>>

\* Mutant: relies on queue.add alone to replace the job.
ReplaceJobSkipped(c) ==
  /\ cpc[c] = "remove"
  /\ cpc' = [cpc EXCEPT ![c] = "add"]
  /\ UNCHANGED <<rowVars, queueVars, todo, at, snap, alone, workerVars, effectVars,
                 faults, lapsed, dead>>

\* queue.remove, on the way to queue.add.
ReplaceJob(c) ==
  /\ cpc[c] = "remove"
  /\ RemoveJob(at[c])
  /\ cpc' = [cpc EXCEPT ![c] = "add"]
  /\ UNCHANGED <<rowVars, todo, at, snap, alone, workerVars, effectVars, faults,
                 lapsed, dead>>

\* The loop's next rule, or the end of the call.
NextRule(c, more) ==
  /\ todo' = [todo EXCEPT ![c] = @ \ {at[c]}]
  /\ cpc' = [cpc EXCEPT ![c] = IF todo[c] = {at[c]} THEN "idle" ELSE more]
  /\ at' = [at EXCEPT ![c] = NoRule]
  /\ snap' = [snap EXCEPT ![c] = [snap[c] EXCEPT ![at[c]] = 0]]

\* queue.add with a delay: ignored when a job of that name exists, whatever
\* its state.
AddJob(c) ==
  /\ cpc[c] = "add"
  /\ IF jobState[at[c]] = "none"
     THEN /\ jobState' = [jobState EXCEPT ![at[c]] = "delayed"]
          /\ jobId' = [jobId EXCEPT ![at[c]] = snap[c][at[c]]]
     ELSE UNCHANGED <<jobState, jobId>>
  /\ NextRule(c, "upsert")
  /\ UNCHANGED <<rowVars, holder, stalls, alone, workerVars, effectVars, faults,
                 lapsed, dead>>

----------------------------------------------------------------------------
\* cancelNoReplyRules.

\* scheduledJob.findMany: the pending rows of the conversation.
Cancel(c) ==
  LET pending == {r \in Rule : rowStatus[r] = "pending"} IN
  /\ cpc[c] = "idle"
  /\ pending # {}
  /\ todo' = [todo EXCEPT ![c] = pending]
  /\ snap' = [snap EXCEPT ![c] = [r \in Rule |-> IF r \in pending THEN rowId[r] ELSE 0]]
  /\ cpc' = [cpc EXCEPT ![c] = "unqueue"]
  /\ Begins(c)
  /\ UNCHANGED <<rowVars, queueVars, at, workerVars, effectVars, faults, lapsed, dead>>

\* queue.remove.
UnqueueJob(c, r) ==
  /\ cpc[c] = "unqueue"
  /\ r \in todo[c]
  /\ RemoveJob(r)
  /\ at' = [at EXCEPT ![c] = r]
  /\ cpc' = [cpc EXCEPT ![c] = "mark"]
  /\ UNCHANGED <<rowVars, todo, snap, alone, workerVars, effectVars, faults, lapsed, dead>>

\* The call rejects, or its process dies.
Forsake(c) ==
  /\ cpc' = [cpc EXCEPT ![c] = "idle"]
  /\ todo' = [todo EXCEPT ![c] = {}]
  /\ at' = [at EXCEPT ![c] = NoRule]
  /\ snap' = [snap EXCEPT ![c] = [r \in Rule |-> 0]]

\* scheduledJob.update by id, whatever the status has become; it rejects when
\* the row has been given another id.
MarkCancelled(c) ==
  /\ cpc[c] = "mark"
  /\ IF rowId[at[c]] = snap[c][at[c]]
     THEN /\ rowStatus' = [rowStatus EXCEPT ![at[c]] = "cancelled"]
          /\ Retire(at[c])
          /\ NextRule(c, "unqueue")
     ELSE /\ Forsake(c)
          /\ UNCHANGED <<rowStatus, dead>>
  /\ UNCHANGED <<rowId, nextId, queueVars, alone, workerVars, effectVars, faults, lapsed>>

CallFails(c) ==
  /\ cpc[c] # "idle"
  /\ Fault
  /\ Forsake(c)
  /\ UNCHANGED <<rowVars, queueVars, alone, workerVars, effectVars, lapsed, dead>>
----------------------------------------------------------------------------
\* The worker and fire().

\* The delay is over and a free worker takes the job.
Take(w, r) ==
  /\ wpc[w] = "idle"
  /\ jobState[r] = "delayed"
  /\ jobState' = [jobState EXCEPT ![r] = "active"]
  /\ holder' = [holder EXCEPT ![r] = w]
  /\ wpc' = [wpc EXCEPT ![w] = "read"]
  /\ wrule' = [wrule EXCEPT ![w] = r]
  /\ wid' = [wid EXCEPT ![w] = jobId[r]]
  /\ alone' = [c \in Caller |-> FALSE]
  /\ UNCHANGED <<rowVars, jobId, stalls, cpc, todo, at, snap, effectVars, faults,
                 lapsed, dead>>

IsRow(w) == rowId[wrule[w]] = wid[w]

\* Mutant: does not look at the row's status.
ReadTimerAnyStatus(w) ==
  /\ wpc[w] = "read"
  /\ wpc' = [wpc EXCEPT ![w] = IF IsRow(w) THEN "complete" ELSE "end"]
  /\ UNCHANGED <<rowVars, queueVars, callerVars, wrule, wid, effectVars, faults,
                 lapsed, dead>>

\* Mutant: executes the rule without completing the row first.
ReadTimerUncompleted(w) ==
  /\ wpc[w] = "read"
  /\ wpc' = [wpc EXCEPT ![w] =
               IF IsRow(w) /\ rowStatus[wrule[w]] = "pending" THEN "execute" ELSE "end"]
  /\ UNCHANGED <<rowVars, queueVars, callerVars, wrule, wid, effectVars, faults,
                 lapsed, dead>>

\* scheduledJob.findUnique by the job's id: gone or not pending ends the job.
ReadTimer(w) ==
  /\ wpc[w] = "read"
  /\ wpc' = [wpc EXCEPT ![w] =
               IF IsRow(w) /\ rowStatus[wrule[w]] = "pending" THEN "complete" ELSE "end"]
  /\ UNCHANGED <<rowVars, queueVars, callerVars, wrule, wid, effectVars, faults,
                 lapsed, dead>>

\* scheduledJob.update by id: it rejects when the row has been replaced since,
\* and overwrites a cancellation made since.
CompleteTimer(w) ==
  /\ wpc[w] = "complete"
  /\ IF IsRow(w)
     THEN /\ rowStatus' = [rowStatus EXCEPT ![wrule[w]] = "completed"]
          /\ wpc' = [wpc EXCEPT ![w] = "execute"]
     ELSE /\ wpc' = [wpc EXCEPT ![w] = "end"]
          /\ UNCHANGED rowStatus
  /\ UNCHANGED <<rowId, nextId, queueVars, callerVars, wrule, wid, effectVars,
                 faults, lapsed, dead>>

\* executeScheduledTrigger and runRule: nothing if the rule was disabled, its
\* conditions fail, or the timer has an execution log; otherwise the actions.
ExecuteRule(w) ==
  /\ wpc[w] = "execute"
  /\ \/ /\ wpc' = [wpc EXCEPT ![w] = "end"]
        /\ UNCHANGED fired
     \/ /\ wid[w] \notin logged
        /\ fired' = [fired EXCEPT ![wid[w]] = @ + 1]
        /\ wpc' = [wpc EXCEPT ![w] = "log"]
  /\ UNCHANGED <<rowVars, queueVars, callerVars, wrule, wid, logged, faults, lapsed, dead>>

\* ruleExecutionLog.create; a failed insert is caught.
LogExecution(w) ==
  /\ wpc[w] = "log"
  /\ \/ logged' = logged \cup {wid[w]} /\ UNCHANGED faults
     \/ Fault /\ UNCHANGED logged
  /\ wpc' = [wpc EXCEPT ![w] = "end"]
  /\ UNCHANGED <<rowVars, queueVars, callerVars, wrule, wid, fired, lapsed, dead>>

FreeWorker(w) ==
  /\ wpc' = [wpc EXCEPT ![w] = "idle"]
  /\ wrule' = [wrule EXCEPT ![w] = NoRule]
  /\ wid' = [wid EXCEPT ![w] = 0]

\* The job is completed or, since it has one attempt, failed.  BullMQ keeps it
\* either way, unless the worker lost its lock.
Finish(w) ==
  /\ IF holder[wrule[w]] = w
     THEN /\ jobState' = [jobState EXCEPT ![wrule[w]] = "finished"]
          /\ holder' = [holder EXCEPT ![wrule[w]] = NoWorker]
     ELSE UNCHANGED <<jobState, holder>>
  /\ FreeWorker(w)
  /\ UNCHANGED <<rowVars, jobId, stalls, callerVars, effectVars, lapsed, dead>>

EndJob(w) == wpc[w] = "end" /\ Finish(w) /\ UNCHANGED faults

\* A query of fire() rejects.
FireFails(w) == wpc[w] \notin {"idle", "end"} /\ Finish(w) /\ Fault

\* The process dies and leaves its job active and locked.
Crash(w) ==
  /\ wpc[w] # "idle"
  /\ Fault
  /\ FreeWorker(w)
  /\ UNCHANGED <<rowVars, queueVars, callerVars, effectVars, lapsed, dead>>

\* Nobody renews the lock: its worker died, or is too busy.
LockExpires(r) ==
  /\ Locked(r)
  /\ IF \E w \in Worker : wrule[w] = r /\ holder[r] = w
     THEN Fault /\ lapsed' = lapsed \cup {jobId[r]}
     ELSE UNCHANGED <<faults, lapsed>>
  /\ holder' = [holder EXCEPT ![r] = NoWorker]
  /\ UNCHANGED <<rowVars, jobState, jobId, stalls, callerVars, workerVars, effectVars, dead>>

\* The stalled-job check.
Stall(r) ==
  /\ jobState[r] = "active"
  /\ holder[r] = NoWorker
  /\ IF stalls[r] < MaxStalls
     THEN /\ jobState' = [jobState EXCEPT ![r] = "delayed"]
          /\ stalls' = [stalls EXCEPT ![r] = @ + 1]
     ELSE /\ jobState' = [jobState EXCEPT ![r] = "finished"]
          /\ UNCHANGED stalls
  /\ UNCHANGED <<rowVars, jobId, holder, callerVars, workerVars, effectVars, faults,
                 lapsed, dead>>

\* removeOnComplete, removeOnFail: the 1000 newest finished jobs are kept.
Evict(r) ==
  /\ jobState[r] = "finished"
  /\ RemoveJob(r)
  /\ UNCHANGED <<rowVars, callerVars, workerVars, effectVars, faults, lapsed, dead>>

----------------------------------------------------------------------------

Init ==
  /\ rowId = [r \in Rule |-> 0]
  /\ rowStatus = [r \in Rule |-> "none"]
  /\ jobState = [r \in Rule |-> "none"]
  /\ jobId = [r \in Rule |-> 0]
  /\ holder = [r \in Rule |-> NoWorker]
  /\ stalls = [r \in Rule |-> 0]
  /\ nextId = 1
  /\ cpc = [c \in Caller |-> "idle"]
  /\ todo = [c \in Caller |-> {}]
  /\ at = [c \in Caller |-> NoRule]
  /\ snap = [c \in Caller |-> [r \in Rule |-> 0]]
  /\ wpc = [w \in Worker |-> "idle"]
  /\ wrule = [w \in Worker |-> NoRule]
  /\ wid = [w \in Worker |-> 0]
  /\ fired = [t \in Timer |-> 0]
  /\ logged = {}
  /\ faults = 0
  /\ lapsed = {}
  /\ dead = {}
  /\ alone = [c \in Caller |-> FALSE]

Call(c) ==
  \/ Schedule(c) \/ ReplaceJob(c) \/ AddJob(c)
  \/ Cancel(c) \/ MarkCancelled(c) \/ CallFails(c)
  \/ \E r \in Rule : UpsertTimer(c, r) \/ UnqueueJob(c, r)

Fire(w) ==
  \/ \E r \in Rule : Take(w, r)
  \/ ReadTimer(w) \/ CompleteTimer(w) \/ ExecuteRule(w) \/ LogExecution(w)
  \/ EndJob(w) \/ FireFails(w) \/ Crash(w)

Next ==
  \/ \E c \in Caller : Call(c)
  \/ \E w \in Worker : Fire(w)
  \/ \E r \in Rule : LockExpires(r) \/ Stall(r) \/ Evict(r)

Spec == Init /\ [][Next]_vars

----------------------------------------------------------------------------
\* Properties.

Slot == 0 .. MaxTimers

RowTypeOK ==
  /\ rowId \in [Rule -> Slot]
  /\ rowStatus \in [Rule -> {"none", "pending", "completed", "cancelled"}]
  /\ nextId \in Nat \ {0}

QueueTypeOK ==
  /\ jobState \in [Rule -> {"none", "delayed", "active", "finished"}]
  /\ jobId \in [Rule -> Slot]
  /\ \A r \in Rule : jobState[r] # "none" => jobId[r] \in Timer
  /\ holder \in [Rule -> Worker \cup {NoWorker}]
  /\ \A r \in Rule : holder[r] # NoWorker => jobState[r] = "active"
  /\ stalls \in [Rule -> Nat]

CallerTypeOK ==
  /\ cpc \in [Caller -> {"idle", "upsert", "remove", "add", "unqueue", "mark"}]
  /\ todo \in [Caller -> SUBSET Rule]
  /\ at \in [Caller -> Rule \cup {NoRule}]
  /\ snap \in [Caller -> [Rule -> Slot]]
  /\ alone \in [Caller -> BOOLEAN]
  /\ \A c \in Caller :
       /\ cpc[c] \in {"remove", "add", "mark"} => at[c] \in Rule
       /\ cpc[c] \in {"remove", "add"} => snap[c][at[c]] \in Timer

WorkerTypeOK ==
  /\ wpc \in [Worker -> {"idle", "read", "complete", "execute", "log", "end"}]
  /\ wrule \in [Worker -> Rule \cup {NoRule}]
  /\ wid \in [Worker -> Slot]
  /\ \A w \in Worker : wpc[w] # "idle" => wrule[w] \in Rule /\ wid[w] \in Timer

HistoryTypeOK ==
  /\ fired \in [Timer -> Nat]
  /\ logged \subseteq Timer
  /\ faults \in Nat
  /\ lapsed \subseteq Timer
  /\ dead \subseteq Timer

\* Rows, jobs, callers, workers and histories keep their types: a job always names
\* a timer (data.scheduledJobId), and only an active job is locked.
TypeOK == RowTypeOK /\ QueueTypeOK /\ CallerTypeOK /\ WorkerTypeOK /\ HistoryTypeOK

\* A timer's rule acts at most once through crashes, rejected queries and
\* redeliveries; twice is possible only if a lock expired under a live worker.
FiresOncePerTimer == \A t \in Timer \ lapsed : fired[t] <= 1

\* Why nothing retired fires: it is no pending row's id, and no worker got past
\* reading it.  Ids are never shared between rows, so one retirement suffices.
RetiredInv ==
  /\ \A r \in Rule : rowId[r] < nextId
  /\ \A r, s \in Rule : rowId[r] = rowId[s] /\ rowId[r] # 0 => r = s
  /\ \A t \in dead :
       /\ t < nextId
       /\ fired[t] = 0
       /\ \A r \in Rule : rowId[r] = t => rowStatus[r] # "pending"
       /\ \A w \in Worker : wid[w] = t => wpc[w] \notin {"complete", "execute"}

\* A timer that was cancelled by a reply, or replaced by a newer message,
\* before fire() read its row never acts, even if its job could not be removed
\* (scheduler.service.ts:106).
RetiredNeverFires == \A t \in dead : fired[t] = 0

\* Whatever earlier faults and overlaps left behind, a call that runs alone
\* repairs it: a schedule call leaves every rule it visits with a pending row
\* and the delayed job of that very row, a cancel call leaves no pending row.
ScheduledExactly(c) ==
  LET r == at[c] IN /\ rowStatus'[r] = "pending"
                    /\ jobState'[r] = "delayed"
                    /\ jobId'[r] = rowId'[r]

LoneCallRepairs ==
  [][\A c \in Caller :
       alone[c] => /\ AddJob(c) => ScheduledExactly(c)
                   /\ MarkCancelled(c) /\ cpc'[c] = "idle" =>
                        \A r \in Rule : rowStatus'[r] # "pending"]_vars

\* The comments at scheduler.service.ts:25-27 and :83: re-scheduling replaces
\* any still-pending delay.  So with nothing running and no fault ever, a
\* pending row has the delayed job that will fire it.  The code does not
\* satisfy it.
PendingTimerHasJob ==
  Quiet /\ faults = 0 =>
    \A r \in Rule : rowStatus[r] = "pending" =>
                      jobState[r] = "delayed" /\ jobId[r] = rowId[r]
============================================================================
