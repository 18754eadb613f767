-------------------------- MODULE ScheduledMessages --------------------------
(***************************************************************************)
(* ScheduledMessageService and the MessageSendService.send it calls: a     *)
(* reply the user schedules for later.  The row in scheduled_messages says *)
(* what should happen, a BullMQ job of the same id makes it happen, and a  *)
(* cancel request may meet the two anywhere on their way to the provider.  *)
(***************************************************************************)
EXTENDS Naturals

CONSTANTS
  Message,    \* scheduled messages, by the id schedule() draws
  Request,    \* cancel requests in flight
  Worker,     \* workers of the scheduled-messages queue, one per process
  MaxFaults,  \* bound on crashes, rejected queries and lapsed locks
  MaxStalls,  \* BullMQ's maxStalledCount, 1 by default
  NoMessage, NoWorker

ASSUME ScheduledAssumption ==
  /\ MaxFaults \in Nat /\ MaxStalls \in Nat
  /\ NoMessage \notin Message
  /\ NoWorker \notin Worker

VARIABLES
  status,    \* status of the scheduled_messages row
  adding,    \* messages whose schedule() call has not reached queue.add's end
  jobState,  \* BullMQ state of the message's job; delayed includes waiting
  holder,    \* the worker that holds the job's lock
  stalls,    \* times the job was found stalled
  rpc, rmsg, \* next await and message of each cancel request
  wpc, wmsg, \* next await and message of each worker's fire()
  delivered, \* times the provider accepted the message
  recorded,  \* outbound Message rows created for it
  inTime,    \* history: messages cancelled before any fire() read them
  faults     \* faults so far

scheduleVars == <<status, adding>>
queueVars    == <<jobState, holder, stalls>>
requestVars  == <<rpc, rmsg>>
workerVars   == <<wpc, wmsg>>
effectVars   == <<delivered, recorded>>
vars == <<scheduleVars, queueVars, requestVars, workerVars, effectVars, inTime, faults>>

Fault == faults < MaxFaults /\ faults' = faults + 1

Locked(m) == jobState[m] = "active" /\ holder[m] # NoWorker

----------------------------------------------------------------------------
\* schedule().

\* scheduledMessage.create.
Create(m) ==
  /\ status[m] = "none"
  /\ status' = [status EXCEPT ![m] = "pending"]
  /\ adding' = adding \cup {m}
  /\ UNCHANGED <<queueVars, requestVars, workerVars, effectVars, inTime, faults>>

\* queue.add with jobId = id, a fresh id no job can have.
Enqueue(m) ==
  /\ m \in adding
  /\ adding' = adding \ {m}
  /\ jobState' = [jobState EXCEPT ![m] = "delayed"]
  /\ UNCHANGED <<status, holder, stalls, requestVars, workerVars, effectVars,
                 inTime, faults>>

ScheduleFails(m) ==
  /\ m \in adding
  /\ Fault
  /\ adding' = adding \ {m}
  /\ UNCHANGED <<status, queueVars, requestVars, workerVars, effectVars, inTime>>

----------------------------------------------------------------------------
\* cancel().

\* scheduledMessage.findFirst; anything but pending returns null at once.
Cancel(q, m) ==
  /\ rpc[q] = "idle"
  /\ status[m] = "pending"
  /\ rpc' = [rpc EXCEPT ![q] = "unqueue"]
  /\ rmsg' = [rmsg EXCEPT ![q] = m]
  /\ UNCHANGED <<scheduleVars, queueVars, workerVars, effectVars, inTime, faults>>

\* queue.remove: any job but one a worker has locked.
Unqueue(q) ==
  /\ rpc[q] = "unqueue"
  /\ rpc' = [rpc EXCEPT ![q] = "update"]
  /\ IF Locked(rmsg[q])
     THEN UNCHANGED <<jobState, holder>>
     ELSE /\ jobState' = [jobState EXCEPT ![rmsg[q]] = "none"]
          /\ holder' = [holder EXCEPT ![rmsg[q]] = NoWorker]
  /\ UNCHANGED <<scheduleVars, stalls, rmsg, workerVars, effectVars, inTime, faults>>

EndRequest(q) ==
  /\ rpc' = [rpc EXCEPT ![q] = "idle"]
  /\ rmsg' = [rmsg EXCEPT ![q] = NoMessage]

\* Past its read of the row, fire() will not notice a cancellation any more.
PastRead == {"send", "record", "after", "sent", "failed"}

\* scheduledMessage.update by id, over whatever the status has become; the row
\* it returns tells the user the message is cancelled.
MarkCancelled(q) ==
  LET m == rmsg[q] IN
  /\ rpc[q] = "update"
  /\ status' = [status EXCEPT ![m] = "cancelled"]
  /\ inTime' = IF \/ delivered[m] > 0
                  \/ \E w \in Worker : wmsg[w] = m /\ wpc[w] \in PastRead
               THEN inTime
               ELSE inTime \cup {m}
  /\ EndRequest(q)
  /\ UNCHANGED <<adding, queueVars, workerVars, effectVars, faults>>

CancelFails(q) ==
  /\ rpc[q] # "idle"
  /\ Fault
  /\ EndRequest(q)
  /\ UNCHANGED <<scheduleVars, queueVars, workerVars, effectVars, inTime>>

----------------------------------------------------------------------------
\* The worker, fire() and send().

\* The delay is over and a free worker takes the job.
Take(w, m) ==
  /\ wpc[w] = "idle"
  /\ jobState[m] = "delayed"
  /\ jobState' = [jobState EXCEPT ![m] = "active"]
  /\ holder' = [holder EXCEPT ![m] = w]
  /\ wpc' = [wpc EXCEPT ![w] = "read"]
  /\ wmsg' = [wmsg EXCEPT ![w] = m]
  /\ UNCHANGED <<scheduleVars, stalls, requestVars, effectVars, inTime, faults>>

Go(w, from, to) ==
  /\ wpc[w] = from
  /\ wpc' = [wpc EXCEPT ![w] = to]
  /\ UNCHANGED <<adding, queueVars, requestVars, wmsg, inTime>>

\* Mutant: fires whatever the row's status is.
ReadScheduledAny(w) ==
  /\ Go(w, "read", "send")
  /\ UNCHANGED <<status, effectVars, faults>>

\* scheduledMessage.findUnique: a row that is not pending ends the job.
ReadScheduled(w) ==
  /\ Go(w, "read", IF status[wmsg[w]] = "pending" THEN "send" ELSE "end")
  /\ UNCHANGED <<status, effectVars, faults>>

\* Mutant: tries the connector once more when it rejects.
DeliverRetried(w) ==
  \/ /\ Go(w, "send", "record")
     /\ delivered' = [delivered EXCEPT ![wmsg[w]] = @ + 1]
     /\ UNCHANGED <<status, recorded, faults>>
  \/ /\ Go(w, "send", "send")
     /\ Fault
     /\ delivered' = [delivered EXCEPT ![wmsg[w]] = @ + 1]
     /\ UNCHANGED <<status, recorded>>

\* Mutant: returns without the outbound Message row.
DeliverUnrecorded(w) ==
  /\ Go(w, "send", "sent")
  /\ delivered' = [delivered EXCEPT ![wmsg[w]] = @ + 1]
  /\ UNCHANGED <<status, recorded, faults>>

\* send() up to connector.send: its checks of conversation, account, connector
\* and credential reject, the provider accepts, or it accepts and the answer is
\* lost.
Deliver(w) ==
  \/ /\ Go(w, "send", "record")
     /\ delivered' = [delivered EXCEPT ![wmsg[w]] = @ + 1]
     /\ UNCHANGED <<status, recorded, faults>>
  \/ /\ Go(w, "send", "failed")
     /\ UNCHANGED <<status, effectVars, faults>>
  \/ /\ Go(w, "send", "failed")
     /\ Fault
     /\ delivered' = [delivered EXCEPT ![wmsg[w]] = @ + 1]
     /\ UNCHANGED <<status, recorded>>

\* message.create.  It rejects when the message has been ingested already, as
\* an outbound event with the same external id.
Record(w) ==
  \/ /\ Go(w, "record", "after")
     /\ recorded' = [recorded EXCEPT ![wmsg[w]] = @ + 1]
     /\ UNCHANGED <<status, delivered, faults>>
  \/ /\ Go(w, "record", "failed")
     /\ UNCHANGED <<status, effectVars, faults>>

\* The rest of send(): conversation.update, the emission, the audit entry and
\* cancelNoReplyRules, which rejects when its row was replaced (module NoReply).
AfterRecord(w) ==
  /\ Go(w, "after", "sent") \/ Go(w, "after", "failed")
  /\ UNCHANGED <<status, effectVars, faults>>

\* scheduledMessage.update to sent, over whatever the status has become; when
\* it rejects the catch block runs.
MarkSent(w) ==
  \/ /\ Go(w, "sent", "end")
     /\ status' = [status EXCEPT ![wmsg[w]] = "sent"]
     /\ UNCHANGED <<effectVars, faults>>
  \/ /\ Go(w, "sent", "failed")
     /\ Fault
     /\ UNCHANGED <<status, effectVars>>

\* Mutant: the catch block only rethrows.
MarkFailedRethrow(w) ==
  /\ Go(w, "failed", "end")
  /\ UNCHANGED <<status, effectVars, faults>>

\* The catch block: scheduledMessage.update to failed, which may itself reject.
MarkFailed(w) ==
  /\ Go(w, "failed", "end")
  /\ \/ status' = [status EXCEPT ![wmsg[w]] = "failed"] /\ UNCHANGED faults
     \/ Fault /\ UNCHANGED status
  /\ UNCHANGED effectVars

FreeWorker(w) ==
  /\ wpc' = [wpc EXCEPT ![w] = "idle"]
  /\ wmsg' = [wmsg EXCEPT ![w] = NoMessage]

\* fire() returned or threw (its read may reject): the job has had its only
\* attempt, unless the worker lost its lock.
EndJob(w) ==
  /\ \/ wpc[w] = "end" /\ UNCHANGED faults
     \/ wpc[w] = "read" /\ Fault
  /\ IF holder[wmsg[w]] = w
     THEN /\ jobState' = [jobState EXCEPT ![wmsg[w]] = "finished"]
          /\ holder' = [holder EXCEPT ![wmsg[w]] = NoWorker]
     ELSE UNCHANGED <<jobState, holder>>
  /\ FreeWorker(w)
  /\ UNCHANGED <<scheduleVars, stalls, requestVars, effectVars, inTime>>

\* The process dies and leaves its job active and locked.
Crash(w) ==
  /\ wpc[w] # "idle"
  /\ Fault
  /\ FreeWorker(w)
  /\ UNCHANGED <<scheduleVars, queueVars, requestVars, effectVars, inTime>>

Handled(m) == \E w \in Worker : wmsg[w] = m /\ holder[m] = w

\* Nobody renews the lock: its worker died, or is too busy.
LockExpires(m) ==
  /\ Locked(m)
  /\ IF Handled(m) THEN Fault ELSE UNCHANGED faults
  /\ holder' = [holder EXCEPT ![m] = NoWorker]
  /\ UNCHANGED <<scheduleVars, jobState, stalls, requestVars, workerVars, effectVars,
                 inTime>>

\* The stalled-job check.
Stall(m) ==
  /\ jobState[m] = "active"
  /\ holder[m] = NoWorker
  /\ IF stalls[m] < MaxStalls
     THEN /\ jobState' = [jobState EXCEPT ![m] = "delayed"]
          /\ stalls' = [stalls EXCEPT ![m] = @ + 1]
     ELSE /\ jobState' = [jobState EXCEPT ![m] = "finished"]
          /\ UNCHANGED stalls
  /\ UNCHANGED <<scheduleVars, holder, requestVars, workerVars, effectVars, inTime, faults>>

----------------------------------------------------------------------------

Init ==
  /\ status = [m \in Message |-> "none"]
  /\ adding = {}
  /\ jobState = [m \in Message |-> "none"]
  /\ holder = [m \in Message |-> NoWorker]
  /\ stalls = [m \in Message |-> 0]
  /\ rpc = [q \in Request |-> "idle"]
  /\ rmsg = [q \in Request |-> NoMessage]
  /\ wpc = [w \in Worker |-> "idle"]
  /\ wmsg = [w \in Worker |-> NoMessage]
  /\ delivered = [m \in Message |-> 0]
  /\ recorded = [m \in Message |-> 0]
  /\ inTime = {}
  /\ faults = 0

\* What each actor does by itself once it has begun.
Proceed(q) == Unqueue(q) \/ MarkCancelled(q)

Fire(w) ==
  \/ \E m \in Message : Take(w, m)
  \/ ReadScheduled(w) \/ Deliver(w) \/ Record(w) \/ AfterRecord(w)
  \/ MarkSent(w) \/ MarkFailed(w) \/ EndJob(w)

Next ==
  \/ \E m \in Message : Create(m) \/ Enqueue(m) \/ ScheduleFails(m)
                        \/ LockExpires(m) \/ Stall(m)
  \/ \E q \in Request : Proceed(q) \/ CancelFails(q) \/ \E m \in Message : Cancel(q, m)
  \/ \E w \in Worker : Fire(w) \/ Crash(w)

\* Calls that began run on, workers take due jobs and run them, and a dead
\* worker's job is found.  Nobody has to schedule, cancel or fail.
Fairness ==
  /\ \A m \in Message : /\ WF_vars(Enqueue(m))
                        /\ WF_vars(~Handled(m) /\ LockExpires(m))
                        /\ WF_vars(Stall(m))
  /\ \A q \in Request : WF_vars(Proceed(q))
  /\ \A w \in Worker : WF_vars(Fire(w))

Spec == Init /\ [][Next]_vars
FairSpec == Spec /\ Fairness

----------------------------------------------------------------------------
\* Properties.

\* Rows, jobs, requests and workers keep their types; a row's status is one of
\* the five of the schema, and a request or fire() under way has its message.
TypeOK ==
  /\ status \in [Message -> {"none", "pending", "sent", "failed", "cancelled"}]
  /\ adding \subseteq Message
  /\ jobState \in [Message -> {"none", "delayed", "active", "finished"}]
  /\ holder \in [Message -> Worker \cup {NoWorker}]
  /\ stalls \in [Message -> Nat]
  /\ rpc \in [Request -> {"idle", "unqueue", "update"}]
  /\ rmsg \in [Request -> Message \cup {NoMessage}]
  /\ \A q \in Request : rpc[q] # "idle" => rmsg[q] \in Message
  /\ wpc \in [Worker -> {"idle", "read", "end"} \cup PastRead]
  /\ wmsg \in [Worker -> Message \cup {NoMessage}]
  /\ \A w \in Worker : wpc[w] # "idle" => wmsg[w] \in Message
  /\ delivered \in [Message -> Nat]
  /\ recorded \in [Message -> Nat]
  /\ inTime \subseteq Message
  /\ faults \in Nat

\* The provider gets a message once; a second time only after BullMQ took the
\* job from a worker that stalled, and never more often than that.
DeliveredOncePerStall == \A m \in Message : delivered[m] <= 1 + stalls[m]

\* A message shown as sent has reached the provider and has its outbound
\* Message row, however its firing raced with cancellations and with a second
\* worker.
SentIsRecorded ==
  \A m \in Message :
    /\ status[m] = "sent" => recorded[m] > 0
    /\ recorded[m] <= delivered[m]

\* A message cancelled before fire() read it never reaches the provider, even
\* if its job could not be removed or was added afterwards
\* (scheduled-message.service.ts:111).
InTimeCancelHolds == \A m \in inTime : delivered[m] = 0

\* In an execution without faults, every scheduled message is sent, failed or
\* cancelled in the end: no race of schedule, cancel and fire strands it.
PendingSettles ==
  \A m \in Message : status[m] = "pending" ~> status[m] # "pending" \/ faults > 0
============================================================================
