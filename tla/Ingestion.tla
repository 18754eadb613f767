----------------------------- MODULE Ingestion -----------------------------
(***************************************************************************)
(* The event bus and its consumer: EventsService.publish, the BullMQ       *)
(* "events" queue (external), EventsProcessor.handleMessageReceived,       *)
(* resolveIdentity and RuleExecutionService.handleMessageReceived/runRule. *)
(*                                                                         *)
(* One step of a worker is the code between two awaits that reach Postgres *)
(* or Redis.  A worker may throw at any of them, its process may crash,    *)
(* and BullMQ may hand an active job to another worker while the first one *)
(* still runs (its lock expired).  All three happen in production: API     *)
(* processes are replicated and rolled (docs/ARCHITECTURE.md:445).         *)
(***************************************************************************)
EXTENDS Naturals, FiniteSets

CONSTANTS
  Event,         \* envelopes handed to publish(); the eventId is the jobId
  Message,       \* provider messages, one per (conversation, externalId)
  Conversation,  \* conversations, by (provider, externalId, workspace)
  ExternalId,    \* provider message ids, unique only inside a conversation
  Sender,        \* provider-native sender identities
  Account,       \* linked accounts a payload may come from
  Rule,          \* enabled rules with trigger type message.received
  Worker,        \* BullMQ workers, one per API process (concurrency 1)
  MsgOf,         \* [Event -> Message]: a webhook and a reconciliation pass
                 \* may each publish an event for the same message
  AccountOf,     \* [Event -> Account]: payload.linkedAccountId
  ReceivedAt,    \* [Message -> Nat]: payload.receivedAt
  ConvOf, ExtOf, SenderOf,  \* the other fields of the payload
  ScoreOf,       \* [Message -> Nat]: computePriorityScore of the payload
  Matches,       \* [Message -> SUBSET Rule]: trigger scope and condition tree
  MaxAttempts,   \* attempts: 5 in publish()
  MaxStalls,     \* BullMQ's maxStalledCount, 1 by default
  NoWorker, NoEvent, NoRule, NoRow

ConvRow == [account : Account, lastAt : Nat, priority : Nat]

ASSUME IngestionAssumption ==
  /\ MsgOf \in [Event -> Message]
  /\ AccountOf \in [Event -> Account]
  /\ ReceivedAt \in [Message -> Nat]
  /\ ConvOf \in [Message -> Conversation]
  /\ ExtOf \in [Message -> ExternalId]
  /\ SenderOf \in [Message -> Sender]
  /\ ScoreOf \in [Message -> Nat]
  /\ Matches \in [Message -> SUBSET Rule]
  /\ MaxAttempts \in Nat \ {0}
  /\ MaxStalls \in Nat
  /\ NoWorker \notin Worker
  /\ NoEvent \notin Event
  /\ NoRule \notin Rule
  /\ \A m, n \in Message : ConvOf[m] = ConvOf[n] /\ ExtOf[m] = ExtOf[n] => m = n

ASSUME NoRowAssumption == NoRow \notin ConvRow

VARIABLES
  job,       \* BullMQ state of each event's job
  attempts,  \* failed attempts of each job
  stalls,    \* times each job was found stalled
  lock,      \* the worker that holds the job's lock
  pc,        \* next await of each worker's handler
  cur,       \* the event a worker is handling
  contact,   \* the contact a worker resolved (0 once it is no longer used,
             \* here and in the locals below)
  seen,      \* conversation.priorityScore as the worker's upsert returned it
  todo,      \* matched rules the worker has still to run
  trigger,   \* eventId of the RULE_TRIGGERED envelope a worker created
  running,   \* the rule whose actions a worker executed last
  identity,  \* ContactIdentity rows: a set of <<sender, contact>>
  conv,      \* Conversation rows
  stored,    \* Message rows: a set of [msg, contact]
  ruleLog,   \* RuleExecutionLog rows: a set of <<rule, trigger>>
  nextId,    \* source of fresh ids (newId)
  notified,  \* "message.received" emissions per message
  fired,     \* executions of a rule's action chain per message
  clocked    \* messages whose no-reply clock was (re)started or stopped

queueVars  == <<job, attempts, stalls, lock>>
localVars  == <<cur, contact, seen, todo, trigger, running>>
tableVars  == <<identity, conv, stored, ruleLog, nextId>>
effectVars == <<notified, fired, clocked>>
vars == <<queueVars, pc, localVars, tableVars, effectVars>>

JobStates == {"unpublished", "waiting", "active", "delayed", "completed", "failed"}

Labels == {"idle", "resolve", "newContact", "upsertConv", "dedupe", "insert",
           "priority", "notify", "rules", "log", "done"}

\* Rows the handler for a message looks up.
Stored(m) == \E row \in stored : row.msg = m

Msg(w) == MsgOf[cur[w]]

Step(w, from, to) ==
  /\ pc[w] = from
  /\ pc' = [pc EXCEPT ![w] = to]

----------------------------------------------------------------------------
\* The queue.

\* EventsService.publish: queue.add with jobId = eventId.  Adding an event
\* again while its job exists does nothing.
Publish(e) ==
  /\ job[e] = "unpublished"
  /\ job' = [job EXCEPT ![e] = "waiting"]
  /\ UNCHANGED <<attempts, stalls, lock, pc, localVars, tableVars, effectVars>>

\* The exponential backoff of a failed attempt has elapsed.
Promote(e) ==
  /\ job[e] = "delayed"
  /\ job' = [job EXCEPT ![e] = "waiting"]
  /\ UNCHANGED <<attempts, stalls, lock, pc, localVars, tableVars, effectVars>>

\* A free worker takes a waiting job and its handler starts.
Take(w, e) ==
  /\ job[e] = "waiting"
  /\ Step(w, "idle", "resolve")
  /\ job' = [job EXCEPT ![e] = "active"]
  /\ lock' = [lock EXCEPT ![e] = w]
  /\ cur' = [cur EXCEPT ![w] = e]
  /\ UNCHANGED <<attempts, stalls, contact, seen, todo, trigger, running,
                 tableVars, effectVars>>

\* The stalled-job check finds an active job whose lock has expired: the
\* worker crashed, or its event loop was blocked and it is still running.
Stall(e) ==
  /\ job[e] = "active"
  /\ lock' = [lock EXCEPT ![e] = NoWorker]
  /\ IF stalls[e] < MaxStalls
     THEN /\ job' = [job EXCEPT ![e] = "waiting"]
          /\ stalls' = [stalls EXCEPT ![e] = @ + 1]
     ELSE /\ job' = [job EXCEPT ![e] = "failed"]
          /\ UNCHANGED stalls
  /\ UNCHANGED <<attempts, pc, localVars, tableVars, effectVars>>

\* The worker is free again and forgets the handler's locals.
Release(w) ==
  /\ pc' = [pc EXCEPT ![w] = "idle"]
  /\ cur' = [cur EXCEPT ![w] = NoEvent]
  /\ contact' = [contact EXCEPT ![w] = 0]
  /\ seen' = [seen EXCEPT ![w] = 0]
  /\ todo' = [todo EXCEPT ![w] = {}]
  /\ trigger' = [trigger EXCEPT ![w] = 0]
  /\ running' = [running EXCEPT ![w] = NoRule]

\* The handler returned: the job completes unless its lock was lost.
Complete(w) ==
  /\ pc[w] = "done"
  /\ IF lock[cur[w]] = w
     THEN /\ job' = [job EXCEPT ![cur[w]] = "completed"]
          /\ lock' = [lock EXCEPT ![cur[w]] = NoWorker]
     ELSE UNCHANGED <<job, lock>>
  /\ Release(w)
  /\ UNCHANGED <<attempts, stalls, tableVars, effectVars>>

\* Where a job goes after its n-th failed attempt.
AfterFailure(n) == IF n < MaxAttempts THEN "delayed" ELSE "failed"

\* Mutant: a retry starts again with all its attempts.
FailAttemptUncounted(w) ==
  LET e == cur[w] IN
  /\ IF lock[e] = w
     THEN /\ job' = [job EXCEPT ![e] = AfterFailure(1)]
          /\ lock' = [lock EXCEPT ![e] = NoWorker]
     ELSE UNCHANGED <<job, lock>>
  /\ Release(w)
  /\ UNCHANGED <<attempts, stalls>>

\* The handler rejected: one attempt is spent, unless the lock was lost.
FailAttempt(w) ==
  LET e == cur[w] IN
  /\ IF lock[e] = w
     THEN /\ attempts' = [attempts EXCEPT ![e] = @ + 1]
          /\ job' = [job EXCEPT ![e] = AfterFailure(attempts[e] + 1)]
          /\ lock' = [lock EXCEPT ![e] = NoWorker]
     ELSE UNCHANGED <<attempts, job, lock>>
  /\ Release(w)
  /\ UNCHANGED stalls

\* A query of the handler rejects (database or Redis unavailable).
Throw(w) ==
  /\ pc[w] \notin {"idle", "done"}
  /\ FailAttempt(w)
  /\ UNCHANGED <<tableVars, effectVars>>

\* The process dies; the job stays active until Stall finds it.
Crash(w) ==
  /\ pc[w] # "idle"
  /\ Release(w)
  /\ UNCHANGED <<queueVars, tableVars, effectVars>>

----------------------------------------------------------------------------
\* EventsProcessor.handleMessageReceived, one action per await.

KnownSender(w) == \E row \in identity : row[1] = SenderOf[Msg(w)]

\* resolveIdentity: look the sender up.
ResolveIdentity(w) ==
  /\ pc[w] = "resolve"
  /\ \/ \E row \in identity :
          /\ row[1] = SenderOf[Msg(w)]
          /\ contact' = [contact EXCEPT ![w] = row[2]]
          /\ Step(w, "resolve", "upsertConv")
     \/ /\ ~KnownSender(w)
        /\ Step(w, "resolve", "newContact")
        /\ UNCHANGED contact
  /\ UNCHANGED <<queueVars, cur, seen, todo, trigger, running, tableVars, effectVars>>

\* Mutant: no unique index on contact_identities.
CreateContactNoIndex(w) ==
  /\ Step(w, "newContact", "upsertConv")
  /\ identity' = identity \cup {<<SenderOf[Msg(w)], nextId>>}
  /\ contact' = [contact EXCEPT ![w] = nextId]
  /\ nextId' = nextId + 1
  /\ UNCHANGED <<queueVars, cur, seen, todo, trigger, running, conv, stored,
                 ruleLog, effectVars>>

\* resolveIdentity's transaction: a Contact and its ContactIdentity.  The
\* unique (provider, externalId, workspace) index rolls both back for the
\* loser of a race, whose handler then rejects.
CreateContact(w) ==
  /\ pc[w] = "newContact"
  /\ IF KnownSender(w)
     THEN FailAttempt(w) /\ UNCHANGED <<identity, nextId>>
     ELSE /\ identity' = identity \cup {<<SenderOf[Msg(w)], nextId>>}
          /\ contact' = [contact EXCEPT ![w] = nextId]
          /\ nextId' = nextId + 1
          /\ Step(w, "newContact", "upsertConv")
          /\ UNCHANGED <<queueVars, cur, seen, todo, trigger, running>>
  /\ UNCHANGED <<conv, stored, ruleLog, effectVars>>

\* conversation.upsert: sets lastMessageAt and re-links the account, on every
\* delivery, and returns the row with its priorityScore.
UpsertConversation(w) ==
  LET c   == ConvOf[Msg(w)]
      old == IF conv[c] = NoRow THEN 0 ELSE conv[c].priority
  IN /\ Step(w, "upsertConv", "dedupe")
     /\ conv' = [conv EXCEPT ![c] = [account  |-> AccountOf[cur[w]],
                                     lastAt   |-> ReceivedAt[Msg(w)],
                                     priority |-> old]]
     /\ seen' = [seen EXCEPT ![w] = old]
     /\ UNCHANGED <<queueVars, cur, contact, todo, trigger, running, identity,
                    stored, ruleLog, nextId, effectVars>>

\* Mutant: the lookup is by external id alone.
DuplicateAnywhere(w) == \E row \in stored : ExtOf[row.msg] = ExtOf[Msg(w)]

\* A stored message with the payload's conversation and external id.
Duplicate(w) ==
  \E row \in stored : /\ ConvOf[row.msg] = ConvOf[Msg(w)]
                      /\ ExtOf[row.msg] = ExtOf[Msg(w)]

\* message.findUnique: a duplicate returns early.
CheckDuplicate(w) ==
  /\ Step(w, "dedupe", IF Duplicate(w) THEN "done" ELSE "insert")
  /\ UNCHANGED <<queueVars, localVars, tableVars, effectVars>>

\* Mutant: no unique index on messages, only the findUnique before.
CreateMessageNoIndex(w) ==
  /\ Step(w, "insert", IF ScoreOf[Msg(w)] > seen[w] THEN "priority" ELSE "notify")
  /\ stored' = stored \cup {[msg |-> Msg(w), contact |-> contact[w]]}
  /\ contact' = [contact EXCEPT ![w] = 0]
  /\ UNCHANGED <<queueVars, cur, seen, todo, trigger, running, identity, conv,
                 ruleLog, nextId, effectVars>>

\* message.create: the unique (conversationId, externalId) index rejects the
\* second of two racing inserts, whose handler then rejects.
CreateMessage(w) ==
  /\ pc[w] = "insert"
  /\ IF Duplicate(w)
     THEN FailAttempt(w) /\ UNCHANGED stored
     ELSE /\ stored' = stored \cup {[msg |-> Msg(w), contact |-> contact[w]]}
          /\ Step(w, "insert", IF ScoreOf[Msg(w)] > seen[w] THEN "priority" ELSE "notify")
          /\ contact' = [contact EXCEPT ![w] = 0]
          /\ UNCHANGED <<queueVars, cur, seen, todo, trigger, running>>
  /\ UNCHANGED <<identity, conv, ruleLog, nextId, effectVars>>

\* conversation.update, reached when the score is greater than the one the
\* upsert read: it overwrites whatever is there now.
UpdatePriority(w) ==
  LET row == conv[ConvOf[Msg(w)]] IN
  /\ Step(w, "priority", "notify")
  /\ conv' = [conv EXCEPT ![ConvOf[Msg(w)]] = [account  |-> row.account,
                                               lastAt   |-> row.lastAt,
                                               priority |-> ScoreOf[Msg(w)]]]
  /\ seen' = [seen EXCEPT ![w] = 0]
  /\ UNCHANGED <<queueVars, cur, contact, todo, trigger, running, identity,
                 stored, ruleLog, nextId, effectVars>>

\* Mutant: the rules are not filtered by scope and conditions.
NotifyAllRules(w) ==
  /\ Step(w, "notify", "rules")
  /\ notified' = [notified EXCEPT ![Msg(w)] = @ + 1]
  /\ trigger' = [trigger EXCEPT ![w] = nextId]
  /\ nextId' = nextId + 1
  /\ todo' = [todo EXCEPT ![w] = Rule]
  /\ UNCHANGED <<queueVars, cur, contact, seen, running, identity, conv, stored,
                 ruleLog, fired, clocked>>

\* emitToWorkspace("message.received"), createEvent(RULE_TRIGGERED) with a
\* fresh eventId, and the lookup of the enabled rules.
Notify(w) ==
  /\ Step(w, "notify", "rules")
  /\ notified' = [notified EXCEPT ![Msg(w)] = @ + 1]
  /\ trigger' = [trigger EXCEPT ![w] = nextId]
  /\ nextId' = nextId + 1
  /\ todo' = [todo EXCEPT ![w] = Matches[Msg(w)]]
  /\ UNCHANGED <<queueVars, cur, contact, seen, running, identity, conv, stored,
                 ruleLog, fired, clocked>>

\* runRule: skip a rule already logged for this trigger, otherwise execute
\* its action chain (a throw inside it is caught).
RunRule(w, r) ==
  /\ pc[w] = "rules"
  /\ r \in todo[w]
  /\ todo' = [todo EXCEPT ![w] = @ \ {r}]
  /\ IF <<r, trigger[w]>> \in ruleLog
     THEN UNCHANGED <<pc, fired, running>>
     ELSE /\ fired' = [fired EXCEPT ![<<r, Msg(w)>>] = @ + 1]
          /\ running' = [running EXCEPT ![w] = r]
          /\ pc' = [pc EXCEPT ![w] = "log"]
  /\ UNCHANGED <<queueVars, cur, contact, seen, trigger, tableVars, notified, clocked>>

\* ruleExecutionLog.create; a failed insert is caught and logged.
LogRule(w) ==
  /\ Step(w, "log", "rules")
  /\ \/ ruleLog' = ruleLog \cup {<<running[w], trigger[w]>>}
     \/ UNCHANGED ruleLog
  /\ running' = [running EXCEPT ![w] = NoRule]
  /\ UNCHANGED <<queueVars, cur, contact, seen, todo, trigger, identity, conv,
                 stored, nextId, effectVars>>

\* scheduleNoReplyRules or cancelNoReplyRules, by direction (module NoReply).
UpdateClock(w) ==
  /\ todo[w] = {}
  /\ Step(w, "rules", "done")
  /\ clocked' = clocked \cup {Msg(w)}
  /\ trigger' = [trigger EXCEPT ![w] = 0]
  /\ UNCHANGED <<queueVars, cur, contact, seen, todo, running, tableVars,
                 notified, fired>>

----------------------------------------------------------------------------

Init ==
  /\ job = [e \in Event |-> "unpublished"]
  /\ attempts = [e \in Event |-> 0]
  /\ stalls = [e \in Event |-> 0]
  /\ lock = [e \in Event |-> NoWorker]
  /\ pc = [w \in Worker |-> "idle"]
  /\ cur = [w \in Worker |-> NoEvent]
  /\ contact = [w \in Worker |-> 0]
  /\ seen = [w \in Worker |-> 0]
  /\ todo = [w \in Worker |-> {}]
  /\ trigger = [w \in Worker |-> 0]
  /\ running = [w \in Worker |-> NoRule]
  /\ identity = {}
  /\ conv = [c \in Conversation |-> NoRow]
  /\ stored = {}
  /\ ruleLog = {}
  /\ nextId = 1
  /\ notified = [m \in Message |-> 0]
  /\ fired = [p \in Rule \X Message |-> 0]
  /\ clocked = {}

\* The steps a worker takes by itself.
Handle(w) ==
  \/ ResolveIdentity(w)
  \/ CreateContact(w)
  \/ UpsertConversation(w)
  \/ CheckDuplicate(w)
  \/ CreateMessage(w)
  \/ UpdatePriority(w)
  \/ Notify(w)
  \/ \E r \in Rule : RunRule(w, r)
  \/ LogRule(w)
  \/ UpdateClock(w)
  \/ Complete(w)

Next ==
  \/ \E e \in Event : Publish(e) \/ Promote(e) \/ Stall(e)
  \/ \E w \in Worker, e \in Event : Take(w, e)
  \/ \E w \in Worker : Handle(w) \/ Throw(w) \/ Crash(w)

\* A job whose lock nobody renews: no live worker is handling it.
Orphan(e) == \A w \in Worker : cur[w] # e

\* Workers run and take jobs, BullMQ promotes delayed jobs and finds stalled
\* ones.  Nothing is fair about publishing, throwing or crashing, and the
\* stalled check need only find jobs whose worker is gone.
Fairness ==
  /\ \A w \in Worker : /\ WF_vars(Handle(w))
                       /\ WF_vars(\E e \in Event : Take(w, e))
  /\ \A e \in Event : /\ WF_vars(Promote(e))
                      /\ WF_vars(Orphan(e) /\ Stall(e))

Spec == Init /\ [][Next]_vars
FairSpec == Spec /\ Fairness

----------------------------------------------------------------------------
\* Properties.

QueueTypeOK ==
  /\ job \in [Event -> JobStates]
  /\ attempts \in [Event -> Nat]
  /\ stalls \in [Event -> Nat]
  /\ lock \in [Event -> Worker \cup {NoWorker}]

WorkerTypeOK ==
  /\ pc \in [Worker -> Labels]
  /\ cur \in [Worker -> Event \cup {NoEvent}]
  /\ \A w \in Worker : pc[w] # "idle" => cur[w] \in Event
  /\ contact \in [Worker -> Nat]
  /\ seen \in [Worker -> Nat]
  /\ todo \in [Worker -> SUBSET Rule]
  /\ trigger \in [Worker -> Nat]
  /\ running \in [Worker -> Rule \cup {NoRule}]

TableTypeOK ==
  /\ identity \subseteq Sender \X Nat
  /\ conv \in [Conversation -> ConvRow \cup {NoRow}]
  /\ stored \subseteq [msg : Message, contact : Nat]
  /\ nextId \in Nat

EffectTypeOK ==
  /\ notified \in [Message -> Nat]
  /\ fired \in [Rule \X Message -> Nat]
  /\ clocked \subseteq Message

\* Jobs, workers' locals, tables and effects keep their types; a worker past
\* idle has an event, and a Conversation row always has its priorityScore, which
\* the create branch of the upsert leaves to the column's default.
TypeOK == QueueTypeOK /\ WorkerTypeOK /\ TableTypeOK /\ EffectTypeOK

\* However often a message is delivered, retried, or handled by two workers at
\* once, its notification is emitted and each rule's actions run at most once
\* (docs/adr/0005-event-driven-architecture.md:19).
NeverDoubleFires ==
  /\ \A m \in Message : notified[m] <= 1
  /\ \A r \in Rule, m \in Message : fired[<<r, m>>] <= 1

\* BullMQ forgets a completed job, so its message must be in the database:
\* the early return for duplicates never swallows another message.
CompletedIsStored ==
  \A e \in Event : job[e] = "completed" => Stored(MsgOf[e])

\* Racing first messages of one sender never leave it with two contacts, and
\* every stored message is attributed to its sender's contact.
OneContactPerSender ==
  /\ \A a, b \in identity : a[1] = b[1] => a = b
  /\ \A row \in stored : <<SenderOf[row.msg], row.contact>> \in identity

\* Why nothing fires twice.  The worker whose insert created the row owns the
\* message until its handler ends; nobody else ever does, because every later
\* delivery finds the row; and the owner has not yet run what is in todo.
Owning == {"priority", "notify", "rules", "log"}

OneOwner ==
  /\ \A w \in Worker : pc[w] \in Owning \cup {"done"} => Stored(Msg(w))
  /\ \A v, w \in Worker :
       pc[v] \in Owning /\ pc[w] \in Owning /\ Msg(v) = Msg(w) => v = w

EffectsFollow ==
  /\ \A m \in Message : notified[m] \in {0, 1} /\ (~Stored(m) => notified[m] = 0)
  /\ \A m \in Message, r \in Rule :
       fired[<<r, m>>] \in {0, 1} /\ (notified[m] = 0 => fired[<<r, m>>] = 0)

OwnerProgress ==
  \A w \in Worker :
    /\ pc[w] \in {"priority", "notify"} => notified[Msg(w)] = 0
    /\ pc[w] \in {"rules", "log"} =>
         /\ notified[Msg(w)] = 1
         /\ \A r \in todo[w] : r \in Matches[Msg(w)] /\ fired[<<r, Msg(w)>>] = 0

OwnershipInv == OneOwner /\ EffectsFollow /\ OwnerProgress

\* The consumer implements OncePerMessage: no interleaving of deliveries runs a
\* rule before its message is announced, for a message it does not match, or
\* a second time.
Once == INSTANCE OncePerMessage WITH stored <- {m \in Message : Stored(m)}

ImplementsOnce == Once!OnceSpec

\* A published job is not retried for ever nor stuck behind a dead worker.
EveryJobSettles ==
  \A e \in Event : job[e] = "waiting" ~> job[e] \in {"completed", "failed"}

\* The comment at events.processor.ts:151-157: a BullMQ job retried after a
\* crash mid-processing finds its message stored, and "a duplicate is a safe
\* no-op".  It is safe only if what the first attempt had still to do is done.
\* The code does not satisfy it.
Settled(m) == \A e \in Event : MsgOf[e] = m => job[e] \in {"completed", "failed"} /\ Orphan(e)

DuplicateIsSafeNoOp ==
  \A m \in Message :
    Settled(m) /\ (\E e \in Event : MsgOf[e] = m /\ job[e] = "completed")
      => m \in clocked /\ \A r \in Matches[m] : fired[<<r, m>>] = 1
============================================================================
