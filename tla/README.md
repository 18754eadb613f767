# Specifications of Smart Message Center

TLA+ models of the parts of this repository where several actors meet: how
messages are ingested and filed, how timers and scheduled replies fire, how
workspaces, sessions and accounts are owned and left, and how the browser keeps
its own picture of all that. Each module is written from the TypeScript source;
comments name the code where its text matters. Paths below are relative to
`apps/api/src/` unless they start with `packages/`, `apps/` or `docs/`.

## 1. The system

The API is a NestJS service that runs in several replicas
(`docs/ARCHITECTURE.md:445`). Its state is in Postgres (through Prisma) and in
Redis (BullMQ queues and counters). Every handler is an `async` function:
between two awaits any other handler, of this process or of another, may run.
Little is in a transaction, so the unit of atomicity is one SQL statement or
one Redis command; the transactions on the paths modelled are those of
`resolveIdentity`, `acceptInvite`, `transferOwnership`, `deleteWorkspace`,
`resetPassword`, `approveMergeSuggestion` and `splitContact`. The web client is
one page per tab; its functions too are cut at their awaits, and what they read
after one may not be what they read before.

| Component | State | Operations | Talks to | What makes it correct |
| --- | --- | --- | --- | --- |
| Event ingestion (`events/`, `packages/identity/src/index.ts`) | `contact_identities`, `conversations`, `messages`, queue `events` | publish, handleMessageReceived | rules, realtime, scheduler | stored once, announced and acted on at most once, nothing swallowed |
| Rule execution (`automation/rule-execution.service.ts`, `packages/automation-engine/src/actions.ts`) | `rule_execution_logs`, `conversations.tags` | runRule, executeScheduledTrigger, executeActions, applyTag | action ports | a rule runs once per trigger; its log is true; tags survive |
| No-reply scheduler (`automation/scheduler.service.ts`) | `scheduled_jobs`, queue `scheduled-jobs` | scheduleNoReplyRules, cancelNoReplyRules, fire | rule execution | a retired timer stays quiet, row and job agree |
| Scheduled messages (`automation/scheduled-message.service.ts`, `conversations/message-send.service.ts`) | `scheduled_messages`, queue `scheduled-messages` | schedule, cancel, fire, send | provider, scheduler | one delivery, a cancellation holds, the status tells the truth |
| Rules API and preferences (`automation/rules.controller.ts`, `notification-preferences/`) | `rules`, `notification_preferences` with a version | create, get, update, remove | - | no edit is lost |
| Membership (`workspaces/workspace-membership.*`) | `workspace_members`, `workspace_invites` | invite, accept, change, remove, leave, transfer | sessions, realtime | exactly one owner, single-use invites |
| Workspace deletion (`workspaces/workspace-deletion.service.ts`) | all tables of a workspace | deleteWorkspace | connectors, queues, sockets | atomic, never takes members when asked not to |
| Sessions and password reset (`auth/`) | `sessions`, `password_reset_tokens`, `user_credentials` | login, refresh, switch, logout, reset | membership | a token is used once, a dead family stays dead, nobody else is touched |
| Throttles (`auth/login-throttle.service.ts`, `rate-limit/`) | Redis counters | record, isLocked, reset, consume | - | a counter is bounded and its window ends |
| Realtime (`realtime/realtime.gateway.ts`) | rooms of one process | handshake, disconnectMember, disconnectWorkspace | membership | only members listen |
| Linked accounts (`telegram/`, `email/`, `credentials-store/`) | `linked_accounts`, `secret_records`, the provider's webhook | connect, disconnect, webhook, sweep | provider, events | nothing skipped, no secret without an account |
| Slack accounts and the Discord sweep (`slack/`, `discord/discord-reconciliation.service.ts`) | the same tables, a channel as cursor | connect, disconnect, webhook, sweep | provider, events | not modelled (section 6) |
| Discord gateway (`discord/discord-gateway-manager.service.ts`, `packages/connector-sdk/src/discord/discord-gateway-client.ts`) | map of handles, sockets and timers | start, stop, reconnect, heartbeat | provider | it listens until it is stopped, and opens nothing after |
| Identity graph (`packages/identity/src/matching.ts`, `merge.ts`, `split.ts`) | contacts, suggestions | match, approve, reject, split | ingestion | no identity or message on a contact that is gone; a rejection stands |
| AI credits (`ai/`) | `ai_credit_ledger` | grant, consume, enrich | provider | the latest balance is not negative, every answer paid |
| Web outbox (`apps/web/lib/offline-queue.ts`, `apps/web/public/sw.js`) | IndexedDB store | enqueue, flush | API | a queued reply is sent, once |
| Web inbox (`apps/web/components/Inbox.tsx`, `apps/web/lib/inbox-pagination.ts`, `conversations/conversations.controller.ts`) | list, open conversation, cursors, request generations | load, load more, merge, switch, reply | API, socket | the list and the conversation are whole |
| Web authentication (`apps/web/lib/api.ts`, `apps/web/app/page.tsx`) | access token per tab, shared cookie | refresh, switch, join, create, log out | sessions | one refresh at a time, the view matches the token |

How they interact: a connector publishes a `message.received` envelope
(`EventsService.publish`); a worker consumes it (`EventsProcessor`), files it
under its sender's contact, runs the rules and then starts or stops the
no-reply clock of the conversation. A reply, sent now or scheduled, also stops
that clock (`MessageSendService.send`). Membership decides what sessions and
sockets may do, and removes them after the fact. `WorkspaceDeletionService`
erases everything under the lock that ownership transfer also takes, after it
has cleaned up the connectors and before it closes the sockets. The socket
nudges the client, which then fetches.

The hard behaviours are: BullMQ runs a job again when its lock lapsed, even if
the first worker still runs; a worker may die at any await; a row and a job, a
secret and an account, a counter and its expiry are written one after the
other; reads are used after an await; a request acts on a role, a membership, a
cookie or a filter that has changed since; answers resolve in another order than
they were asked for. `PROJECT.json` lists each place under "hazards".

## 2. Modules

| Module | Models |
| --- | --- |
| `OncePerMessage` | abstract: what consumption of one message promises |
| `Ingestion` | `EventsService.publish`, the queue, `handleMessageReceived`, `resolveIdentity`, `runRule` |
| `RuleActions` | `executeActions`, the ports of `buildPorts`, the log of `runRule` |
| `NoReply` | `SchedulerService` and `executeScheduledTrigger` for one conversation |
| `ScheduledMessages` | `ScheduledMessageService` and `MessageSendService.send` |
| `VersionedEdits` | `RulesController` and `NotificationPreferencesController`: ETag and If-Match |
| `Membership` | `WorkspaceMembershipService`, `WorkspaceDeletionService` and the guards, for one workspace |
| `Sessions` | `SessionService`, the session half of `AuthService`, `PasswordResetService` |
| `Throttle` | `LoginThrottleService`, `RateLimitService` |
| `Sockets` | `RealtimeGateway` against removals, in several processes |
| `Credits` | `AiCreditsService`, `AiEnrichmentService`, the paying requests of `AiController` |
| `LinkedAccounts` | connect, disconnect, webhook and sweep of one Telegram bot or mailbox, with its secret |
| `Gateway` | `DiscordGatewayManagerService` and `connectDiscordGateway` |
| `IdentityGraph` | `IdentityMatchingService`, merge, split, and the filing of messages meanwhile |
| `Outbox` | `handleReply`'s queue and the service worker's `flushOutbox` |
| `MessagePane` | the open conversation of `Inbox.tsx` over `ConversationsController.messages` |
| `ConversationList` | the list of `Inbox.tsx` over `ConversationsController.list` and `buildPage` |
| `ClientAuth` | `lib/api.ts` and `app/page.tsx` of several tabs over one cookie |
| `MCIngestion`, `MCMembership`, `MCScheduledMessages` | instances: event contents, symmetry |
| `MCLinkedAccounts`, `MCClientView` | instances with a bound on the behaviour: connections and messages together, or one request at a time and no failure |
| `MCServices`, `MCContacts`, `MCClient` | compositions of components that share one run |
| `RecordsProofs` | theorems about `VersionedEdits`, `RuleActions`, `IdentityGraph` and `LinkedAccounts` |
| `ConnectionsProofs` | theorems about `Sessions`, `Sockets` and `Gateway` |
| `CountersProofs` | theorems about `Credits` and `Throttle` |
| `ClientProofs` | theorems about `Outbox`, `ClientAuth`, `MessagePane` and `ConversationList` |
| the other `*Proofs` | theorems about the module of that name |

Conventions. One action is the code between two awaits that reach Postgres,
Redis, a provider or the API; a per-actor `pc` names the await that comes next.
A rejected query is an action or a disjunct of its own, and so is the death of
a process. A variable commented "history" decides nothing the code decides: it
remembers which race has happened, so that a property can say "unless". (Two of
them, `joined` in `Sessions` and `moved` in `ConversationList`, also carry a
bound; `joined` says besides whom the instance lets register.) A
definition called "Mutant" at its head is used by no specification: it states a
plausible mistake in the definition below it, and shows that a property would
notice.

The three compositions put components side by side that share no state in the
code (or only through actions each of them has, as the removal of a member).
Interleaving them would multiply their states and show nothing, so a variable
`focus`, drawn in the initial state, says whose behaviour this is, and the
others keep their initial states. What components do share is inside one
module: the filing of messages and the merge in `IdentityGraph`, sessions,
memberships and resets in `Sessions`, the list's endpoint and its client in
`ConversationList`, the refresh endpoint and the tabs in `ClientAuth`.

BullMQ is modelled by what the code relies on. A job is waiting or delayed,
active, or finished; a worker that takes it holds a lock; when nobody renews
the lock, the stalled check returns the job to the queue, `maxStalledCount` (1)
times, then fails it; a worker that lost its lock can neither complete nor fail
the job; `add` does nothing when the id exists; `remove` does nothing to a
locked job.

### Ingestion

`job`, `attempts`, `stalls` and `lock` are the queue; `cur`, `contact`, `seen`,
`todo`, `trigger` and `running` are locals of the handler; `identity`, `conv`,
`stored` and `ruleLog` are tables; `notified`, `fired` and `clocked` are what
the outside world sees. The actions follow the handler:

`Take`, `ResolveIdentity` and `CreateContact` (a transaction with a unique
index), `UpsertConversation` (on every delivery), `CheckDuplicate`,
`CreateMessage` (unique index), `UpdatePriority`, `Notify` (emission, a fresh
`RULE_TRIGGERED` id, the lookup of rules), `RunRule` and `LogRule` per matched
rule, `UpdateClock`, `Complete`.

`Matches`, `ScoreOf` and the other constants are functions of the payload: what
the condition tree and the priority score compute does not matter here, only
that they are determined by it.

### NoReply

One row and one job name per rule. `Schedule`, `UpsertTimer`, `ReplaceJob`,
`AddJob` are the loop of `scheduleNoReplyRules`; `Cancel`, `UnqueueJob`,
`MarkCancelled` that of `cancelNoReplyRules`; `Take`, `ReadTimer`,
`CompleteTimer`, `ExecuteRule`, `LogExecution`, `EndJob` are `fire`. An update
by an id that an upsert has replaced rejects (Prisma's P2025). `dead`, `lapsed`
and `alone` only remember what the properties speak of.

### ScheduledMessages

`Create`, `Enqueue` are `schedule`; `Cancel`, `Unqueue`, `MarkCancelled` are
`cancel`; `ReadScheduled` to `MarkFailed` are `fire` with the parts of `send`
that can fail apart: `Deliver` (may fail after the provider accepted),
`Record`, `AfterRecord`. `inTime` remembers cancellations no firing had
overtaken.

### Membership

A step is one statement under READ COMMITTED. `lock` is `SELECT ... FOR
UPDATE` on the workspace row; an insert into a table that references the
workspace waits for it (`CreateInvite`, `CreateMember`); `claim` is the row lock
of an invite a transaction has updated. `Begin` is `JwtAuthGuard`, which reads
the role once; `ReadTarget` then `ChangeRole` or `RemoveMember`, and `ReadSelf`
then `Leave`, are the handlers without a transaction. `row` carries the ids of
member rows, so that a write by id misses a member who was removed and joined
again. `DeadlockVictim` is Postgres aborting one of two transactions that wait
for each other.

### Sessions

A refresh token is the id of its `sessions` row. `Login` and `Join` end in
`Issue`; `Refresh` and `SwitchWorkspace` are `rotate`, in the order of its
statements: `ReadPresented` (owner, then reuse), `RevokePresented` or
`RevokeFamily`, `CreateSuccessor`. `held` is what responses have put in a
cookie; a response may be lost. `ReadToken` and `CommitReset` are the reset,
whose transaction claims the token by `usedAt: null`. Expiry of a row is its
not being presented any more. `raced` remembers rows that two rotations had
both read as live.

### Throttle, Credits, Sockets

Every Redis command is a step of `Throttle`: `CheckKey`, `IncrKey`,
`ExpireKey`, `DelKey`, `ReadTtl`. `Credits` abstracts the ledger to the balance
of its latest row and the sum of all amounts; `ReadBalance` and `AppendRow` are
two steps, a request pays before the provider is asked (`requireCredit`) and an
enrichment after. `Sockets` cuts `handleConnection` at its query
(`ReadMembership`, `JoinRooms`) and `removeMember`, `leave` and
`deleteWorkspace` between the commit and the call of the gateway of their own
process, which closes the sockets (`CloseSockets`) or fails, as the gateway
catches and logs: the property names the members left connected by that.

### Gateway

`EnterStart`, `GetSecret`, `Listen` are `start` with the check of the map
before its await and the `set` after it. Under it `TimerFires`, `Hello`,
`Reconnect`, `WsCloses`, `OlderCloses`, `InvalidSession` and `Stopped` are the
client: `ws` is the latest socket, `older` counts earlier ones that are still
open, because INVALID_SESSION reconnects without closing. `ws.close()` only
begins the closing handshake (`ClosedBy`); until the close event (`WsCloses`)
the socket is "closing" and its listeners run, after `stop()` too. The message
listener (`discord-gateway-client.ts:82-134`) does not look at `stopped`, so
what arrives on a closing socket is still published. `StopSilences` therefore
says that a stopped account has no connection but a closing one and gets no
other, not that it hears nothing from the moment of `stop()`. `DeletionRefused`
is a workspace that lives on after its connectors were cleaned up; that its
gateway stays stopped is modelled and denied by no property.

### LinkedAccounts

The account is a Telegram bot: a queue of updates at the provider, which a
webhook (`Deliver`) or a drain empties. A mailbox runs the same handlers
without the webhook: the cursor is a UID instead of an update id, nothing is
forgotten by the provider, and a page is limited (`Pages`). Messages the two
sweeps filter out (a mailbox's own, updates that are no message) are not among
the model's messages. Slack's and Discord's sweeps are other programs and are
not modelled (section 6).

`Connect`, `CreateAccount`, `InitialSync`, `Activate` are `connect`;
`Disconnect`, `RevokeWebhook`, `DeleteSecret`, `Close` are `disconnect`.
`BeginSweep` reads the row; then each call of the sweep is an action:
`GetSecret`, `CheckWebhook` (drain or not: a backlog asks for one, and so may
an old delivery error), `RemoveWebhook`, `GetUpdates`, `RestoreWebhook` (the
`finally`, on both paths: "restore" goes on, "putBack" ends in the catch),
`Publish` per message, and `SaveCursor` or `SweepFails`, both by id. A call of
the provider may fail before or after it took effect. `DeleteSecret` may fail
and be swallowed (`credentials-store.service.ts:113`): the request goes on and
closes the account, and the secret stays; `torn` has it.

Two pairs of statements are one step: the two reads of `getSecret` (row and
owner), and the ownership check of `deleteSecret` with its deletion. What may
fall between them is a disconnect that deletes the same secret and closes the
same row; it leaves the tables as if it had come before or after.

### IdentityGraph

A merge is `Review` (the check outside the transaction), `Reassign` (locks the
rows it updates), `Retire` and `CommitMerge` or `RollBack`. `Retire` is
visible at once and stays, because the soft-delete extension sends
`tx.contact.delete` through the client outside the transaction. A message is
filed in two steps, `Resolve` and `FileMessage`, with the contact resolved in
the first. The sweep is `BeginMatching` (a candidate pair), `LookUp` (its
`findFirst`) and `Suggest` (its `create`), so that two sweeps, or a sweep and a
review, may fall between; `raced` remembers the pairs two sweeps had looked up
at once, and those whose rejection met a suggestion that was not pending any
more (`rejectMergeSuggestion` writes by id). A contact is assumed to have at
most one identity per provider.

### RuleActions, VersionedEdits

A chain's step is applying a tag (`ReadTags`, `WriteTags`: a read and an
overwrite of the array), or acts outside, or is malformed. A message or a
notification (`Outside`) may be reported as an error although it took effect.
A `Webhook` is a success whatever the other side answers: `callWebhook`
(`rule-execution.service.ts:336-347`) returns the status and does not look at
it. A `Malformed` step has params that are missing or not strings, which
`rule-validation.ts:63-67` does not check; they are rendered before
`executeStep`'s `try` (`packages/automation-engine/src/actions.ts:7-10`), so
the exception ends the chain and `runRule` logs a failure with no actions
(`rule-execution.service.ts:130-135`), although earlier steps may have taken
effect (`Throws`). The comment at `actions.ts:5` says of `executeStep` "Never
throws - a failing action becomes an `error` ActionResult"; the model follows
the code, and `LogsTellTruth` names both exceptions (`LogIsEmpty`, `Webhook`).

In `VersionedEdits` a field's content is the version that wrote it: a rule is
written whole from what the request read, preferences only where fields were
sent; the If-Match version is that of the editor's page.

### Outbox, MessagePane, ConversationList, ClientAuth

In `Outbox` the storing of a reply and the registration of its sync are one
step. In the code the put may commit and the registration reject
(`offline-queue.ts:43-46`): the page then says it could not queue the reply and
keeps the text, and sending it again is another reply to the model.

The client's functions, cut at their awaits. `gen` and `listGen` are the
request ids of `Inbox.tsx`; a call remembers the generation, conversation and
filter of its beginning, and the action after the await compares what the code
compares. The server's side is one step per request (`Answer`, `List`,
`Rotate`), since what it returns is one query; the rotation itself is taken
apart in `Sessions`. In `ClientAuth` a login is into `Home`, the user's oldest
membership (`AuthService.login` orders by `joinedAt`). It is a constant: that a
user who lost that membership logs in to the next is left out, and which
workspace a session is for decides nothing `CookieIsLive` speaks of. A refresh
or boot may rotate its token and then find the membership gone: a 401 without a
cookie (`AuthService.refresh`, 262-276), after which the browser keeps the
revoked one. `RevokeAll` is a logout everywhere or a password reset elsewhere.
`ended` remembers the sessions the server took away in these two ways. The
deletion of a workspace also deletes its sessions
(`workspace-deletion.service.ts:216`); a cookie without a row is refused like a
revoked one, and that third way is left out.

In `MessagePane` a message is its conversation and its number there, so a page
is an interval of numbers, and `pane` is a sequence of stretches: what each
page added (`New`, the deduplication), before or after what was there
(`MergeOlder`, `MergeNewest`). `torn` notes the one way a pane gets a gap
without a mistake of the client, a page that does not touch what is shown
(`Tears`). In `ConversationList` pages and the list are sets, since a property
can only speak of which rows are on it: `FirstOf` is what the ordered query
returns, `NextOf` the cursor of its last row, and a key stands for the tuple
the rows are ordered by (`lastMessageAt` is nullable in the schema, but every
write sets it, so the tuple orders them totally).

## 3. Runs

| Run | Question | Bounds |
| --- | --- | --- |
| `ingestion` | Is one message acted on at most once, as `OncePerMessage` says, and does its job end? | 2 events for 1 message, 2 workers, 2 rules (1 matches), 2 attempts, 1 stall |
| `ingestion_retry` (violation) | Does a retry do what the first attempt had left? | as `ingestion` |
| `contacts` | Is anything swallowed, a sender split, an identity or a message stranded, a log untrue? | 2 first messages of 1 sender with one id in 2 conversations; 2 chains of 2 steps; 2 identities, 2 reviewers, 1 sweep, 1 filing after the suggestions are found, 3 contacts, 2 suggestions |
| `services` | Do sessions, throttles, sockets, ledger, gateway, timers and versioned edits keep their promises? | 2 users, 2 workspaces, 2 requests, 3 sessions, 4 rows, 1 reset token; counts to 4, 1 crash; 2 sockets, 2 processes, 1 remover; ledger of 4; 2 gateway clients, 2 older sockets; 1 rule, 2 callers, 2 workers, 3 timers, 2 faults; 2 editors, version 4 |
| `no_reply_lost` (violation) | Does a pending row have its job? | 1 rule, 1 caller, 1 worker, no fault |
| `scheduled_messages` | One delivery, cancellation, truthful status, settlement | 1 message, 2 cancels, 2 workers, 3 faults |
| `membership` | Owners, invites, guarded deletion | 3 users, 2 invites, 2 requests of any kind |
| `membership_waits` | Do requests that wait for locks end? | 2 users, 1 invite, 2 requests |
| `membership_owner` (violation) | Is there always an owner? | as `membership` |
| `linked_accounts` | Are messages skipped, secrets orphaned; does a sweep publish what waits? | 2 requests, 1 sweep, 2 connections and 1 message or 1 connection and 2 messages, 1 fault |
| `client` | Are replies sent, pane and list whole, is the cookie live? | 2 flushes of 2 replies; 2 fetches of pages of 2 of 4 messages; lists of 1 of 3 conversations; 2 tabs, 2 workspaces, 3 tokens |
| `client_view` (violation) | Does a tab show the workspace its token is for? | 1 tab, 1 request at a time, no failure, no revocation |

Why the bounds are enough. Every race in these components is between two
actors on one row, one job or one cookie: two deliveries, a call and a firing, a
write and a transfer, two rotations, two answers. Two of each actor reach them;
a third user lets an admin, a member and an owner meet; three timers let a call
replace a timer that has replaced another; three contacts let one merge's
survivor be another's victim; a page of two out of four has a next page whose
neighbours may have moved. `MaxAttempts` of `Ingestion` is 2 instead of 5,
because a retry meets the same tables whichever it is; in `Throttle` the limit
is 2 and the counter runs to 4, past it. `MaxStalls` is BullMQ's default.
`MaxTimers`, `MaxSessions`, `MaxRows`, `MaxTokens`, `MaxLedger`, `MaxContacts`,
`MaxVersion` and the like bound the ids and counters a behaviour may draw;
`MaxFaults` and `MaxThrottleCrashes` bound crashes, rejections and lapsed
locks. The theorems of section 4 do not have these bounds.

The `linked_accounts` run has one sweep. The timers that start a sweep do not
wait for the previous one, and replicas each have theirs; two sweeps, with one
request and two messages, do not fit a run that also checks liveness and are
not part of it. Two messages let a page end before the last (`Pages`), two
connections let a secret and a webhook outlive their account; both together
(`MaxTotal`) show nothing that neither shows. The `contacts` run has one sweep
of suggestions, and the message is filed after it has found them (`SweepsFirst`),
before, between or after the merges; the two touch nothing in common. The
theorems are for any number of sweeps and filings in any order.

`CHECK_DEADLOCK FALSE` is set in every configuration: all events may have been
handled, all ids drawn, the workspace deleted, and then the system rightly
rests. Symmetry is used only in runs without liveness and only over sets whose
members no constant tells apart. In the compositions one set of model values
stands for the actors of several components; that is sound because one
component moves per behaviour.

What the violations show:

- `ingestion_retry`: a handler that fails after `message.create` is retried as
  a duplicate; notification, rules and clock of that message never happen.
- `no_reply_lost`: a message that arrives while the previous timer fires leaves
  a pending row without a job.
- `membership_owner`: a role change that read its target before a transfer to
  that target leaves no owner.
- `client_view`: one tab, whose requests follow one another and all succeed.
  Creating a workspace gives the tab a token for it, but the browser keeps the
  cookie of the old session; the next refresh silently returns the tab to the
  old workspace's token while it shows the new one.

Fairness. `Ingestion`: workers run and take waiting jobs, delayed jobs are
promoted, and a job whose worker is gone is found; nothing is fair about
publishing, throwing, crashing, or stalling a job whose worker lives.
`ScheduledMessages`: the same for calls that have begun. Node runs every
pending continuation and BullMQ polls, so weak fairness per actor is what the
runtime gives. `Membership`: strong fairness for the statements of a request
that has begun, because Postgres queues lock waiters and so a waiter is not
overtaken for ever; weak fairness for breaking a deadlock. `LinkedAccounts`:
weak fairness for beginning a sweep (`setInterval`) and for each statement of
one that has begun. The other modules state safety only: `NoReply` because with
`no_reply_lost` there is no promise to check that the code keeps, the rest
because their actors owe nobody an answer but the one who asked.

## 4. Proofs

The theorems hold for all values of the constants allowed by the named
assumptions (`IngestionAssumption`, `NoRowAssumption`, `NoReplyAssumption`,
`ScheduledAssumption`, `MembershipAssumption`, `SocketsAssumption`,
`GatewayAssumption`, `CreditsAssumption`, `ThrottleAssumption`,
`VersionedEditsAssumption`, `SessionsAssumption`, `RuleActionsAssumption`,
`IdentityGraphAssumption`, `LinkedAccountsAssumption`, `OutboxAssumption`,
`MessagePaneAssumption`, `ConversationListAssumption`, `ClientAuthAssumption`).
These say that the null values are none of the real ones, that bounds are
natural numbers, that the sets of a ledger's tasks, of a throttle's requests,
of identities and of conversations are finite, that a lockout limit and the
size of a page are positive (`parseLimit`), and, for `Ingestion`, that a
conversation and an external id identify a message. TLC evaluates all of them
in the runs.

Every safety invariant and every action property that a passing run checks is
stated by one of the theorems below.

`IngestionProofs`
- `IngestionTyped`. Type correctness needs `HasConversation`: `UpdatePriority`
  reads the row that `UpsertConversation` made.
- `EffectsAtMostOnce`. "At most once" is not inductive: nothing in the counters
  says that the next worker will not count again. `OwnershipInv` adds that a
  worker past the insert is the only one there for its message, because the row
  it created turns every later delivery away; that effects of a message follow
  its row; and that rules still in `todo` have not run.
- `AcknowledgedIsStored`. A job is completed only from `done`, which is reached
  through the row; the lemma `DuplicateIsStored` is where the identity of
  messages is used.
- `SenderHasOneContact`, through `ContactInv`: a worker past the resolution has
  in its local the contact the sender's identity names, for the unique index
  lets one `CreateContact` of a sender through.
- `IngestionImplementsOnce`, the refinement: under the mapping of the `INSTANCE`
  every step of the consumer is a step of `OncePerMessage` or leaves its
  variables alone (`StepImplements`). It rests on the invariant of
  `EffectsAtMostOnce`, without which a second worker could announce again.

`NoReplyProofs`
- `NoReplyTyped`, and `RetiredTimersStayQuiet` through `RetiredInv`: a dead
  timer is no pending row's id and no worker got past reading it; since ids are
  drawn once, it can never come back.
- `TimersFireOnce`, through `OnceInv`: a timer has fired only once its row has
  left "pending", and until then at most one worker, the one whose lock has not
  lapsed (`LockInv`), is past its read. No two rules share an id (`OwnInv`).
- `LoneCallsRepair`, an action property, through `LoneInv`: while nothing
  overlaps a call, what it has read and what it has written are still so.

`ScheduledMessagesProofs`
- `ScheduledTyped`, and `InTimeCancelsHold` through `InTimeInv`: a message in
  `inTime` is not pending any more, has not been delivered, and no worker is
  past its read.
- `OneDeliveryPerStall`, through `BudgetInv`: deliveries made, workers that may
  deliver, a waiting job and a job still to be added are together one, and one
  more for each stall. The count is of a set of workers of any size.
- `SentMeansRecorded`, through `RecordInv`: rows recorded and workers about to
  record are together no more than deliveries, and "sent" is written after.

`MembershipProofs`
- `MembershipTyped`, with `ParamInv`: which parameters a request has at which
  statement.
- `NeverTwoOwners`, `GuardedDeleteSafe`, `OwnerLossExplained` from one
  invariant, `OwnerInv`. The lock makes one request at a time pass from
  verification to commit (`LockInv`). Between the two nobody but the actor of a
  transfer can be owner (`TransferInv`; the actor itself may have lost the role
  to an unlocked handler, which is how a workspace loses its owner but never
  how it gets two), and a guarded deletion stays alone (`GuardInv`), because
  an insert of a member waits for the lock. An unlocked handler about to write
  was not aimed at the owner unless a transfer has overtaken it (`WriteInv`).
- `InviteAdmitsOne`, through `InviteInv`: a request about to insert holds the
  invite's row lock, and an invite has been joined only if it is used or erased.

`ConnectionsProofs`
- `OnlyMembersListen`, through `RoomsInv`. The property speaks of sockets in a
  room; the invariant adds what a handshake between its query and its join has
  read, which still holds or has been overtaken by a removal that the property's
  history notes (`AdmittedInv`).
- `GatewayAlwaysListens` and `StopAlwaysSilences`, through `GatewayInv`. Until
  its session is declared invalid a client has one socket or one reconnect to
  come, never both, and once stopped no socket but a closing one
  (`SoundClient`); unless a start
  was overtaken, one start runs, for an active account without a handle, and
  only the handle's client runs (`OneStart`), so stopping the handle stops all.
- `ForksNeedOverlap`, `SessionsBelongToMembers`, `TokensCountOnce`,
  `DeadStaysDead` and `OthersAreUntouched` from `SessionsInv`. A family that
  never had two rotations past their reads at once has one live row, or one
  rotation that is about to make its successor, and not both (`FamiliesInv`);
  ids are drawn once, so a row's family and user never change (`RowsInv`); what
  a request has proved about itself stays what it writes (`RequestsInv`,
  `MembersInv`); a consumed token and a transaction that holds it exclude each
  other (`ResetInv`).

`CountersProofs`
- `LedgerAlwaysHolds`, through `CreditsInv`. A task about to append was allowed
  to by a balance that is the latest row's, unless appends have overlapped
  (`AppendsInv`); so without overlap the balance stays the sum of the amounts
  (`BooksBalance`), and at any time there are no more paid answers and results
  under way than charges (`PaidInv`, a count of a finite set).
- `CountersStayBounded`, through `CountersInv`. A counter and the requests that
  found it below the limit and have yet to count are together less than the
  limit and the number of requests (`GuessInv`); a bucket without a window is
  explained by the dead and by requests about to give it one (`HealInv`).

`RecordsProofs`
- `NoEditIsLost`, through `EditsInv`. An editor's request has read a version
  between its page's and the row's, and equal versions have equal fields
  (`BaseInv`); the conditional update then rules out everything in between.
- `ChainsAlwaysTellTruth`, through `ChainInv`. Until a malformed step throws its
  results away, a run has one result for each step it is past, and what it
  reported as a success took effect or was a webhook (`ResultsInv`); the lemma
  `StatusTellsAll` turns the status, which counts results, into what became of
  every step.
- `NobodyIsStranded` and `MessagesStayWithTheirSender`, through `GraphInv`. The
  lists a merge has read are all that the absorbed contact has, unless another
  merge chose that contact as its survivor (`MergesMoveAll`), and they hold the
  messages of the identities it moves and of no others (`MergesMoveMessages`);
  a filing in flight knows its sender's contact (`FilersKnow`). Row locks keep
  the first from two merges that move the same identity.
- `RejectionsStand`, an action property, through `LookingInv`: between the look
  and the insert of a sweep the pair has neither a pending nor a rejected
  suggestion, and no other sweep has looked it up, unless the pair has raced;
  and a pending row becomes rejected only by a review (`DecidedPairs`).
- `CursorsSkipNothing`, `SecretsStayMatched` and `DropsAreStale`, through
  `LinksInv`. A message that is not pending was published or dropped, and what
  a sweep is about to acknowledge it has published or holds (`CursorInv`). Two
  rows never share a secret and a connect under way is alone with its row, which
  no sweep and no disconnect can take before it is active (`SecretsInv`); only
  `stale` leaves the webhook with an account that is gone (`WebhookInv`). A page
  holds the oldest messages, so that its highest is a cursor with nothing
  unpublished below it (`HighestFacts`).

`ClientProofs`
- `RepliesAreDelivered`, through `OutboxInv`. A reply nothing went wrong with is
  in the hand of one flush (`AloneInv`) and, once accepted, is on its way out of
  the outbox and in nobody's list (`LeavingInv`).
- `CookieStaysLive`, through `AuthInv`. Unless something excuses it, one request
  at a time uses the cookie, presented the one of now, and brings a live one
  back (`SingleFlight`), or the server has ended the session it is for, which
  also a revocation of all sessions at any moment keeps true
  (`RevokeAllHolds`).
- `PaneStaysWhole`, through `PaneInv`. Of the fetches of the current generation
  one at most is a select and one a load of older messages, never both, and the
  load ends just before the cursor (`SelectAlone`, `OlderAlone`), which is that
  of the first message shown (`CursorShown`); a page is the interval its answer
  was cut from (`FetchesTypeOK`). So whatever resolves last, the intervals join:
  `MergeOlder` puts one before the cursor, and `MergeNewest` one that overlaps
  or follows what is shown unless it `Tears`. The lemmas `OlderShown` and
  `NewestShown` say what prepending and appending a stretch does to the rows of
  every conversation and to their order.
- `ListStaysWhole`, through `ListInv`. A page that is up to date has every
  conversation between its two cursors that has not moved since the fresh load
  (`PagesComplete`); one fresh load or one "Load more" is current, the latter
  from the boundary (`FreshAlone`, `MoreAlone`), and a merge has the handler's
  view (`MergesCaptured`). That a page cut off by rank leaves out only smaller
  keys is proved from the library's theorems on finite sets, with a least
  element for every non-empty set of keys (`LeastExists`).

Only model-checked: liveness (`EveryJobSettles`, `PendingSettles`,
`EveryRequestEnds`, `WaitingIsPublished`), which rests on fairness and ENABLED
and is beyond the prover; and the four violations, which are counterexamples.
What a recursive definition computes for every input needs induction over data,
which the prover cannot instantiate; no module here declares one.

## 5. What is left

1. Overlapping sweeps of several replicas as a run of their own, safety only.
2. The queue cleanup of a deleted workspace (`purgeWorkspaceJobs`) with the
   workers that hold its jobs.
3. Conditions, silent hours and templates as pure functions over bounded
   inputs.

## 6. Not modelled

- Contents: payload mapping of the providers, condition trees, triggers, silent
  hours, templates, AI output, priority weights. The models take what they
  decide as a constant or a choice. One difference was noted in reading and is
  checked by no run: the comment at
  `packages/automation-engine/src/conditions.ts:65` says that a field that
  resolves to `undefined` "makes every operator false", but `not_equals` and
  `not_contains` (lines 44 to 49) are true of such a field, and so is a NOT
  group over a leaf that an absent field makes false: a rule that excludes a
  text also matches events that have none.
- `purgeWorkspaceJobs` after `deleteWorkspace`: whichever job it misses or meets
  finds no row of its workspace.
- Slack's and Discord's sweeps (`slack/slack-reconciliation.service.ts`,
  `discord/discord-reconciliation.service.ts`). Their cursor is the index of a
  channel, and `syncChannels` (`slack-connector.ts:192-247`,
  `discord-connector.ts:168-214`) reads the latest 50 messages of five channels
  and advances: messages older than those pass by unpublished if nothing else
  delivered them. `NothingSkipped` and `WaitingIsPublished` hold of the sweeps
  of Telegram and email only, and nothing is claimed of these two. Slack's
  connect and disconnect have the order of Telegram's and are not modelled
  apart.
- The reply's page that is merged into another conversation
  (`Inbox.tsx:508-509`) is a step of `MessagePane`, but `PaneIsWhole` speaks of
  the open conversation's own messages; the order of the list on the screen, and
  an archived row that stays on it until the next refresh, are no part of
  `ListIsWhole`.
- `deleteWorkspace` is called by nobody with `requireNoOtherMembers` yet;
  `GuardedDeleteSparesMembers` is about the option as the service offers it.
- OAuth `state` and e-mail verification tokens, each a GET and a DEL in Redis or
  one conditional update; accounts registered but never activated; Slack's
  request signatures.
- Dev-only provisioning in the processor, metrics, logs and audit entries.
- Messages that are stored late with an earlier `receivedAt` than the latest of
  their conversation: `MessagePane` numbers messages as they arrive. The pane
  shows such a message after later ones, or not at all, until the conversation
  is opened again.
- Time: delays and expiry are choices (a job may become due whenever it is
  delayed, an invite or a token may be refused whenever it is read).
- Encryption and key rotation of `credentials-store`, mail, health,
  configuration, search.
- The comment at `automation/scheduled-message.service.ts:90` says that cancel
  returns null for a message that has already fired. The update at line 97 is by
  id alone, so a cancellation that `fire` has overtaken after its read writes
  "cancelled" over "sent" and returns the row. `InTimeCancelHolds` states the
  part that holds, and the hazard list notes the rest; no run shows it.
- The user interface apart from the inbox and the tokens (rules, team, people
  and settings forms), the marketing site, and the scripts that drive a running
  API. They are the larger part of the repository's lines and hold no state
  that two actors share: markup, fields, fetches and assertions.
