--------------------------- MODULE LinkedAccounts ---------------------------
(***************************************************************************)
(* The linked accounts of one Telegram bot or mailbox in one workspace:    *)
(* connect and disconnect, the periodic sweep (the drain of Telegram's     *)
(* reconciliation, the poll of email), webhook delivery and the            *)
(* credentials store.  Requests and sweeps interleave call by call and may *)
(* die at any step; only the two reads of getSecret, and the read and the  *)
(* deletion of deleteSecret, are one step each.                            *)
(*                                                                         *)
(* The provider is Telegram: a queue of updates that a webhook or a drain  *)
(* empties.  A mailbox is one whose webhook is never set and that forgets  *)
(* nothing.  Slack's and Discord's sweeps are other programs (their cursor *)
(* is a channel, not a message) and are not modelled.                      *)
(***************************************************************************)
EXTENDS Naturals, Sequences, FiniteSets

CONSTANTS
  Request, Sweep,
  MaxConnects,  \* bound on the secrets ever put
  MaxMessages,  \* bound on the messages the provider receives
  MaxFaults     \* bound on the deaths of requests and sweeps, and on failing calls;
                \* setting and deleting a webhook best effort may always fail

ASSUME LinkedAccountsAssumption == {MaxConnects, MaxMessages, MaxFaults} \subseteq Nat

VARIABLES
  account,   \* linked_accounts rows, in the order of their creation
  secret,    \* ids of the secret_records rows
  nextRef,   \* secrets put so far
  webhook,   \* account whose URL the provider calls, 0 without webhook
  arrived,   \* messages 1..arrived have reached the provider
  pending,   \* those still queued there
  published, \* messages EventsService.publish has accepted
  dropped,   \* messages the webhook answered 200 and threw away
  req, sweep,
  faults,
  torn,      \* history: secrets whose connect or disconnect stopped half way, or
             \* whose deletion failed
  stale      \* history: a webhook was left or put back on a closed account

providerVars == <<webhook, arrived, pending, published, dropped>>
vars == <<account, secret, nextRef, providerVars, req, sweep, faults, torn, stale>>

\* LIFECYCLE_TRANSITIONS.
Transitions == [
  registered      |-> {"authenticating"},
  authenticating  |-> {"syncing_initial", "error"},
  syncing_initial |-> {"active", "error"},
  active          |-> {"degraded", "reauth_required", "disconnecting"},
  degraded        |-> {"active", "error", "reauth_required", "disconnecting"},
  reauth_required |-> {"authenticating", "disconnecting"},
  error           |-> {"disconnecting", "authenticating"},
  disconnecting   |-> {"disconnected"},
  disconnected    |-> {}]

Ids == 1..Len(account)
Open(a) == ~account[a].deleted
Idle == [pc |-> "idle", id |-> 0, ref |-> 0]
Resting == [pc |-> "idle", id |-> 0, url |-> 0, high |-> 0, batch |-> {}]

Go(q, from, to) == req[q].pc = from /\ req' = [req EXCEPT ![q].pc = to]
End(q, from) == req[q].pc = from /\ req' = [req EXCEPT ![q] = Idle]
Continue(s, from, to) == sweep[s].pc = from /\ sweep' = [sweep EXCEPT ![s].pc = to]
Fault == faults < MaxFaults /\ faults' = faults + 1

----------------------------------------------------------------------------
\* connect, callback.

\* The credential is valid and findActiveLinkedAccount finds nothing.
Connect(q) ==
  /\ req[q].pc = "idle" /\ nextRef < MaxConnects
  /\ \A a \in Ids : ~Open(a)
  /\ nextRef' = nextRef + 1
  /\ secret' = secret \cup {nextRef + 1}
  /\ req' = [req EXCEPT ![q] = [Idle EXCEPT !.pc = "create", !.ref = nextRef + 1]]
  /\ UNCHANGED <<account, providerVars, sweep, faults, torn, stale>>

NewRow(ref) == [status |-> "registered", deleted |-> FALSE, ref |-> ref, cursor |-> 0]

\* The partial unique index refuses a second open row: the secret stays.
CreateAccount(q) ==
  /\ \/ /\ \A a \in Ids : ~Open(a)
        /\ req[q].pc = "create"
        /\ account' = Append(account, NewRow(req[q].ref))
        /\ req' = [req EXCEPT ![q].pc = "sync", ![q].id = Len(account) + 1]
        /\ UNCHANGED torn
     \/ /\ \E a \in Ids : Open(a)
        /\ End(q, "create")
        /\ torn' = torn \cup {req[q].ref}
        /\ UNCHANGED account
  /\ UNCHANGED <<secret, nextRef, providerVars, sweep, faults, stale>>

\* initialSync, whose messages are not used, and setWebhook, best effort.  A
\* failing sync leaves the row registered.
InitialSync(q) ==
  /\ \/ Go(q, "sync", "activate") /\ webhook' \in {webhook, req[q].id}
     \/ End(q, "sync") /\ UNCHANGED webhook
  /\ UNCHANGED <<account, secret, nextRef, arrived, pending, published, dropped, sweep,
                 faults, torn, stale>>

Activate(q) ==
  /\ End(q, "activate")
  /\ account' = [account EXCEPT ![req[q].id].status = "active"]
  /\ UNCHANGED <<secret, nextRef, providerVars, sweep, faults, torn, stale>>

----------------------------------------------------------------------------
\* disconnect.

Disconnectable(a) == "disconnecting" \in Transitions[account[a].status]

Disconnect(q, a) ==
  /\ req[q].pc = "idle"
  /\ Open(a) /\ Disconnectable(a)
  /\ req' = [req EXCEPT ![q] = [pc |-> "revoke", id |-> a, ref |-> account[a].ref]]
  /\ UNCHANGED <<account, secret, nextRef, providerVars, sweep, faults, torn, stale>>

\* The account is disconnected, or its webhook has had its one deletion.
Closing(a) ==
  ~Open(a) \/ \E q \in Request : req[q].id = a /\ req[q].pc \in {"deleteSecret", "close"}

\* deleteWebhook, best effort and only with a readable token.
RevokeWebhook(q) ==
  /\ Go(q, "revoke", "deleteSecret")
  /\ \/ req[q].ref \in secret /\ webhook' = 0 /\ UNCHANGED stale
     \/ UNCHANGED webhook /\ stale' = (stale \/ webhook = req[q].id)
  /\ UNCHANGED <<account, secret, nextRef, arrived, pending, published, dropped, sweep, faults, torn>>

\* assertOwnedByWorkspace: the owner is looked for among the open rows.
Owned(ref) == \E a \in Ids : Open(a) /\ account[a].ref = ref

\* Mutant: the secret is kept while the provider still calls.
KeepsSecret(q) == IF webhook = 0 THEN {req[q].ref} ELSE {}

Forgotten(q) == {req[q].ref}

\* A deletion that fails is swallowed: the request goes on.
DeleteSecret(q) ==
  /\ \/ /\ Owned(req[q].ref) /\ Go(q, "deleteSecret", "close")
        /\ \/ secret' = secret \ Forgotten(q) /\ UNCHANGED <<faults, torn>>
           \/ Fault /\ torn' = torn \cup {req[q].ref} /\ UNCHANGED secret
     \/ ~Owned(req[q].ref) /\ End(q, "deleteSecret") /\ UNCHANGED <<secret, faults, torn>>
  /\ UNCHANGED <<account, nextRef, providerVars, sweep, stale>>

Close(q) ==
  /\ End(q, "close")
  /\ account' = [account EXCEPT ![req[q].id].status = "disconnected", ![req[q].id].deleted = TRUE]
  /\ UNCHANGED <<secret, nextRef, providerVars, sweep, faults, torn, stale>>

----------------------------------------------------------------------------
\* One pass of runOnce over one account.

\* Mutant: a degraded account is not swept again.
OnlyActive == {"active"}

Swept == {"active", "degraded"}

BeginSweep(s, a) ==
  /\ sweep[s].pc = "idle"
  /\ Open(a) /\ account[a].status \in Swept
  /\ sweep' = [sweep EXCEPT ![s] = [Resting EXCEPT !.pc = "secret", !.id = a,
                                                   !.high = account[a].cursor]]
  /\ UNCHANGED <<account, secret, nextRef, providerVars, req, faults, torn, stale>>

Readable(s) == account[sweep[s].id].ref \in secret /\ Owned(account[sweep[s].id].ref)

GetSecret(s) ==
  /\ Continue(s, "secret", "info") /\ Readable(s)
  /\ UNCHANGED <<account, secret, nextRef, providerVars, req, faults, torn, stale>>

\* getWebhookInfo: a backlog, or an old delivery error without one, asks for a
\* drain.
CheckWebhook(s) ==
  /\ \/ pending = {} /\ Continue(s, "info", "publish")
     \/ /\ sweep[s].pc = "info"
        /\ sweep' = [sweep EXCEPT ![s].pc = "remove", ![s].url = webhook]
  /\ UNCHANGED <<account, secret, nextRef, providerVars, req, faults, torn, stale>>

\* deleteWebhook, which may fail before or after the provider has acted.
RemoveWebhook(s) ==
  /\ \/ Continue(s, "remove", "updates") /\ webhook' = 0 /\ UNCHANGED faults
     \/ Continue(s, "remove", "putBack") /\ webhook' \in {webhook, 0} /\ Fault
  /\ UNCHANGED <<account, secret, nextRef, arrived, pending, published, dropped, req, torn, stale>>

\* The oldest messages of S, as many as one answer holds.
Pages(S) ==
  {page \in SUBSET S : (page = {} => S = {}) /\ \A m \in page, n \in S \ page : m < n}

Highest(S, c) == IF S = {} THEN c ELSE CHOOSE m \in S : \A n \in S : n <= m

\* getUpdates (for email, fetchMessages) past the cursor, which may tell the
\* provider to forget what is before it.  It conflicts with a webhook.
GetUpdates(s) ==
  LET fresh == {m \in pending : m > sweep[s].high} IN
  /\ \/ /\ sweep[s].pc = "updates" /\ webhook = 0
        /\ \E page \in Pages(fresh) :
             sweep' = [sweep EXCEPT ![s] = [sweep[s] EXCEPT
               !.pc = "restore", !.batch = page, !.high = Highest(page, sweep[s].high)]]
        /\ pending' \in {pending, fresh} /\ UNCHANGED faults
     \/ /\ Continue(s, "updates", "putBack")
        /\ \/ webhook # 0 /\ UNCHANGED <<pending, faults>>
           \/ Fault /\ pending' \in {pending, fresh}
  /\ UNCHANGED <<account, secret, nextRef, webhook, arrived, published, dropped, req, torn, stale>>

\* setWebhook in the finally block, to the URL there was; its error is ignored.
RestoreWebhook(s) ==
  /\ Continue(s, "restore", "publish") \/ Continue(s, "putBack", "failed")
  /\ \/ /\ sweep[s].url # 0 /\ webhook' = sweep[s].url
        /\ stale' = (stale \/ Closing(sweep[s].url))
     \/ UNCHANGED <<webhook, stale>>
  /\ UNCHANGED <<account, secret, nextRef, arrived, pending, published, dropped, req, faults, torn>>

Publish(s) ==
  /\ sweep[s].pc = "publish" /\ sweep[s].batch # {}
  /\ LET m == CHOOSE m \in sweep[s].batch : \A n \in sweep[s].batch : m <= n
     IN /\ published' = published \cup {m}
        /\ sweep' = [sweep EXCEPT ![s].batch = @ \ {m}]
  /\ UNCHANGED <<account, secret, nextRef, webhook, arrived, pending, dropped, req, faults, torn, stale>>

\* Mutant: the cursor is saved before the messages are published.
SavesEarly(s) == sweep[s].pc = "publish"

MaySave(s) == sweep[s].pc = "publish" /\ sweep[s].batch = {}

\* By id: whatever has become of the row, and of its cursor, since the read.
SaveCursor(s) ==
  /\ MaySave(s)
  /\ account' = [account EXCEPT ![sweep[s].id].cursor = sweep[s].high,
                                ![sweep[s].id].status = "active"]
  /\ sweep' = [sweep EXCEPT ![s] = Resting]
  /\ UNCHANGED <<secret, nextRef, providerVars, req, faults, torn, stale>>

\* The catch: statusForReconciliationFailure, also by id.
SweepFails(s) ==
  /\ \/ sweep[s].pc = "secret" /\ ~Readable(s) /\ UNCHANGED faults
     \/ sweep[s].pc = "failed" /\ UNCHANGED faults
     \/ sweep[s].pc \in {"secret", "info", "publish"} /\ Fault
  /\ sweep' = [sweep EXCEPT ![s] = Resting]
  /\ \E status \in {"degraded", "reauth_required"} :
       account' = [account EXCEPT ![sweep[s].id].status = status]
  /\ UNCHANGED <<secret, nextRef, providerVars, req, torn, stale>>

----------------------------------------------------------------------------
\* The provider, and dying processes.

Arrive ==
  /\ arrived < MaxMessages
  /\ arrived' = arrived + 1
  /\ pending' = pending \cup {arrived + 1}
  /\ UNCHANGED <<account, secret, nextRef, webhook, published, dropped, req, sweep, faults, torn, stale>>

\* Mutant: only an account in good order takes messages.
AcceptsActive(a) == Open(a) /\ account[a].status = "active"

\* webhook() looks the account up among the open ones; otherwise it answers
\* 200 and nothing happens.
Accepts(a) == Open(a)

Deliver(m) ==
  /\ webhook # 0 /\ m \in pending
  /\ pending' = pending \ {m}
  /\ \/ Accepts(webhook) /\ published' = published \cup {m} /\ UNCHANGED dropped
     \/ ~Accepts(webhook) /\ dropped' = dropped \cup {m} /\ UNCHANGED published
  /\ UNCHANGED <<account, secret, nextRef, webhook, arrived, req, sweep, faults, torn, stale>>

Crash ==
  /\ Fault
  /\ \/ \E q \in Request :
          /\ req[q].pc # "idle"
          /\ req' = [req EXCEPT ![q] = Idle]
          /\ torn' = torn \cup {req[q].ref}
          /\ UNCHANGED sweep
     \/ \E s \in Sweep :
          /\ sweep[s].pc # "idle"
          /\ sweep' = [sweep EXCEPT ![s] = Resting]
          /\ UNCHANGED <<req, torn>>
  /\ UNCHANGED <<account, secret, nextRef, providerVars, stale>>

Init ==
  /\ account = <<>> /\ secret = {} /\ nextRef = 0
  /\ webhook = 0 /\ arrived = 0 /\ pending = {} /\ published = {} /\ dropped = {}
  /\ req = [q \in Request |-> Idle] /\ sweep = [s \in Sweep |-> Resting]
  /\ faults = 0 /\ torn = {} /\ stale = FALSE

SweepStep(s) ==
  \/ GetSecret(s) \/ CheckWebhook(s) \/ RemoveWebhook(s) \/ GetUpdates(s) \/ RestoreWebhook(s)
  \/ Publish(s) \/ SaveCursor(s) \/ SweepFails(s)

Next ==
  \/ \E q \in Request :
       \/ Connect(q) \/ CreateAccount(q) \/ InitialSync(q) \/ Activate(q)
       \/ \E a \in Ids : Disconnect(q, a)
       \/ RevokeWebhook(q) \/ DeleteSecret(q) \/ Close(q)
  \/ \E s \in Sweep :
       \/ \E a \in Ids : BeginSweep(s, a)
       \/ SweepStep(s)
  \/ Arrive
  \/ \E m \in pending : Deliver(m)
  \/ Crash

Spec == Init /\ [][Next]_vars

\* The interval timer keeps sweeping, and a sweep under way goes on.
Fairness ==
  \A s \in Sweep : WF_vars(\E a \in Ids : BeginSweep(s, a)) /\ WF_vars(SweepStep(s))

FairSpec == Spec /\ Fairness

----------------------------------------------------------------------------
\* Properties.

\* The cursor of an account never passes a message that no one published,
\* wherever sweeps fail and die, however few messages a page holds, and whatever
\* the webhook delivers or a request removes meanwhile (the sweeps of Telegram
\* and email publish first, then update).
NothingSkipped ==
  \A a \in Ids : 1..account[a].cursor \subseteq published \cup dropped

\* A secret exists exactly while an open account refers to it, unless the
\* request that was creating or removing the pair is in flight, stopped half way
\* or had its deletion of the secret fail (deleteSecret swallows that).
SecretsMatchAccounts ==
  \A ref \in 1..nextRef :
    \/ ref \in torn \/ \E q \in Request : req[q].ref = ref
    \/ ref \in secret <=> Owned(ref)

\* A message is thrown away only if a deleteWebhook failed, or a drain put back
\* the webhook of an account that was disconnected in the meantime.
DropsNeedStaleWebhook == [][dropped' # dropped => stale]_vars

\* With or without its webhook, an account that stays readable and swept gets
\* every message published in the end.
WaitingIsPublished ==
  \A m \in 1..MaxMessages :
    []<>(m \in published \/ ~\E a \in Ids :
           Open(a) /\ account[a].status \in {"active", "degraded"} /\ account[a].ref \in secret
           /\ m \in pending)
============================================================================
