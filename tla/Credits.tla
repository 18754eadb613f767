------------------------------ MODULE Credits ------------------------------
(***************************************************************************)
(* AiCreditsService and its callers: an append-only ledger of one          *)
(* organization whose rows carry the balance after them, read and appended *)
(* to by concurrent requests and by the enrichment of incoming messages.   *)
(*                                                                         *)
(* A row is abstracted to what later reads see of it: its balanceAfter     *)
(* while it is the latest, and its amount in the sum of all amounts.       *)
(***************************************************************************)
EXTENDS Integers, FiniteSets

CONSTANTS
  Task,         \* concurrent users of the ledger
  Signup,       \* the grant of registration
  MaxLedger     \* bound on the rows

ASSUME CreditsAssumption ==
  IsFiniteSet(Task) /\ Signup \in Nat /\ MaxLedger \in Nat

VARIABLES
  latest,     \* balanceAfter of the latest row
  total,      \* sum of the amounts of all rows
  rows,       \* how many rows there are
  aiEnabled,  \* of the workspace
  task,       \* what each task does next, and what it has read
  results,    \* answers of the provider that have been handed out
  charges,    \* rows of consumption
  forked      \* history: a row was computed from a latest row that was not
              \* the latest any more

creditVars == <<latest, total, rows, aiEnabled, task, results, charges, forked>>

NoTask == [pc |-> "idle", kind |-> "none", amount |-> 0, seen |-> 0, at |-> 0]
At(t, pc) == task[t].pc = pc
MoveOn(t, pc) == task' = [task EXCEPT ![t].pc = pc]
ledgerVars == <<latest, total, rows, charges, forked>>

UpdateSettings ==
  /\ aiEnabled' = ~aiEnabled
  /\ UNCHANGED <<ledgerVars, task, results>>

FirstStep(kind) == IF kind = "enrichment" THEN "look" ELSE "read"

\* requireCredit (kind "request") or enrichMessage reads the workspace.  A
\* grant asks for nothing.
BeginTask(t, kind, amount) ==
  /\ At(t, "idle")
  /\ kind # "grant" => aiEnabled /\ amount = -1
  /\ kind = "grant" => amount > 0
  /\ task' = [task EXCEPT ![t] = [pc |-> FirstStep(kind), kind |-> kind,
                                  amount |-> amount, seen |-> 0, at |-> 0]]
  /\ UNCHANGED <<ledgerVars, aiEnabled, results>>

\* enrichMessage looks at the balance before it asks the provider, which may
\* fail.
LookFirst(t) ==
  /\ At(t, "look")
  /\ \/ latest >= 1 /\ MoveOn(t, "work")
     \/ task' = [task EXCEPT ![t] = NoTask]
  /\ UNCHANGED <<ledgerVars, aiEnabled, results>>

\* Mutant: nobody looks at the balance.
AffordsAll(balance, amount) == TRUE

Affords(balance, amount) == balance + amount >= 0

\* getBalance, and the refusal of consume.
ReadBalance(t) ==
  /\ At(t, "read")
  /\ \/ /\ Affords(latest, task[t].amount)
        /\ task' = [task EXCEPT ![t].pc = "append", ![t].seen = latest, ![t].at = rows]
     \/ /\ ~Affords(latest, task[t].amount)
        /\ task' = [task EXCEPT ![t] = NoTask]
  /\ UNCHANGED <<ledgerVars, aiEnabled, results>>

\* aiCreditLedger.create
AppendRow(t) ==
  /\ At(t, "append") /\ rows < MaxLedger
  /\ latest' = task[t].seen + task[t].amount
  /\ total' = total + task[t].amount
  /\ rows' = rows + 1
  /\ charges' = IF task[t].kind = "grant" THEN charges ELSE charges + 1
  /\ forked' = (forked \/ task[t].at # rows)
  /\ MoveOn(t, IF task[t].kind = "request" THEN "work" ELSE "done")
  /\ UNCHANGED <<aiEnabled, results>>

AfterWork(kind) == IF kind = "request" THEN "done" ELSE "read"

\* The provider answers, or fails (a request has paid already).
ProviderAnswers(t) ==
  /\ At(t, "work")
  /\ \/ MoveOn(t, AfterWork(task[t].kind))
     \/ task' = [task EXCEPT ![t] = NoTask]
  /\ UNCHANGED <<ledgerVars, aiEnabled, results>>

HandOut(t) ==
  /\ At(t, "done")
  /\ results' = IF task[t].kind = "grant" THEN results ELSE results + 1
  /\ task' = [task EXCEPT ![t] = NoTask]
  /\ UNCHANGED <<ledgerVars, aiEnabled>>

TaskDies(t) ==
  /\ ~At(t, "idle")
  /\ task' = [task EXCEPT ![t] = NoTask]
  /\ UNCHANGED <<ledgerVars, aiEnabled, results>>

CreditsInit ==
  /\ latest = Signup /\ total = Signup /\ rows = 1 /\ charges = 0
  /\ aiEnabled = TRUE /\ results = 0 /\ forked = FALSE
  /\ task = [t \in Task |-> NoTask]

CreditsNext ==
  \/ UpdateSettings
  \/ \E t \in Task :
       \/ LookFirst(t) \/ ReadBalance(t) \/ AppendRow(t) \/ ProviderAnswers(t)
       \/ HandOut(t) \/ TaskDies(t)
       \/ \E kind \in {"request", "enrichment", "grant"}, amount \in {-1, 2} :
            BeginTask(t, kind, amount)

CreditsSpec == CreditsInit /\ [][CreditsNext]_creditVars

----------------------------------------------------------------------------
\* The latest balanceAfter never goes below zero, and is the sum of the ledger unless a
\* row was computed from a balance that another row had replaced in between
\* (getBalance, grant, consume).
BooksBalance == latest >= 0 /\ (forked \/ latest = total)

\* No answer of the provider is handed out without a row that pays for it:
\* before the work (requireCredit) or after it (enrichMessage).
ResultsArePaid == results <= charges

\* The latest balanceAfter is never negative (the sum of a forked ledger may
\* be), the ledger adds up, and every answer has been paid for.
LedgerHolds == BooksBalance /\ ResultsArePaid
=============================================================================
