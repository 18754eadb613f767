---------------------------- MODULE RuleActions ----------------------------
(***************************************************************************)
(* The action chains of matched rules (executeActions, the ports of        *)
(* RuleExecutionService.buildPorts and the log of runRule), for runs that  *)
(* act on one conversation at the same time: rules of messages two workers *)
(* handle, or of a message and a timer.                                    *)
(*                                                                         *)
(* A step applies a tag, which is a read and an overwrite, or does         *)
(* something outside: a message or a notification, which may fail before   *)
(* or after it took effect, or a webhook, for which any answer is a        *)
(* success.  A malformed step is one whose params cannot be rendered,      *)
(* which nothing checks when the rule is saved; the exception is not       *)
(* executeStep's and ends the chain.  What is rendered and sent is left    *)
(* out.                                                                    *)
(***************************************************************************)
EXTENDS Naturals, Sequences, FiniteSets

CONSTANTS
  Run,           \* concurrent executions of runRule
  Tag,
  Outside,       \* the step that sends a message or a notification
  Webhook,       \* the step that calls a webhook
  Malformed,     \* a step with params that are missing or no strings
  MaxSteps       \* bound on a chain

ASSUME RuleActionsAssumption ==
  /\ Tag \cap {Outside, Webhook, Malformed} = {}
  /\ Outside # Webhook /\ Malformed \notin {Outside, Webhook}
  /\ MaxSteps \in Nat

ChainStep == Tag \cup {Outside, Webhook, Malformed}

VARIABLES
  tags,      \* conversations.tags
  run,       \* what each run does next: its chain, its results, what it read
  tookPlace, \* history: positions of the steps of a run that took effect
  applied    \* history: tags that a step reported as applied, without those
             \* that a write from a stale read has removed since

chainVars == <<tags, run, tookPlace, applied>>

NoRun == [pc |-> "idle", chain |-> <<>>, results |-> <<>>, seen |-> {}]
RunAt(r, pc) == run[r].pc = pc
Position(r) == Len(run[r].results) + 1
CurrentStep(r) == run[r].chain[Position(r)]

\* A chain of a rule has at least one action.
BeginRun(r, chain) ==
  /\ RunAt(r, "idle")
  /\ run' = [run EXCEPT ![r] = [NoRun EXCEPT !.pc = "step", !.chain = chain]]
  /\ UNCHANGED <<tags, tookPlace, applied>>

\* Every step runs, whatever became of the ones before.
AfterStep(r) == IF Position(r) = Len(run[r].chain) THEN "log" ELSE "step"

Reports(r, result) ==
  run' = [run EXCEPT ![r] = [run[r] EXCEPT !.pc = AfterStep(r),
                                           !.results = Append(@, result), !.seen = {}]]

Happens(r) == tookPlace' = [tookPlace EXCEPT ![r] = @ \cup {Position(r)}]

\* sendMessage, sendNotification: reported as an error before or after they
\* took effect.  callWebhook: whatever status is answered, it is a success.
ActOutside(r) ==
  /\ RunAt(r, "step") /\ CurrentStep(r) \in {Outside, Webhook}
  /\ \/ Reports(r, "success") /\ Happens(r)
     \/ Reports(r, "success") /\ CurrentStep(r) = Webhook /\ UNCHANGED tookPlace
     \/ Reports(r, "error") /\ (UNCHANGED tookPlace \/ Happens(r))
  /\ UNCHANGED <<tags, applied>>

\* The params are rendered outside the try of executeStep: runRule catches,
\* and what the steps before had returned is gone.
Throws(r) ==
  /\ RunAt(r, "step") /\ CurrentStep(r) = Malformed
  /\ run' = [run EXCEPT ![r].pc = "thrown", ![r].results = <<>>]
  /\ UNCHANGED <<tags, tookPlace, applied>>

\* applyTag: findUniqueOrThrow, ...
ReadTags(r) ==
  /\ RunAt(r, "step") /\ CurrentStep(r) \in Tag
  /\ \/ run' = [run EXCEPT ![r].pc = "write", ![r].seen = tags]
     \/ Reports(r, "error")
  /\ UNCHANGED <<tags, tookPlace, applied>>

\* Mutant: the tag replaces those there were.
OnlyNew(seen, tag) == {tag}

WithTag(seen, tag) == seen \cup {tag}

\* ... and update with the whole array, also when the tag was there.
WriteTags(r) ==
  /\ RunAt(r, "write")
  /\ \/ /\ tags' = WithTag(run[r].seen, CurrentStep(r))
        /\ Happens(r)
        /\ \/ /\ Reports(r, "success")
              /\ applied' = (applied \ (tags \ run[r].seen)) \cup {CurrentStep(r)}
           \/ /\ Reports(r, "error")
              /\ applied' = applied \ (tags \ run[r].seen)
     \/ Reports(r, "error") /\ UNCHANGED <<tags, tookPlace, applied>>

Status(results) ==
  LET successes == Cardinality({i \in DOMAIN results : results[i] = "success"})
  IN IF successes = Len(results) THEN "success"
     ELSE IF successes = 0 THEN "failure" ELSE "partial_failure"

\* The log row: the run rests as its row.
LogRun(r) ==
  /\ \/ RunAt(r, "log") /\ run' = [run EXCEPT ![r].pc = Status(run[r].results)]
     \/ RunAt(r, "thrown") /\ run' = [run EXCEPT ![r].pc = "failure"]
  /\ UNCHANGED <<tags, tookPlace, applied>>

Logged == {"success", "failure", "partial_failure"}

\* The process dies, the insert of the row fails, or the row is not looked at
\* any more.
Forget(r) ==
  /\ ~RunAt(r, "idle")
  /\ run' = [run EXCEPT ![r] = NoRun]
  /\ tookPlace' = [tookPlace EXCEPT ![r] = {}]
  /\ UNCHANGED <<tags, applied>>

ChainInit ==
  /\ tags = {} /\ applied = {}
  /\ run = [r \in Run |-> NoRun]
  /\ tookPlace = [r \in Run |-> {}]

Chains == UNION {[1..n -> ChainStep] : n \in 1..MaxSteps}

ChainNext ==
  \E r \in Run :
    \/ ActOutside(r) \/ Throws(r) \/ ReadTags(r) \/ WriteTags(r) \/ LogRun(r) \/ Forget(r)
    \/ \E chain \in Chains : BeginRun(r, chain)

ChainSpec == ChainInit /\ [][ChainNext]_chainVars

----------------------------------------------------------------------------
\* A tag that was reported as applied is on the conversation, unless a run
\* wrote the tags it had read before that tag was written: rules one after
\* the other, whatever fails, keep each other's tags (applyTag).
TagsSurvive == applied \subseteq tags

\* A log without results, of a chain with a malformed step.
LogIsEmpty(r) ==
  run[r].results = <<>> /\ \E i \in DOMAIN run[r].chain : run[r].chain[i] = Malformed

\* The log accounts for every step of the chain, "success" means that each
\* but the webhooks took effect, "failure" that none was reported to.  A
\* chain with a malformed step may be logged as a failure of nothing, although
\* steps before it took effect, but never as a success (executeActions,
\* runRule).
LogsTellTruth ==
  \A r \in Run : run[r].pc \in Logged =>
    \/ run[r].pc = "failure" /\ LogIsEmpty(r)
    \/ /\ Len(run[r].results) = Len(run[r].chain)
       /\ run[r].pc = "success" =>
            \A i \in DOMAIN run[r].chain : run[r].chain[i] = Webhook \/ i \in tookPlace[r]
       /\ run[r].pc = "failure" => \A i \in DOMAIN run[r].results : run[r].results[i] = "error"

\* Tags are kept and logs are true.
ChainsTellTruth == TagsSurvive /\ LogsTellTruth
=============================================================================
