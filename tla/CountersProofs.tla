--------------------------- MODULE CountersProofs ---------------------------
(***************************************************************************)
(* Counters that concurrent requests read and then add to: the ledger of   *)
(* AI credits, for any number of tasks, any signup grant and any length,   *)
(* and the counters of the login throttle, for any number of requests and  *)
(* any limit.                                                              *)
(***************************************************************************)
EXTENDS Credits, Throttle, FiniteSetTheorems, TLAPS

TaskRecord ==
  [pc : {"idle", "look", "read", "append", "work", "done"},
   kind : {"none", "request", "enrichment", "grant"},
   amount : Int, seen : Int, at : Nat]

\* What the bookkeeping needs of the types.
CreditsTypeOK ==
  /\ latest \in Int /\ total \in Int /\ rows \in Nat
  /\ results \in Nat /\ charges \in Nat
  /\ task \in [Task -> TaskRecord]
  /\ \A t \in Task : /\ At(t, "idle") \/ task[t].kind # "none"
                     /\ At(t, "look") => task[t].kind = "enrichment"

\* A task about to append was allowed to, by a row that is the latest unless
\* somebody appended since.
AppendsInv ==
  \A t \in Task : At(t, "append") =>
    /\ task[t].seen + task[t].amount >= 0
    /\ task[t].at <= rows
    /\ forked \/ task[t].at # rows \/ task[t].seen = latest

\* The tasks whose row is in the ledger and whose answer is still to come.
Paid == {t \in Task : \/ task[t].kind = "request" /\ task[t].pc \in {"work", "done"}
                      \/ task[t].kind = "enrichment" /\ At(t, "done")}

PaidInv == results + Cardinality(Paid) <= charges

CreditsInv == CreditsTypeOK /\ AppendsInv /\ BooksBalance /\ PaidInv

\* The initial state satisfies the invariant.
LEMMA CreditsInitially == CreditsInit => CreditsInv
<1> SUFFICES ASSUME CreditsInit PROVE CreditsInv
  OBVIOUS
<1> USE CreditsAssumption DEF CreditsInit, NoTask, At
<1>1. CreditsTypeOK
  BY DEF CreditsTypeOK, TaskRecord
<1>2. AppendsInv /\ BooksBalance
  BY DEF AppendsInv, BooksBalance
<1>3. Paid = {}
  BY DEF Paid
<1>4. PaidInv
  BY <1>3, FS_EmptySet DEF PaidInv
<1> QED
  BY <1>1, <1>2, <1>4 DEF CreditsInv

\* Types, for every action.
LEMMA CreditsTyped == CreditsInv /\ [CreditsNext]_creditVars => CreditsTypeOK'
<1> SUFFICES ASSUME CreditsInv, [CreditsNext]_creditVars PROVE CreditsTypeOK'
  OBVIOUS
<1> USE DEF CreditsInv, CreditsTypeOK, TaskRecord, NoTask, At, MoveOn, ledgerVars
<1>1. ASSUME UpdateSettings PROVE CreditsTypeOK'
  BY <1>1 DEF UpdateSettings
<1>2. ASSUME NEW t \in Task, NEW kind \in {"request", "enrichment", "grant"},
             NEW amount \in {-1, 2}, BeginTask(t, kind, amount)
      PROVE  CreditsTypeOK'
  BY <1>2 DEF BeginTask, FirstStep
<1>3. ASSUME NEW t \in Task, LookFirst(t) PROVE CreditsTypeOK'
  BY <1>3 DEF LookFirst
<1>8. ASSUME NEW t \in Task, ReadBalance(t) PROVE CreditsTypeOK'
  BY <1>8 DEF ReadBalance
<1>4. ASSUME NEW t \in Task, AppendRow(t) PROVE CreditsTypeOK'
  BY <1>4 DEF AppendRow
<1>5. ASSUME NEW t \in Task, ProviderAnswers(t) \/ TaskDies(t) PROVE CreditsTypeOK'
  BY <1>5 DEF ProviderAnswers, TaskDies, AfterWork
<1>6. ASSUME NEW t \in Task, HandOut(t) PROVE CreditsTypeOK'
  BY <1>6 DEF HandOut
<1>7. CASE UNCHANGED creditVars
  BY <1>7 DEF creditVars
<1> QED
  BY <1>1, <1>2, <1>3, <1>4, <1>5, <1>6, <1>7, <1>8 DEF CreditsNext

\* What a task has read, and the books, for every action.
LEMMA BooksHold == CreditsInv /\ [CreditsNext]_creditVars => AppendsInv' /\ BooksBalance'
<1> SUFFICES ASSUME CreditsInv, [CreditsNext]_creditVars PROVE AppendsInv' /\ BooksBalance'
  OBVIOUS
<1> USE DEF CreditsInv, CreditsTypeOK, TaskRecord, AppendsInv, BooksBalance, NoTask, At, MoveOn, ledgerVars
<1>1. ASSUME UpdateSettings PROVE AppendsInv' /\ BooksBalance'
  BY <1>1 DEF UpdateSettings
<1>2. ASSUME NEW t \in Task, NEW kind \in {"request", "enrichment", "grant"},
             NEW amount \in {-1, 2}, BeginTask(t, kind, amount)
      PROVE  AppendsInv' /\ BooksBalance'
  BY <1>2 DEF BeginTask, FirstStep
<1>3. ASSUME NEW t \in Task, LookFirst(t) PROVE AppendsInv' /\ BooksBalance'
  BY <1>3 DEF LookFirst
<1>8. ASSUME NEW t \in Task, ReadBalance(t) PROVE AppendsInv' /\ BooksBalance'
  BY <1>8 DEF ReadBalance, Affords
<1>4. ASSUME NEW t \in Task, AppendRow(t) PROVE AppendsInv' /\ BooksBalance'
  <2>1. BooksBalance'
    BY <1>4 DEF AppendRow
  <2>2. ASSUME NEW u \in Task, task'[u].pc = "append" PROVE task'[u] = task[u] /\ task[u].at # rows'
    <3>1. u # t
      BY <1>4, <2>2 DEF AppendRow
    <3> QED
      BY <1>4, <2>2, <3>1 DEF AppendRow
  <2>3. AppendsInv'
    BY <1>4, <2>2 DEF AppendRow
  <2> QED
    BY <2>1, <2>3
<1>5. ASSUME NEW t \in Task, ProviderAnswers(t) \/ TaskDies(t)
      PROVE  AppendsInv' /\ BooksBalance'
  BY <1>5 DEF ProviderAnswers, TaskDies, AfterWork
<1>6. ASSUME NEW t \in Task, HandOut(t) PROVE AppendsInv' /\ BooksBalance'
  BY <1>6 DEF HandOut
<1>7. CASE UNCHANGED creditVars
  BY <1>7 DEF creditVars
<1> QED
  BY <1>1, <1>2, <1>3, <1>4, <1>5, <1>6, <1>7, <1>8 DEF CreditsNext

\* The paid tasks are finitely many, before and after a step.
LEMMA PaidIsFinite ==
  IsFiniteSet(Paid) /\ IsFiniteSet(Paid') /\ Cardinality(Paid) \in Nat /\ Cardinality(Paid') \in Nat
<1>1. Paid \subseteq Task /\ Paid' \subseteq Task
  BY DEF Paid
<1> QED
  BY <1>1, CreditsAssumption, FS_Subset, FS_CardinalityType

\* A step that neither charges nor hands out, and pays for nobody.
LEMMA NobodyPaid ==
  ASSUME CreditsInv, Paid' \subseteq Paid, UNCHANGED <<results, charges>>
  PROVE  PaidInv'
<1>1. Cardinality(Paid') <= Cardinality(Paid)
  BY PaidIsFinite, FS_Subset
<1> QED
  BY <1>1, PaidIsFinite DEF CreditsInv, CreditsTypeOK, PaidInv

\* A task that is under way has a kind.
LEMMA Kinds ==
  ASSUME CreditsInv, NEW t \in Task, task[t].pc \in {"append", "done"}, task[t].kind # "grant"
  PROVE  task[t].kind = "request" \/ task[t].kind = "enrichment"
<1>1. task[t].kind \in {"none", "request", "enrichment", "grant"}
  BY DEF CreditsInv, CreditsTypeOK, TaskRecord
<1>2. task[t].kind # "none"
  BY DEF CreditsInv, CreditsTypeOK, At
<1> QED
  BY <1>1, <1>2

\* AppendRow pays for its task, unless it is a grant.
LEMMA AppendPays ==
  ASSUME CreditsInv, NEW t \in Task, AppendRow(t)
  PROVE  PaidInv'
<1> USE DEF CreditsInv, CreditsTypeOK, TaskRecord, At, AppendRow, MoveOn
<1>1. CASE task[t].kind = "grant"
  <2>1. Paid' \subseteq Paid
    BY <1>1 DEF Paid
  <2> QED
    BY <1>1, <2>1, NobodyPaid
<1>2. CASE task[t].kind # "grant"
  <2>1. Paid' = Paid \cup {t} /\ t \notin Paid
    <3>1. \A u \in Task \ {t} : task'[u] = task[u]
      OBVIOUS
    <3>2. task[t].pc = "append" /\ task'[t].kind = task[t].kind
      OBVIOUS
    <3>3. \/ task[t].kind = "request" /\ task'[t].pc = "work"
          \/ task[t].kind = "enrichment" /\ task'[t].pc = "done"
      BY <1>2, <3>2, Kinds
    <3> QED
      BY <3>1, <3>2, <3>3 DEF Paid
  <2>2. Cardinality(Paid') = Cardinality(Paid) + 1
    BY <2>1, PaidIsFinite, FS_AddElement
  <2> QED
    BY <1>2, <2>2, PaidIsFinite DEF PaidInv
<1> QED
  BY <1>1, <1>2

\* HandOut takes a paid answer, unless its task is a grant.
LEMMA HandOutTakesPaid ==
  ASSUME CreditsInv, NEW t \in Task, HandOut(t)
  PROVE  PaidInv'
<1> USE DEF CreditsInv, CreditsTypeOK, TaskRecord, At, HandOut, NoTask
<1>1. CASE task[t].kind = "grant"
  <2>1. Paid' \subseteq Paid
    BY <1>1 DEF Paid
  <2> QED
    BY <1>1, <2>1, NobodyPaid DEF ledgerVars
<1>2. CASE task[t].kind # "grant"
  <2>1. Paid' = Paid \ {t} /\ t \in Paid
    <3>1. \A u \in Task \ {t} : task'[u] = task[u]
      OBVIOUS
    <3>2. task[t].pc = "done" /\ task'[t].kind = "none"
      OBVIOUS
    <3>3. task[t].kind \in {"request", "enrichment"}
      BY <1>2, <3>2, Kinds
    <3> QED
      BY <3>1, <3>2, <3>3 DEF Paid
  <2>2. Cardinality(Paid') = Cardinality(Paid) - 1
    BY <2>1, PaidIsFinite, FS_RemoveElement
  <2> QED
    BY <1>2, <2>2, PaidIsFinite DEF PaidInv, ledgerVars
<1> QED
  BY <1>1, <1>2

\* Answers and charges, for every action.
LEMMA PaidHolds == CreditsInv /\ [CreditsNext]_creditVars => PaidInv'
<1> SUFFICES ASSUME CreditsInv, [CreditsNext]_creditVars PROVE PaidInv'
  OBVIOUS
<1> USE DEF CreditsInv, CreditsTypeOK, TaskRecord, Paid, NoTask, At, MoveOn, ledgerVars
<1>1. ASSUME UpdateSettings PROVE PaidInv'
  BY <1>1, NobodyPaid DEF UpdateSettings
<1>2. ASSUME NEW t \in Task, NEW kind \in {"request", "enrichment", "grant"},
             NEW amount \in {-1, 2}, BeginTask(t, kind, amount)
      PROVE  PaidInv'
  <2>1. Paid' \subseteq Paid
    BY <1>2 DEF BeginTask, FirstStep
  <2> QED
    BY <1>2, <2>1, NobodyPaid DEF BeginTask
<1>3. ASSUME NEW t \in Task, LookFirst(t) \/ ReadBalance(t) PROVE PaidInv'
  <2>1. Paid' \subseteq Paid
    <3>1. CASE LookFirst(t)
      BY <3>1 DEF LookFirst
    <3>2. CASE ReadBalance(t)
      BY <3>2 DEF ReadBalance
    <3> QED
      BY <1>3, <3>1, <3>2
  <2> QED
    BY <1>3, <2>1, NobodyPaid DEF LookFirst, ReadBalance
<1>4. ASSUME NEW t \in Task, AppendRow(t) PROVE PaidInv'
  BY <1>4, AppendPays
<1>5. ASSUME NEW t \in Task, ProviderAnswers(t) \/ TaskDies(t) PROVE PaidInv'
  <2>1. Paid' \subseteq Paid
    BY <1>5 DEF ProviderAnswers, TaskDies, AfterWork
  <2> QED
    BY <1>5, <2>1, NobodyPaid DEF ProviderAnswers, TaskDies
<1>6. ASSUME NEW t \in Task, HandOut(t) PROVE PaidInv'
  BY <1>6, HandOutTakesPaid
<1>7. CASE UNCHANGED creditVars
  BY <1>7, NobodyPaid DEF creditVars
<1> QED
  BY <1>1, <1>2, <1>3, <1>4, <1>5, <1>6, <1>7 DEF CreditsNext

\* However many requests read the same balance, the latest balanceAfter is
\* never negative, is the sum of the ledger until two of them did, and there is
\* a row for every answer that was handed out (AiCreditsService.consume, AiController.requireCredit,
\* AiEnrichmentService.enrichMessage).
THEOREM LedgerAlwaysHolds == CreditsSpec => []LedgerHolds
<1>1. CreditsInv /\ [CreditsNext]_creditVars => CreditsInv'
  BY CreditsTyped, BooksHold, PaidHolds DEF CreditsInv
<1>2. CreditsInv => LedgerHolds
  <2> SUFFICES ASSUME CreditsInv PROVE ResultsArePaid
    BY DEF CreditsInv, LedgerHolds
  <2>1. Cardinality(Paid) \in Nat
    BY PaidIsFinite
  <2> QED
    BY <2>1 DEF CreditsInv, CreditsTypeOK, PaidInv, ResultsArePaid
<1> QED
  BY <1>1, <1>2, CreditsInitially, PTL DEF CreditsSpec

----------------------------------------------------------------------------
\* The login throttle and the rate limit.

\* The keys a request may still have before it: it counts the bucket alone, or
\* the account's two counters in order.
KeyLists == {<<>>, <<"ip">>, <<"email", "ip">>, <<"bucket">>}

CallRecord ==
  [pc : {"idle", "check", "verify", "incr", "expire", "del", "pttl"}, keys : KeyLists]

ThrottleTypeOK ==
  /\ count \in [ThrottleKey -> Nat]
  /\ window \subseteq ThrottleKey
  /\ caller \in [Attempt -> CallRecord]
  /\ died \in Nat

\* Which keys a request works on, by what it does.
CallerInv ==
  \A c \in Attempt :
    /\ Calls(c, "check") \/ Calls(c, "del") => caller[c].keys \in {<<"email", "ip">>, <<"ip">>}
    /\ Calls(c, "verify") => caller[c].keys = <<"email", "ip">>
    /\ Calls(c, "incr") \/ Calls(c, "expire") => caller[c].keys # <<>>
    /\ Calls(c, "pttl") => caller[c].keys = <<"bucket">>

\* Requests that found counter k below the limit and have yet to count it.
Passed(k) ==
  IF k = "email"
  THEN {c \in Attempt : \/ Calls(c, "check") /\ caller[c].keys = <<"ip">>
                        \/ Calls(c, "verify")
                        \/ Calls(c, "incr") /\ caller[c].keys = <<"email", "ip">>}
  ELSE {c \in Attempt : \/ Calls(c, "verify")
                        \/ Calls(c, "incr") /\ caller[c].keys \in {<<"email", "ip">>, <<"ip">>}
                        \/ Calls(c, "expire") /\ caller[c].keys = <<"email", "ip">>}

\* The guesses so far and those that can no longer be refused.
GuessInv ==
  \A k \in {"email", "ip"} :
    count[k] + Cardinality(Passed(k)) < MaxAttempts + Cardinality(Attempt)

\* Requests that have counted the bucket and are about to give it its window.
Healing == {c \in Attempt : (Calls(c, "expire") \/ Calls(c, "pttl")) /\ caller[c].keys = <<"bucket">>}

HealInv == "bucket" \notin window => count["bucket"] <= died + Cardinality(Healing)

CountersInv == ThrottleTypeOK /\ CallerInv /\ GuessInv /\ EndlessNeedsCrash /\ HealInv

\* The lists of keys, taken apart.
LEMMA KeyListFacts ==
  /\ Head(<<"ip">>) = "ip" /\ Len(<<"ip">>) = 1
  /\ Head(<<"bucket">>) = "bucket" /\ Len(<<"bucket">>) = 1
  /\ Head(<<"email", "ip">>) = "email" /\ Len(<<"email", "ip">>) = 2
  /\ Tail(<<"email", "ip">>) = <<"ip">>
  /\ <<"ip">> # <<"bucket">> /\ <<"ip">> # <<"email", "ip">> /\ <<"bucket">> # <<"email", "ip">>
  /\ <<>> # <<"ip">> /\ <<>> # <<"bucket">> /\ <<>> # <<"email", "ip">>
<1>1. Tail(<<"email", "ip">>) = <<"ip">>
  OBVIOUS
<1>2. <<"ip">>[1] = "ip" /\ <<"bucket">>[1] = "bucket" /\ <<"email", "ip">>[1] = "email"
  OBVIOUS
<1> QED
  BY <1>1, <1>2

\* One key further: the rest of the list, or the end of it.
LEMMA NextKeyIs ==
  ASSUME ThrottleTypeOK, NEW c \in Attempt, caller[c].keys # <<>>, NEW pc, NEW after,
         NextKey(c, pc, after)
  PROVE  \/ caller[c].keys = <<"email", "ip">> /\ Becomes(c, pc, <<"ip">>)
         \/ /\ caller[c].keys \in {<<"ip">>, <<"bucket">>}
            /\ \/ after = "idle" /\ Becomes(c, "idle", <<>>)
               \/ after # "idle" /\ Becomes(c, after, <<"email", "ip">>)
<1>1. caller[c].keys \in {<<"ip">>, <<"email", "ip">>, <<"bucket">>}
  BY DEF ThrottleTypeOK, CallRecord, KeyLists
<1>2. CASE caller[c].keys = <<"email", "ip">>
  BY <1>2, KeyListFacts DEF NextKey
<1>3. CASE caller[c].keys \in {<<"ip">>, <<"bucket">>}
  <2>1. Len(caller[c].keys) = 1
    BY <1>3, KeyListFacts
  <2> QED
    BY <1>3, <2>1 DEF NextKey, LockKeys
<1> QED
  BY <1>1, <1>2, <1>3

\* What a step of one request leaves of the table of requests.
LEMMA Becoming ==
  ASSUME ThrottleTypeOK, NEW c \in Attempt, NEW pc, NEW keys \in KeyLists,
         pc \in {"idle", "check", "verify", "incr", "expire", "del", "pttl"},
         Becomes(c, pc, keys)
  PROVE  /\ caller'[c].pc = pc /\ caller'[c].keys = keys
         /\ \A b \in Attempt : b # c => caller'[b] = caller[b]
         /\ caller' \in [Attempt -> CallRecord]
<1>1. [pc |-> pc, keys |-> keys] \in CallRecord
  BY DEF CallRecord
<1> QED
  BY <1>1 DEF Becomes, ThrottleTypeOK

\* Finite sets of requests that lose or gain one of them.
LEMMA Counts ==
  ASSUME NEW S, NEW T, NEW c, IsFiniteSet(S)
  PROVE  /\ Cardinality(S) \in Nat
         /\ T \subseteq S => Cardinality(T) \in Nat /\ Cardinality(T) <= Cardinality(S)
         /\ T \subseteq S \cup {c} => Cardinality(T) \in Nat /\ Cardinality(T) <= Cardinality(S) + 1
         /\ c \in S /\ T \subseteq S \ {c} =>
              Cardinality(T) \in Nat /\ Cardinality(T) <= Cardinality(S) - 1
<1>1. Cardinality(S) \in Nat
  BY FS_CardinalityType
<1>2. ASSUME T \subseteq S PROVE Cardinality(T) \in Nat /\ Cardinality(T) <= Cardinality(S)
  BY <1>2, FS_Subset, FS_CardinalityType
<1>3. ASSUME T \subseteq S \cup {c}
      PROVE  Cardinality(T) \in Nat /\ Cardinality(T) <= Cardinality(S) + 1
  <2>1. IsFiniteSet(S \cup {c}) /\ Cardinality(S \cup {c}) <= Cardinality(S) + 1
    BY <1>1, FS_AddElement
  <2>2. Cardinality(S \cup {c}) \in Nat
    BY <2>1, FS_CardinalityType
  <2>3. Cardinality(T) \in Nat /\ Cardinality(T) <= Cardinality(S \cup {c})
    BY <1>3, <2>1, FS_Subset, FS_CardinalityType
  <2> QED
    BY <1>1, <2>1, <2>2, <2>3
<1>4. ASSUME c \in S, T \subseteq S \ {c}
      PROVE  Cardinality(T) \in Nat /\ Cardinality(T) <= Cardinality(S) - 1
  <2>1. IsFiniteSet(S \ {c}) /\ Cardinality(S \ {c}) = Cardinality(S) - 1
    BY <1>4, FS_RemoveElement
  <2>2. Cardinality(T) \in Nat /\ Cardinality(T) <= Cardinality(S \ {c})
    BY <1>4, <2>1, FS_Subset, FS_CardinalityType
  <2> QED
    BY <2>1, <2>2
<1> QED
  BY <1>1, <1>2, <1>3, <1>4

\* Passed and Healing are finite, and no larger than the set of requests.
LEMMA FewRequests ==
  /\ Cardinality(Attempt) \in Nat
  /\ IsFiniteSet(Healing) /\ Cardinality(Healing) \in Nat
  /\ \A k \in {"email", "ip"} :
       /\ IsFiniteSet(Passed(k)) /\ Cardinality(Passed(k)) \in Nat
       /\ Cardinality(Passed(k)) <= Cardinality(Attempt)
<1>1. Healing \subseteq Attempt /\ \A k \in {"email", "ip"} : Passed(k) \subseteq Attempt
  BY DEF Healing, Passed
<1> QED
  BY <1>1, ThrottleAssumption, FS_Subset, FS_CardinalityType

\* Types and lists of keys, for every step of a request.
LEMMA ThrottleTypeStep ==
  ASSUME ThrottleTypeOK, CallerInv, NEW c \in Attempt,
         \/ Arrive(c) \/ CheckKey(c) \/ Verify(c) \/ IncrKey(c) \/ ExpireKey(c)
         \/ DelKey(c) \/ Consume(c) \/ ReadTtl(c) \/ CallerDies(c)
  PROVE  /\ ThrottleTypeOK' /\ CallerInv'
         /\ \A b \in Attempt : b # c => caller'[b] = caller[b]
<1>k. /\ Key(c) = Head(caller[c].keys)
      /\ caller[c].keys \in KeyLists
  BY DEF Key, ThrottleTypeOK, CallRecord
<1>n. ~Calls(c, "idle") /\ ~Calls(c, "verify") => caller[c].keys # <<>>
  BY KeyListFacts DEF CallerInv, Calls, ThrottleTypeOK, CallRecord
<1>1. ASSUME NEW pc \in {"idle", "check", "verify", "incr", "expire", "del", "pttl"},
             NEW keys \in KeyLists, Becomes(c, pc, keys),
             pc \in {"check", "del"} => keys \in {<<"email", "ip">>, <<"ip">>},
             pc = "verify" => keys = <<"email", "ip">>,
             pc \in {"incr", "expire"} => keys # <<>>,
             pc = "pttl" => keys = <<"bucket">>
      PROVE  /\ CallerInv' /\ caller' \in [Attempt -> CallRecord]
             /\ \A b \in Attempt : b # c => caller'[b] = caller[b]
  <2>1. /\ caller'[c].pc = pc /\ caller'[c].keys = keys
        /\ \A b \in Attempt : b # c => caller'[b] = caller[b]
        /\ caller' \in [Attempt -> CallRecord]
    BY <1>1, Becoming
  <2>2. ASSUME NEW b \in Attempt
        PROVE  /\ Calls(b, "check")' \/ Calls(b, "del")' =>
                    caller'[b].keys \in {<<"email", "ip">>, <<"ip">>}
               /\ Calls(b, "verify")' => caller'[b].keys = <<"email", "ip">>
               /\ Calls(b, "incr")' \/ Calls(b, "expire")' => caller'[b].keys # <<>>
               /\ Calls(b, "pttl")' => caller'[b].keys = <<"bucket">>
    <3>1. CASE b = c
      BY <1>1, <2>1, <3>1 DEF Calls
    <3>2. CASE b # c
      BY <2>1, <3>2 DEF CallerInv, Calls
    <3> QED
      BY <3>1, <3>2
  <2> QED
    BY <2>1, <2>2 DEF CallerInv
<1>l. /\ <<>> \in KeyLists /\ <<"ip">> \in KeyLists /\ <<"email", "ip">> \in KeyLists
      /\ <<"bucket">> \in KeyLists /\ LockKeys = <<"email", "ip">>
  BY DEF KeyLists, LockKeys
<1>t. count' \in [ThrottleKey -> Nat] /\ window' \subseteq ThrottleKey /\ died' \in Nat
  <2>1. Key(c) \in ThrottleKey \/ caller[c].keys = <<>>
    BY <1>k, KeyListFacts DEF KeyLists, ThrottleKey
  <2>2. CASE IncrKey(c) \/ DelKey(c) \/ ExpireKey(c)
    <3>1. Key(c) \in ThrottleKey
      BY <1>n, <2>1, <2>2 DEF IncrKey, DelKey, ExpireKey, Calls
    <3> QED
      BY <2>2, <3>1 DEF ThrottleTypeOK, IncrKey, DelKey, ExpireKey
  <2> QED
    BY <2>2 DEF ThrottleTypeOK, Arrive, CheckKey, Verify, Consume, ReadTtl, CallerDies
<1>a. CASE Arrive(c)
  BY <1>1, <1>a, <1>l, <1>t, KeyListFacts DEF Arrive, ThrottleTypeOK
<1>b. CASE CheckKey(c)
  <2>1. CASE Becomes(c, "idle", <<>>)
    BY <1>1, <1>l, <1>t, <2>1 DEF ThrottleTypeOK
  <2>2. CASE NextKey(c, "check", "verify")
    <3>1. Becomes(c, "check", <<"ip">>) \/ Becomes(c, "verify", <<"email", "ip">>)
      BY <1>b, <1>n, <2>2, NextKeyIs DEF CheckKey, Calls
    <3> QED
      BY <1>1, <1>l, <1>t, <3>1 DEF ThrottleTypeOK
  <2> QED
    BY <1>b, <2>1, <2>2 DEF CheckKey
<1>c. CASE Verify(c)
  BY <1>1, <1>c, <1>l, <1>t, KeyListFacts DEF Verify, ThrottleTypeOK
<1>d. CASE IncrKey(c)
  <2>1. caller[c].keys # <<>>
    BY <1>d, <1>n DEF IncrKey, Calls
  <2>2. CASE Becomes(c, "expire", caller[c].keys)
    BY <1>1, <1>k, <1>l, <1>t, <2>1, <2>2 DEF ThrottleTypeOK
  <2>3. CASE Key(c) = "bucket" /\ Becomes(c, "pttl", caller[c].keys)
    <3>1. caller[c].keys = <<"bucket">>
      BY <1>k, <2>1, <2>3, KeyListFacts DEF KeyLists
    <3> QED
      BY <1>1, <1>l, <1>t, <2>3, <3>1 DEF ThrottleTypeOK
  <2>4. CASE NextKey(c, "incr", "idle")
    <3>1. Becomes(c, "incr", <<"ip">>) \/ Becomes(c, "idle", <<>>)
      BY <2>1, <2>4, NextKeyIs
    <3> QED
      BY <1>1, <1>l, <1>t, <3>1, KeyListFacts DEF ThrottleTypeOK
  <2> QED
    BY <1>d, <2>2, <2>3, <2>4 DEF IncrKey
<1>e. CASE ExpireKey(c)
  <2>1. Becomes(c, "incr", <<"ip">>) \/ Becomes(c, "idle", <<>>)
    BY <1>e, <1>n, NextKeyIs DEF ExpireKey, Calls
  <2> QED
    BY <1>1, <1>l, <1>t, <2>1, KeyListFacts DEF ThrottleTypeOK
<1>f. CASE DelKey(c)
  <2>1. Becomes(c, "del", <<"ip">>) \/ Becomes(c, "idle", <<>>)
    BY <1>f, <1>n, NextKeyIs DEF DelKey, Calls
  <2> QED
    BY <1>1, <1>l, <1>t, <2>1 DEF ThrottleTypeOK
<1>g. CASE Consume(c)
  BY <1>1, <1>g, <1>l, <1>t, KeyListFacts DEF Consume, ThrottleTypeOK
<1>h. CASE ReadTtl(c)
  <2>1. caller[c].keys = <<"bucket">>
    BY <1>h DEF ReadTtl, CallerInv
  <2>2. Becomes(c, "expire", <<"bucket">>) \/ Becomes(c, "idle", <<>>)
    BY <1>h, <2>1 DEF ReadTtl
  <2> QED
    BY <1>1, <1>l, <1>t, <2>2, KeyListFacts DEF ThrottleTypeOK
<1>i. CASE CallerDies(c)
  BY <1>1, <1>i, <1>l, <1>t DEF CallerDies, ThrottleTypeOK
<1> QED
  BY <1>a, <1>b, <1>c, <1>d, <1>e, <1>f, <1>g, <1>h, <1>i

\* Where a request goes.
Moved(c, pc, keys) == caller'[c].pc = pc /\ caller'[c].keys = keys

\* The key a request works on, and where Becomes moves it.
LEMMA KeyFacts ==
  ASSUME ThrottleTypeOK, NEW c \in Attempt
  PROVE  /\ caller[c].keys \in KeyLists /\ \A k \in ThrottleKey : count[k] \in Nat
         /\ LockKeys = <<"email", "ip">> /\ {"email", "ip", "bucket"} = ThrottleKey
         /\ {<<>>, <<"ip">>, <<"email", "ip">>, <<"bucket">>} = KeyLists
         /\ caller[c].keys = <<"email", "ip">> => Key(c) = "email"
         /\ caller[c].keys = <<"ip">> => Key(c) = "ip"
         /\ caller[c].keys = <<"bucket">> => Key(c) = "bucket"
         /\ \A pc \in {"idle", "check", "verify", "incr", "expire", "del", "pttl"} :
              \A keys \in KeyLists : Becomes(c, pc, keys) => Moved(c, pc, keys)
<1>1. caller[c].keys \in KeyLists /\ \A k \in ThrottleKey : count[k] \in Nat
  BY DEF ThrottleTypeOK, CallRecord
<1>2. /\ caller[c].keys = <<"email", "ip">> => Key(c) = "email"
      /\ caller[c].keys = <<"ip">> => Key(c) = "ip"
      /\ caller[c].keys = <<"bucket">> => Key(c) = "bucket"
  BY KeyListFacts DEF Key
<1>3. ASSUME NEW pc \in {"idle", "check", "verify", "incr", "expire", "del", "pttl"},
             NEW keys \in KeyLists, Becomes(c, pc, keys)
      PROVE  Moved(c, pc, keys)
  BY <1>3, Becoming DEF Moved
<1> QED
  BY <1>1, <1>2, <1>3 DEF LockKeys, ThrottleKey, KeyLists

\* Each step of a request, with its list of keys in front of the reader.
LEMMA ArriveIs ==
  ASSUME ThrottleTypeOK, CallerInv, NEW c \in Attempt, Arrive(c)
  PROVE  /\ Calls(c, "idle") /\ Moved(c, "check", <<"email", "ip">>)
         /\ UNCHANGED <<count, window, died>>
  BY KeyFacts DEF Arrive

LEMMA CheckKeyIs ==
  ASSUME ThrottleTypeOK, CallerInv, NEW c \in Attempt, CheckKey(c)
  PROVE  /\ Calls(c, "check") /\ UNCHANGED <<count, window, died>>
         /\ \/ Moved(c, "idle", <<>>)
            \/ /\ caller[c].keys = <<"email", "ip">> /\ count["email"] < MaxAttempts
               /\ Moved(c, "check", <<"ip">>)
            \/ /\ caller[c].keys = <<"ip">> /\ count["ip"] < MaxAttempts
               /\ Moved(c, "verify", <<"email", "ip">>)
<1>1. Calls(c, "check") /\ UNCHANGED <<count, window, died>>
  BY DEF CheckKey
<1>2. caller[c].keys \in {<<"email", "ip">>, <<"ip">>}
  BY <1>1 DEF CallerInv
<1>3. CASE Becomes(c, "idle", <<>>)
  BY KeyFacts, <1>1, <1>3
<1>4. CASE ~LockedOut(Key(c)) /\ NextKey(c, "check", "verify")
  <2>1. count[Key(c)] < MaxAttempts
    BY KeyFacts, <1>2, <1>4, ThrottleAssumption DEF LockedOut, ThrottleKey
  <2>2. \/ caller[c].keys = <<"email", "ip">> /\ Becomes(c, "check", <<"ip">>)
        \/ caller[c].keys = <<"ip">> /\ Becomes(c, "verify", <<"email", "ip">>)
    BY <1>2, <1>4, NextKeyIs, KeyListFacts
  <2> QED
    BY KeyFacts, <1>1, <2>1, <2>2
<1> QED
  BY <1>3, <1>4 DEF CheckKey

LEMMA VerifyIs ==
  ASSUME ThrottleTypeOK, CallerInv, NEW c \in Attempt, Verify(c)
  PROVE  /\ Calls(c, "verify") /\ UNCHANGED <<count, window, died>>
         /\ Moved(c, "del", <<"email", "ip">>) \/ Moved(c, "incr", <<"email", "ip">>)
  BY KeyFacts DEF Verify

LEMMA IncrKeyIs ==
  ASSUME ThrottleTypeOK, CallerInv, NEW c \in Attempt, IncrKey(c)
  PROVE  /\ Calls(c, "incr") /\ UNCHANGED <<window, died>>
         /\ \E k \in ThrottleKey :
              /\ count' = [count EXCEPT ![k] = @ + 1]
              /\ \/ /\ caller[c].keys = <<"email", "ip">> /\ k = "email"
                    /\ \/ Moved(c, "expire", caller[c].keys)
                       \/ Moved(c, "incr", <<"ip">>) /\ count[k] > 0
                 \/ /\ caller[c].keys = <<"ip">> /\ k = "ip"
                    /\ \/ Moved(c, "expire", caller[c].keys)
                       \/ Moved(c, "idle", <<>>) /\ count[k] > 0
                 \/ /\ caller[c].keys = <<"bucket">> /\ k = "bucket"
                    /\ \/ Moved(c, "expire", caller[c].keys)
                       \/ Moved(c, "pttl", caller[c].keys) /\ count[k] > 0
<1>1. /\ Calls(c, "incr") /\ UNCHANGED <<window, died>>
      /\ count' = [count EXCEPT ![Key(c)] = @ + 1]
  BY DEF IncrKey
<1>2. caller[c].keys \in {<<"email", "ip">>, <<"ip">>, <<"bucket">>}
  BY KeyFacts, <1>1 DEF CallerInv, KeyLists
<1>3. Key(c) \in ThrottleKey /\ count'[Key(c)] = count[Key(c)] + 1 /\ count[Key(c)] \in Nat
  BY KeyFacts, <1>1, <1>2 DEF ThrottleTypeOK
<1>4. CASE Becomes(c, "expire", caller[c].keys)
  BY KeyFacts, <1>1, <1>2, <1>3, <1>4
<1>5. CASE ~StartsWindow(count'[Key(c)]) /\ Key(c) = "bucket" /\ Becomes(c, "pttl", caller[c].keys)
  <2>1. caller[c].keys = <<"bucket">>
    BY KeyFacts, <1>2, <1>5
  <2>2. count[Key(c)] > 0
    BY <1>3, <1>5 DEF StartsWindow
  <2>3. Moved(c, "pttl", caller[c].keys)
    BY KeyFacts, <1>5
  <2> QED
    BY <1>1, <1>3, <1>5, <2>1, <2>2, <2>3
<1>6. CASE ~StartsWindow(count'[Key(c)]) /\ Key(c) # "bucket" /\ NextKey(c, "incr", "idle")
  <2>1. \/ caller[c].keys = <<"email", "ip">> /\ Becomes(c, "incr", <<"ip">>)
        \/ caller[c].keys = <<"ip">> /\ Becomes(c, "idle", <<>>)
    BY KeyFacts, <1>2, <1>6, NextKeyIs, KeyListFacts
  <2>2. count[Key(c)] > 0
    BY <1>3, <1>6 DEF StartsWindow
  <2> QED
    BY KeyFacts, <1>1, <1>3, <2>1, <2>2
<1> QED
  BY <1>4, <1>5, <1>6 DEF IncrKey

LEMMA ExpireKeyIs ==
  ASSUME ThrottleTypeOK, CallerInv, NEW c \in Attempt, ExpireKey(c)
  PROVE  /\ Calls(c, "expire") /\ UNCHANGED <<count, died>>
         /\ \E k \in ThrottleKey :
              /\ window' = IF count[k] > 0 THEN window \cup {k} ELSE window
              /\ k = Key(c)
              /\ \/ /\ caller[c].keys = <<"email", "ip">> /\ k = "email"
                    /\ Moved(c, "incr", <<"ip">>)
                 \/ /\ \/ caller[c].keys = <<"ip">> /\ k = "ip"
                       \/ caller[c].keys = <<"bucket">> /\ k = "bucket"
                    /\ Moved(c, "idle", <<>>)
<1>1. /\ Calls(c, "expire") /\ UNCHANGED <<count, died>> /\ NextKey(c, "incr", "idle")
      /\ window' = IF count[Key(c)] > 0 THEN window \cup {Key(c)} ELSE window
  BY DEF ExpireKey
<1>2. caller[c].keys \in {<<"email", "ip">>, <<"ip">>, <<"bucket">>}
  BY KeyFacts, <1>1 DEF CallerInv, KeyLists
<1>3. \/ caller[c].keys = <<"email", "ip">> /\ Becomes(c, "incr", <<"ip">>)
      \/ caller[c].keys \in {<<"ip">>, <<"bucket">>} /\ Becomes(c, "idle", <<>>)
  BY <1>1, <1>2, NextKeyIs, KeyListFacts
<1>4. Key(c) \in ThrottleKey
  BY KeyFacts, <1>2
<1> QED
  BY KeyFacts, <1>1, <1>3, <1>4

LEMMA DelKeyIs ==
  ASSUME ThrottleTypeOK, CallerInv, NEW c \in Attempt, DelKey(c)
  PROVE  /\ Calls(c, "del") /\ UNCHANGED died
         /\ \E k \in {"email", "ip"} :
              count' = [count EXCEPT ![k] = 0] /\ window' = window \ {k}
         /\ Moved(c, "del", <<"ip">>) \/ Moved(c, "idle", <<>>)
<1>1. /\ Calls(c, "del") /\ UNCHANGED died /\ NextKey(c, "del", "idle")
      /\ count' = [count EXCEPT ![Key(c)] = 0] /\ window' = window \ {Key(c)}
  BY DEF DelKey
<1>2. caller[c].keys \in {<<"email", "ip">>, <<"ip">>}
  BY <1>1 DEF CallerInv
<1>3. Becomes(c, "del", <<"ip">>) \/ Becomes(c, "idle", <<>>)
  BY <1>1, <1>2, NextKeyIs, KeyListFacts
<1> QED
  BY KeyFacts, <1>1, <1>2, <1>3

LEMMA ConsumeIs ==
  ASSUME ThrottleTypeOK, CallerInv, NEW c \in Attempt, Consume(c)
  PROVE  /\ Calls(c, "idle") /\ Moved(c, "incr", <<"bucket">>)
         /\ UNCHANGED <<count, window, died>>
  BY KeyFacts DEF Consume

LEMMA ReadTtlIs ==
  ASSUME ThrottleTypeOK, CallerInv, NEW c \in Attempt, ReadTtl(c)
  PROVE  /\ Calls(c, "pttl") /\ caller[c].keys = <<"bucket">>
         /\ UNCHANGED <<count, window, died>>
         /\ \/ Moved(c, "expire", <<"bucket">>)
            \/ "bucket" \in window /\ Moved(c, "idle", <<>>)
<1>1. /\ Calls(c, "pttl") /\ caller[c].keys = <<"bucket">> /\ UNCHANGED <<count, window, died>>
  BY DEF ReadTtl, CallerInv
<1>2. \/ Becomes(c, "expire", <<"bucket">>)
      \/ "bucket" \in window /\ Becomes(c, "idle", <<>>)
  BY KeyFacts, <1>1 DEF ReadTtl, HasNoWindow
<1> QED
  BY KeyFacts, <1>1, <1>2

LEMMA CallerDiesIs ==
  ASSUME ThrottleTypeOK, CallerInv, NEW c \in Attempt, CallerDies(c)
  PROVE  /\ Moved(c, "idle", <<>>) /\ died' = died + 1
         /\ UNCHANGED <<count, window>>
  BY KeyFacts DEF CallerDies

\* The guesses of a counter grow by one that was in flight, or by one that
\* found the counter below the limit.
LEMMA GuessKept ==
  ASSUME ThrottleTypeOK, GuessInv, ThrottleTypeOK', NEW k \in {"email", "ip"}, NEW c \in Attempt,
         \/ count'[k] <= count[k] /\ Passed(k)' \subseteq Passed(k)
         \/ count'[k] = count[k] /\ count[k] < MaxAttempts
         \/ count'[k] = 0
         \/ count'[k] = count[k] + 1 /\ c \in Passed(k) /\ Passed(k)' \subseteq Passed(k) \ {c}
  PROVE  count'[k] + Cardinality(Passed(k)') < MaxAttempts + Cardinality(Attempt)
<1>1. count[k] \in Nat /\ count'[k] \in Nat
  BY DEF ThrottleTypeOK, ThrottleKey
<1>2. /\ Cardinality(Attempt) \in Nat /\ MaxAttempts \in Nat /\ MaxAttempts > 0
      /\ IsFiniteSet(Passed(k)) /\ Cardinality(Passed(k)) \in Nat
  BY FewRequests, ThrottleAssumption
<1>3. Passed(k)' \subseteq Attempt
  BY DEF Passed
<1>4. Cardinality(Passed(k)') \in Nat /\ Cardinality(Passed(k)') <= Cardinality(Attempt)
  BY <1>3, ThrottleAssumption, FS_Subset, FS_CardinalityType
<1>5. count[k] + Cardinality(Passed(k)) < MaxAttempts + Cardinality(Attempt)
  BY DEF GuessInv
<1>6. CASE Passed(k)' \subseteq Passed(k) /\ count'[k] <= count[k]
  <2>1. Cardinality(Passed(k)') <= Cardinality(Passed(k))
    BY <1>2, <1>6, Counts
  <2> QED
    BY <1>1, <1>2, <1>4, <1>5, <1>6, <2>1
<1>7. CASE c \in Passed(k) /\ Passed(k)' \subseteq Passed(k) \ {c} /\ count'[k] = count[k] + 1
  <2>1. Cardinality(Passed(k)') <= Cardinality(Passed(k)) - 1
    BY <1>2, <1>7, Counts
  <2> QED
    BY <1>1, <1>2, <1>4, <1>5, <1>7, <2>1
<1>8. CASE count'[k] < MaxAttempts
  BY <1>1, <1>2, <1>4, <1>8
<1> QED
  BY <1>1, <1>2, <1>6, <1>7, <1>8

\* A step of one request changes its own membership only.
LEMMA OthersStay ==
  ASSUME NEW c \in Attempt, \A b \in Attempt : b # c => caller'[b] = caller[b],
         NEW k \in {"email", "ip"}
  PROVE  /\ \A b \in Attempt : b # c => (b \in Passed(k)' <=> b \in Passed(k))
         /\ \A b \in Attempt : b # c => (b \in Healing' <=> b \in Healing)
         /\ c \notin Passed(k)' => Passed(k)' \subseteq Passed(k) \ {c}
         /\ c \in Passed(k) \/ c \notin Passed(k)' => Passed(k)' \subseteq Passed(k)
<1>1. ASSUME NEW b \in Attempt, b # c
      PROVE  (b \in Passed(k)' <=> b \in Passed(k)) /\ (b \in Healing' <=> b \in Healing)
  BY <1>1 DEF Passed, Healing, Calls
<1>2. Passed(k)' \subseteq Attempt /\ Passed(k) \subseteq Attempt
  BY DEF Passed
<1> QED
  BY <1>1, <1>2

LEMMA GuessStep ==
  ASSUME ThrottleTypeOK, CallerInv, GuessInv, NEW c \in Attempt,
         \/ Arrive(c) \/ CheckKey(c) \/ Verify(c) \/ IncrKey(c) \/ ExpireKey(c)
         \/ DelKey(c) \/ Consume(c) \/ ReadTtl(c) \/ CallerDies(c)
  PROVE  GuessInv'
<1>0. /\ ThrottleTypeOK' /\ \A b \in Attempt : b # c => caller'[b] = caller[b]
      /\ count \in [ThrottleKey -> Nat]
  BY ThrottleTypeStep DEF ThrottleTypeOK
<1> SUFFICES ASSUME NEW k \in {"email", "ip"}
             PROVE  count'[k] + Cardinality(Passed(k)') < MaxAttempts + Cardinality(Attempt)
  BY DEF GuessInv
<1>k. k \in ThrottleKey /\ count[k] \in Nat
  BY <1>0 DEF ThrottleKey
<1>1. /\ c \in Passed(k) => \/ Calls(c, "check") /\ caller[c].keys = <<"ip">> /\ k = "email"
                            \/ Calls(c, "verify")
                            \/ Calls(c, "incr") /\ caller[c].keys = <<"email", "ip">>
                            \/ Calls(c, "incr") /\ caller[c].keys = <<"ip">> /\ k = "ip"
                            \/ Calls(c, "expire") /\ caller[c].keys = <<"email", "ip">> /\ k = "ip"
      /\ \/ Calls(c, "check") /\ caller[c].keys = <<"ip">> /\ k = "email"
         \/ Calls(c, "verify")
         \/ Calls(c, "incr") /\ caller[c].keys = <<"email", "ip">>
         \/ Calls(c, "incr") /\ caller[c].keys = <<"ip">> /\ k = "ip"
         \/ Calls(c, "expire") /\ caller[c].keys = <<"email", "ip">> /\ k = "ip"
         => c \in Passed(k)
  BY DEF Passed
<1>2. ASSUME NEW pc, NEW keys, Moved(c, pc, keys)
      PROVE  c \in Passed(k)' => \/ pc = "check" /\ keys = <<"ip">> /\ k = "email"
                                 \/ pc = "verify"
                                 \/ pc = "incr" /\ keys = <<"email", "ip">>
                                 \/ pc = "incr" /\ keys = <<"ip">> /\ k = "ip"
                                 \/ pc = "expire" /\ keys = <<"email", "ip">> /\ k = "ip"
  BY <1>2 DEF Passed, Moved, Calls
<1>s. /\ c \notin Passed(k)' => Passed(k)' \subseteq Passed(k) \ {c}
      /\ c \in Passed(k) \/ c \notin Passed(k)' => Passed(k)' \subseteq Passed(k)
  BY <1>0, OthersStay
<1>u. count' = count => count'[k] <= count[k]
  BY <1>k
<1>a. CASE Arrive(c)
  BY <1>0, <1>a, <1>2, <1>s, <1>u, ArriveIs, KeyListFacts, GuessKept
<1>b. CASE CheckKey(c)
  <2>1. CASE Moved(c, "idle", <<>>)
    BY <1>0, <1>b, <1>2, <1>s, <1>u, <2>1, CheckKeyIs, GuessKept
  <2>2. CASE caller[c].keys = <<"email", "ip">> /\ count["email"] < MaxAttempts
             /\ Moved(c, "check", <<"ip">>)
    BY <1>0, <1>b, <1>2, <1>s, <1>u, <2>2, CheckKeyIs, GuessKept
  <2>3. CASE caller[c].keys = <<"ip">> /\ count["ip"] < MaxAttempts
             /\ Moved(c, "verify", <<"email", "ip">>)
    BY <1>0, <1>b, <1>1, <1>s, <1>u, <2>3, CheckKeyIs, GuessKept
  <2> QED
    BY <1>b, <2>1, <2>2, <2>3, CheckKeyIs
<1>c. CASE Verify(c)
  BY <1>0, <1>1, <1>c, <1>s, <1>u, VerifyIs, GuessKept
<1>d. CASE IncrKey(c)
  <2>1. PICK j \in ThrottleKey :
          /\ count' = [count EXCEPT ![j] = @ + 1]
          /\ \/ /\ caller[c].keys = <<"email", "ip">> /\ j = "email"
                /\ Moved(c, "expire", caller[c].keys) \/ Moved(c, "incr", <<"ip">>)
             \/ /\ caller[c].keys = <<"ip">> /\ j = "ip"
                /\ Moved(c, "expire", caller[c].keys) \/ Moved(c, "idle", <<>>)
             \/ /\ caller[c].keys = <<"bucket">> /\ j = "bucket"
                /\ Moved(c, "expire", caller[c].keys) \/ Moved(c, "pttl", caller[c].keys)
    BY <1>d, IncrKeyIs
  <2>2. Calls(c, "incr")
    BY <1>d, IncrKeyIs
  <2>3. CASE j = k
    <3>1. count'[k] = count[k] + 1
      BY <1>0, <2>1, <2>3
    <3>2. c \in Passed(k)
      BY <1>1, <2>1, <2>2, <2>3
    <3>3. c \notin Passed(k)'
      BY <1>2, <2>1, <2>3, KeyListFacts
    <3> QED
      BY <1>0, <1>s, <3>1, <3>2, <3>3, GuessKept
  <2>4. CASE j # k
    <3>1. count'[k] = count[k]
      BY <1>0, <1>k, <2>1, <2>4
    <3>2. c \in Passed(k) \/ c \notin Passed(k)'
      BY <1>1, <1>2, <2>1, <2>2, <2>4, KeyListFacts
    <3> QED
      BY <1>0, <1>k, <1>s, <3>1, <3>2, GuessKept
  <2> QED
    BY <2>3, <2>4
<1>e. CASE ExpireKey(c)
  <2>1. c \in Passed(k) \/ c \notin Passed(k)'
    BY <1>1, <1>2, <1>e, ExpireKeyIs, KeyListFacts
  <2>2. count' = count
    BY <1>e, ExpireKeyIs
  <2> QED
    BY <1>0, <1>s, <1>u, <2>1, <2>2, GuessKept
<1>f. CASE DelKey(c)
  <2>1. c \notin Passed(k)'
    BY <1>2, <1>f, DelKeyIs
  <2>2. count'[k] <= count[k]
    BY <1>0, <1>f, <1>k, DelKeyIs
  <2> QED
    BY <1>0, <1>s, <2>1, <2>2, GuessKept
<1>g. CASE Consume(c)
  BY <1>0, <1>g, <1>2, <1>s, <1>u, ConsumeIs, KeyListFacts, GuessKept
<1>h. CASE ReadTtl(c)
  <2>1. c \notin Passed(k)'
    BY <1>2, <1>h, ReadTtlIs, KeyListFacts
  <2> QED
    BY <1>0, <1>h, <1>s, <1>u, <2>1, ReadTtlIs, GuessKept
<1>i. CASE CallerDies(c)
  BY <1>0, <1>i, <1>2, <1>s, <1>u, CallerDiesIs, GuessKept
<1> QED
  BY <1>a, <1>b, <1>c, <1>d, <1>e, <1>f, <1>g, <1>h, <1>i

\* A counter without a window has lost its caller, or has one at EXPIRE.
LEMMA EndlessStep ==
  ASSUME ThrottleTypeOK, CallerInv, EndlessNeedsCrash, NEW c \in Attempt,
         \/ Arrive(c) \/ CheckKey(c) \/ Verify(c) \/ IncrKey(c) \/ ExpireKey(c)
         \/ DelKey(c) \/ Consume(c) \/ ReadTtl(c) \/ CallerDies(c)
  PROVE  EndlessNeedsCrash'
<1>0. /\ ThrottleTypeOK' /\ \A b \in Attempt : b # c => caller'[b] = caller[b]
      /\ count \in [ThrottleKey -> Nat] /\ died \in Nat
  BY ThrottleTypeStep DEF ThrottleTypeOK
<1> SUFFICES ASSUME NEW k \in ThrottleKey, count'[k] > 0, k \notin window'
             PROVE  died' > 0 \/ \E b \in Attempt : Calls(b, "expire")' /\ Key(b)' = k
  BY DEF EndlessNeedsCrash
<1>1. ASSUME NEW b \in Attempt, b # c, Calls(b, "expire"), Key(b) = k
      PROVE  Calls(b, "expire")' /\ Key(b)' = k
  BY <1>0, <1>1 DEF Calls, Key
<1>2. ASSUME count[k] > 0, k \notin window, died' = died, ~(Calls(c, "expire") /\ Key(c) = k)
      PROVE  died' > 0 \/ \E b \in Attempt : Calls(b, "expire")' /\ Key(b)' = k
  BY <1>1, <1>2 DEF EndlessNeedsCrash
<1>3. ASSUME Calls(c, "idle") \/ Calls(c, "check") \/ Calls(c, "verify") \/ Calls(c, "incr")
             \/ Calls(c, "del") \/ Calls(c, "pttl")
      PROVE  ~Calls(c, "expire")
  BY <1>3 DEF Calls
<1>a. CASE Arrive(c) \/ CheckKey(c) \/ Verify(c) \/ Consume(c) \/ ReadTtl(c)
  BY <1>2, <1>3, <1>a, ArriveIs, CheckKeyIs, VerifyIs, ConsumeIs, ReadTtlIs
<1>d. CASE IncrKey(c)
  <2>1. /\ UNCHANGED <<window, died>> /\ Calls(c, "incr")
    BY <1>d, IncrKeyIs
  <2>2. PICK j \in ThrottleKey :
          /\ count' = [count EXCEPT ![j] = @ + 1]
          /\ caller[c].keys \in KeyLists /\ j = Key(c)
          /\ Moved(c, "expire", caller[c].keys) \/ count[j] > 0
    BY <1>d, IncrKeyIs, KeyFacts
  <2>3. CASE j = k /\ Moved(c, "expire", caller[c].keys)
    BY <2>2, <2>3 DEF Moved, Calls, Key
  <2>4. CASE j # k \/ count[j] > 0
    <3>1. count[k] > 0
      BY <1>0, <2>2, <2>4
    <3> QED
      BY <1>2, <1>3, <2>1, <3>1
  <2> QED
    BY <2>2, <2>3, <2>4
<1>e. CASE ExpireKey(c)
  <2>1. /\ UNCHANGED <<count, died>>
        /\ window' = IF count[Key(c)] > 0 THEN window \cup {Key(c)} ELSE window
    BY <1>e DEF ExpireKey
  <2> QED
    BY <1>2, <2>1
<1>f. CASE DelKey(c)
  <2>1. Calls(c, "del") /\ UNCHANGED died
    BY <1>f, DelKeyIs
  <2>2. PICK j \in {"email", "ip"} : count' = [count EXCEPT ![j] = 0] /\ window' = window \ {j}
    BY <1>f, DelKeyIs
  <2>3. j # k
    BY <1>0, <2>2
  <2> QED
    BY <1>0, <1>2, <1>3, <2>1, <2>2, <2>3
<1>i. CASE CallerDies(c)
  BY <1>0, <1>i, CallerDiesIs
<1> QED
  BY <1>a, <1>d, <1>e, <1>f, <1>i

\* An endless bucket is explained by the dead and by requests about to heal it.
LEMMA HealStep ==
  ASSUME ThrottleTypeOK, CallerInv, HealInv, NEW c \in Attempt,
         \/ Arrive(c) \/ CheckKey(c) \/ Verify(c) \/ IncrKey(c) \/ ExpireKey(c)
         \/ DelKey(c) \/ Consume(c) \/ ReadTtl(c) \/ CallerDies(c)
  PROVE  HealInv'
<1>0. /\ ThrottleTypeOK' /\ \A b \in Attempt : b # c => caller'[b] = caller[b]
      /\ count \in [ThrottleKey -> Nat] /\ died \in Nat
      /\ "bucket" \in ThrottleKey /\ count["bucket"] \in Nat
  BY ThrottleTypeStep DEF ThrottleTypeOK, ThrottleKey
<1> SUFFICES ASSUME "bucket" \notin window'
             PROVE  count'["bucket"] <= died' + Cardinality(Healing')
  BY DEF HealInv
<1>1. /\ \A b \in Attempt : b # c => (b \in Healing' <=> b \in Healing)
      /\ Healing \subseteq Attempt /\ Healing' \subseteq Attempt
  BY <1>0, OthersStay DEF Healing
<1>2. /\ IsFiniteSet(Healing') /\ Cardinality(Healing') \in Nat /\ Cardinality(Healing) \in Nat
  BY <1>1, FewRequests, ThrottleAssumption, FS_Subset, FS_CardinalityType
<1>3. /\ c \notin Healing \/ c \in Healing' => Healing \subseteq Healing'
      /\ c \notin Healing => Healing \subseteq Healing' \ {c}
      /\ Healing \subseteq Healing' \cup {c}
  BY <1>1
<1>4. ASSUME count'["bucket"] = count["bucket"], "bucket" \notin window, died' = died,
             c \notin Healing \/ c \in Healing'
      PROVE  count'["bucket"] <= died' + Cardinality(Healing')
  <2>1. Cardinality(Healing) <= Cardinality(Healing')
    BY <1>2, <1>3, <1>4, Counts
  <2> QED
    BY <1>0, <1>2, <1>4, <2>1 DEF HealInv
<1>5. ASSUME Calls(c, "idle") \/ Calls(c, "check") \/ Calls(c, "verify") \/ Calls(c, "incr")
             \/ Calls(c, "del") \/ caller[c].keys # <<"bucket">>
      PROVE  c \notin Healing
  BY <1>5 DEF Healing, Calls
<1>a. CASE Arrive(c) \/ CheckKey(c) \/ Verify(c) \/ Consume(c)
  BY <1>4, <1>5, <1>a, ArriveIs, CheckKeyIs, VerifyIs, ConsumeIs
<1>d. CASE IncrKey(c)
  <2>1. UNCHANGED <<window, died>> /\ c \notin Healing
    BY <1>5, <1>d, IncrKeyIs
  <2>2. PICK j \in ThrottleKey :
          /\ count' = [count EXCEPT ![j] = @ + 1]
          /\ j = "bucket" => /\ caller[c].keys = <<"bucket">>
                             /\ \/ Moved(c, "expire", caller[c].keys)
                                \/ Moved(c, "pttl", caller[c].keys)
    BY <1>d, IncrKeyIs
  <2>3. CASE j = "bucket"
    <3>1. c \in Healing' /\ count'["bucket"] = count["bucket"] + 1
      BY <1>0, <2>2, <2>3 DEF Healing, Moved, Calls
    <3>2. Cardinality(Healing) <= Cardinality(Healing') - 1
      BY <1>2, <1>3, <2>1, <3>1, Counts
    <3> QED
      BY <1>0, <1>2, <2>1, <3>1, <3>2 DEF HealInv
  <2>4. CASE j # "bucket"
    BY <1>0, <1>4, <2>1, <2>2, <2>4
  <2> QED
    BY <2>3, <2>4
<1>e. CASE ExpireKey(c)
  <2>1. PICK k \in ThrottleKey :
          /\ window' = IF count[k] > 0 THEN window \cup {k} ELSE window
          /\ caller[c].keys = <<"bucket">> => k = "bucket"
    BY <1>e, ExpireKeyIs, KeyListFacts
  <2>2. count' = count /\ died' = died
    BY <1>e, ExpireKeyIs
  <2>3. CASE caller[c].keys = <<"bucket">>
    <3>1. count'["bucket"] = 0
      BY <1>0, <2>1, <2>2, <2>3
    <3> QED
      BY <1>0, <1>2, <2>2, <3>1
  <2>4. CASE caller[c].keys # <<"bucket">>
    BY <1>4, <1>5, <2>1, <2>2, <2>4
  <2> QED
    BY <2>3, <2>4
<1>f. CASE DelKey(c)
  <2>1. PICK k \in {"email", "ip"} : count' = [count EXCEPT ![k] = 0] /\ window' = window \ {k}
    BY <1>f, DelKeyIs
  <2>2. count'["bucket"] = count["bucket"] /\ "bucket" \notin window
    BY <1>0, <2>1
  <2> QED
    BY <1>4, <1>5, <1>f, <2>2, DelKeyIs
<1>h. CASE ReadTtl(c)
  <2>1. Moved(c, "expire", <<"bucket">>) /\ UNCHANGED <<count, window, died>>
    BY <1>h, ReadTtlIs
  <2>2. c \in Healing'
    BY <2>1 DEF Healing, Moved, Calls
  <2> QED
    BY <1>4, <2>1, <2>2
<1>i. CASE CallerDies(c)
  <2>1. died' = died + 1 /\ UNCHANGED <<count, window>>
    BY <1>i, CallerDiesIs
  <2>2. Cardinality(Healing) <= Cardinality(Healing') + 1
    BY <1>2, <1>3, Counts
  <2> QED
    BY <1>0, <1>2, <2>1, <2>2 DEF HealInv
<1> QED
  BY <1>a, <1>d, <1>e, <1>f, <1>h, <1>i

\* The end of a window starts its counter over.
LEMMA WindowStep ==
  ASSUME CountersInv, NEW k \in ThrottleKey, WindowEnds(k)
  PROVE  CountersInv'
<1>0. /\ count' = [count EXCEPT ![k] = 0] /\ window' = window \ {k}
      /\ caller' = caller /\ died' = died /\ count \in [ThrottleKey -> Nat] /\ died \in Nat
  BY DEF WindowEnds, CountersInv, ThrottleTypeOK
<1>1. ThrottleTypeOK'
  BY <1>0 DEF CountersInv, ThrottleTypeOK
<1>2. CallerInv'
  BY <1>0 DEF CountersInv, CallerInv, Calls
<1>3. /\ \A j \in {"email", "ip"} : Passed(j)' = Passed(j)
      /\ Healing' = Healing
  BY <1>0 DEF Passed, Healing, Calls
<1>4. GuessInv'
  <2> SUFFICES ASSUME NEW j \in {"email", "ip"}
               PROVE  count'[j] + Cardinality(Passed(j)') < MaxAttempts + Cardinality(Attempt)
    BY DEF GuessInv
  <2>1. count[j] \in Nat /\ count'[j] \in Nat /\ count'[j] <= count[j]
    BY <1>0 DEF ThrottleKey
  <2>2. count[j] + Cardinality(Passed(j)) < MaxAttempts + Cardinality(Attempt)
    BY DEF CountersInv, GuessInv
  <2> QED
    BY <1>3, <2>1, <2>2, FewRequests, ThrottleAssumption
<1>5. EndlessNeedsCrash'
  <2> SUFFICES ASSUME NEW j \in ThrottleKey, count'[j] > 0, j \notin window'
               PROVE  died' > 0 \/ \E b \in Attempt : Calls(b, "expire")' /\ Key(b)' = j
    BY DEF EndlessNeedsCrash
  <2>1. j # k
    BY <1>0
  <2>2. died > 0 \/ \E b \in Attempt : Calls(b, "expire") /\ Key(b) = j
    BY <1>0, <2>1 DEF CountersInv, EndlessNeedsCrash
  <2> QED
    BY <1>0, <2>2 DEF Calls, Key
<1>6. HealInv'
  <2>1. k = "bucket" => count'["bucket"] = 0
    BY <1>0
  <2>2. k # "bucket" => count'["bucket"] = count["bucket"] /\ ("bucket" \in window' <=> "bucket" \in window)
    BY <1>0
  <2>3. Cardinality(Healing) \in Nat
    BY FewRequests
  <2> QED
    BY <1>0, <1>3, <2>1, <2>2, <2>3 DEF CountersInv, HealInv
<1> QED
  BY <1>1, <1>2, <1>4, <1>5, <1>6 DEF CountersInv

LEMMA CountersInitially == ThrottleInit => CountersInv
<1> SUFFICES ASSUME ThrottleInit PROVE CountersInv
  OBVIOUS
<1>1. ThrottleTypeOK
  BY DEF ThrottleInit, ThrottleTypeOK, CallRecord, KeyLists, NoCall
<1>2. CallerInv
  BY DEF ThrottleInit, CallerInv, Calls, NoCall
<1>3. GuessInv
  <2> SUFFICES ASSUME NEW k \in {"email", "ip"}
               PROVE  count[k] + Cardinality(Passed(k)) < MaxAttempts + Cardinality(Attempt)
    BY DEF GuessInv
  <2>1. count[k] = 0
    BY DEF ThrottleInit, ThrottleKey
  <2> QED
    BY <2>1, FewRequests, ThrottleAssumption
<1>4. EndlessNeedsCrash
  BY DEF ThrottleInit, EndlessNeedsCrash
<1>5. HealInv
  <2>1. count["bucket"] = 0 /\ died = 0
    BY DEF ThrottleInit, ThrottleKey
  <2> QED
    BY <2>1, FewRequests DEF HealInv
<1> QED
  BY <1>1, <1>2, <1>3, <1>4, <1>5 DEF CountersInv

LEMMA CountersStep == CountersInv /\ [ThrottleNext]_throttleVars => CountersInv'
<1>1. ASSUME CountersInv, UNCHANGED throttleVars PROVE CountersInv'
  <2>1. /\ \A j \in {"email", "ip"} : Passed(j)' = Passed(j)
        /\ Healing' = Healing
    BY <1>1 DEF Passed, Healing, Calls, throttleVars
  <2>2. GuessInv'
    BY <1>1, <2>1 DEF CountersInv, GuessInv, throttleVars
  <2>3. HealInv'
    BY <1>1, <2>1 DEF CountersInv, HealInv, throttleVars
  <2>4. ThrottleTypeOK' /\ CallerInv' /\ EndlessNeedsCrash'
    BY <1>1 DEF CountersInv, ThrottleTypeOK, CallerInv, EndlessNeedsCrash, Calls, Key, throttleVars
  <2> QED
    BY <2>2, <2>3, <2>4 DEF CountersInv
<1>2. ASSUME CountersInv, NEW c \in Attempt,
             \/ Arrive(c) \/ CheckKey(c) \/ Verify(c) \/ IncrKey(c) \/ ExpireKey(c)
             \/ DelKey(c) \/ Consume(c) \/ ReadTtl(c) \/ CallerDies(c)
      PROVE  CountersInv'
  BY <1>2, ThrottleTypeStep, GuessStep, EndlessStep, HealStep DEF CountersInv
<1> QED
  BY <1>1, <1>2, WindowStep DEF ThrottleNext

\* However many requests race, a counter passes the limit by fewer than there
\* are requests, only a death leaves one without an end, and an endless bucket
\* has been counted by the dead and by requests in flight alone.
THEOREM CountersStayBounded == ThrottleSpec => []CountersBounded
<1>1. CountersInv => CountersBounded
  <2> SUFFICES ASSUME CountersInv PROVE CountersBounded
    OBVIOUS
  <2>1. ThrottleTypeOK /\ GuessInv /\ EndlessNeedsCrash /\ HealInv
    BY DEF CountersInv
  <2>2. GuessesBounded
    <3> SUFFICES ASSUME NEW k \in {"email", "ip"} PROVE count[k] < MaxAttempts + Cardinality(Attempt)
      BY DEF GuessesBounded
    <3>1. count[k] \in Nat /\ count[k] + Cardinality(Passed(k)) < MaxAttempts + Cardinality(Attempt)
      BY <2>1 DEF GuessInv, ThrottleTypeOK, ThrottleKey
    <3> QED
      BY <3>1, FewRequests, ThrottleAssumption
  <2>3. EndlessBucketHeals
    <3>1. Healing \subseteq Attempt
      BY DEF Healing
    <3>2. Cardinality(Healing) \in Nat /\ Cardinality(Healing) <= Cardinality(Attempt)
      BY <3>1, FewRequests, ThrottleAssumption, FS_Subset
    <3>3. count["bucket"] \in Nat /\ died \in Nat
      BY <2>1 DEF ThrottleTypeOK, ThrottleKey
    <3> QED
      BY <2>1, <3>2, <3>3, FewRequests DEF HealInv, EndlessBucketHeals
  <2> QED
    BY <2>1, <2>2, <2>3 DEF CountersBounded
<1> QED
  BY <1>1, CountersInitially, CountersStep, PTL DEF ThrottleSpec
=============================================================================
