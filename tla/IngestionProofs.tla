-------------------------- MODULE IngestionProofs --------------------------
(* Theorems about Ingestion, for every set of events, messages, rules and   *)
(* workers and every bound on attempts and stalls.                          *)
EXTENDS Ingestion, TLAPS

\* A worker past the upsert has a conversation row to work on.
PastUpsert == {"dedupe", "insert", "priority", "notify", "rules", "log", "done"}

HasConversation ==
  \A w \in Worker : pc[w] \in PastUpsert => conv[ConvOf[Msg(w)]] \in ConvRow

\* A rejected handler leaves the queue and the workers well typed.
LEMMA FailAttemptTyped ==
  ASSUME QueueTypeOK, WorkerTypeOK, NEW w \in Worker, pc[w] # "idle", FailAttempt(w)
  PROVE  QueueTypeOK' /\ WorkerTypeOK'
<1> DEFINE e == cur[w]
<1>e. e \in Event
  BY DEF WorkerTypeOK
<1>1. QueueTypeOK'
  <2>1. CASE lock[e] = w
    <3>1. AfterFailure(attempts[e] + 1) \in JobStates
      BY DEF AfterFailure, JobStates
    <3>2. job' = [job EXCEPT ![e] = AfterFailure(attempts[e] + 1)]
      BY <2>1 DEF FailAttempt
    <3>3. job' \in [Event -> JobStates]
      BY <3>1, <3>2, <1>e DEF QueueTypeOK
    <3>4. attempts' = [attempts EXCEPT ![e] = attempts[e] + 1]
      BY <2>1 DEF FailAttempt
    <3>5. attempts' \in [Event -> Nat]
      BY <3>4, <1>e DEF QueueTypeOK
    <3>6. lock' = [lock EXCEPT ![e] = NoWorker] /\ UNCHANGED stalls
      BY <2>1 DEF FailAttempt
    <3>7. lock' \in [Event -> Worker \cup {NoWorker}]
      BY <3>6, <1>e DEF QueueTypeOK
    <3> QED
      BY <3>3, <3>5, <3>6, <3>7 DEF QueueTypeOK
  <2>2. CASE lock[e] # w
    <3>1. UNCHANGED <<job, attempts, stalls, lock>>
      BY <2>2 DEF FailAttempt
    <3> QED
      BY <3>1 DEF QueueTypeOK
  <2> QED
    BY <2>1, <2>2
<1>2. WorkerTypeOK'
  BY DEF WorkerTypeOK, FailAttempt, Release, Labels
<1> QED
  BY <1>1, <1>2

\* Every variable keeps its type through every step.
LEMMA StepTyped == TypeOK /\ HasConversation /\ [Next]_vars => TypeOK'
<1> SUFFICES ASSUME TypeOK, HasConversation, [Next]_vars
             PROVE  TypeOK'
  OBVIOUS
<1> USE IngestionAssumption DEF TypeOK
<1>q. UNCHANGED queueVars => QueueTypeOK'
  BY DEF queueVars, QueueTypeOK
<1>w. UNCHANGED <<pc, localVars>> => WorkerTypeOK'
  BY DEF localVars, WorkerTypeOK
<1>t. UNCHANGED tableVars => TableTypeOK'
  BY DEF tableVars, TableTypeOK
<1>e. UNCHANGED effectVars => EffectTypeOK'
  BY DEF effectVars, EffectTypeOK
<1>1. ASSUME NEW e \in Event, Publish(e) PROVE TypeOK'
  <2>1. QueueTypeOK'
    BY <1>1 DEF Publish, QueueTypeOK, JobStates
  <2> QED
    BY <1>1, <2>1, <1>w, <1>t, <1>e DEF Publish, localVars, tableVars, effectVars
<1>2. ASSUME NEW e \in Event, Promote(e) PROVE TypeOK'
  <2>1. QueueTypeOK'
    BY <1>2 DEF Promote, QueueTypeOK, JobStates
  <2> QED
    BY <1>2, <2>1, <1>w, <1>t, <1>e DEF Promote, localVars, tableVars, effectVars
<1>3. ASSUME NEW e \in Event, Stall(e) PROVE TypeOK'
  <2>1. QueueTypeOK'
    BY <1>3 DEF Stall, QueueTypeOK, JobStates
  <2> QED
    BY <1>3, <2>1, <1>w, <1>t, <1>e DEF Stall, localVars, tableVars, effectVars
<1>4. ASSUME NEW w \in Worker, NEW e \in Event, Take(w, e) PROVE TypeOK'
  <2>1. QueueTypeOK'
    BY <1>4 DEF Take, QueueTypeOK, JobStates
  <2>2. WorkerTypeOK'
    BY <1>4 DEF Take, WorkerTypeOK, Step, Labels
  <2> QED
    BY <1>4, <2>1, <2>2, <1>t, <1>e DEF Take, tableVars, effectVars
<1>5. ASSUME NEW w \in Worker, Complete(w) PROVE TypeOK'
  <2>1. QueueTypeOK'
    BY <1>5 DEF Complete, QueueTypeOK, JobStates, WorkerTypeOK
  <2>2. WorkerTypeOK'
    BY <1>5 DEF Complete, WorkerTypeOK, Release, Labels
  <2> QED
    BY <1>5, <2>1, <2>2, <1>t, <1>e DEF Complete, tableVars, effectVars
<1>6. ASSUME NEW w \in Worker, Throw(w) PROVE TypeOK'
  BY <1>6, FailAttemptTyped, <1>t, <1>e DEF Throw, tableVars, effectVars
<1>7. ASSUME NEW w \in Worker, Crash(w) PROVE TypeOK'
  <2>1. WorkerTypeOK'
    BY <1>7 DEF Crash, WorkerTypeOK, Release, Labels
  <2> QED
    BY <1>7, <2>1, <1>q, <1>t, <1>e DEF Crash, queueVars, tableVars, effectVars
<1>8. ASSUME NEW w \in Worker, ResolveIdentity(w) PROVE TypeOK'
  <2>1. WorkerTypeOK'
    BY <1>8 DEF ResolveIdentity, WorkerTypeOK, Step, Labels, TableTypeOK
  <2> QED
    BY <1>8, <2>1, <1>q, <1>t, <1>e DEF ResolveIdentity, queueVars, tableVars, effectVars
<1>9. ASSUME NEW w \in Worker, CreateContact(w) PROVE TypeOK'
  <2>1. CASE KnownSender(w)
    BY <1>9, <2>1, FailAttemptTyped, <1>t, <1>e DEF CreateContact, tableVars, effectVars
  <2>2. CASE ~KnownSender(w)
    <3>1. WorkerTypeOK'
      <4>1. /\ pc' = [pc EXCEPT ![w] = "upsertConv"]
            /\ contact' = [contact EXCEPT ![w] = nextId]
            /\ UNCHANGED <<cur, seen, todo, trigger, running>>
            /\ pc[w] = "newContact"
        BY <1>9, <2>2 DEF CreateContact, Step
      <4>2. nextId \in Nat
        BY DEF TableTypeOK
      <4> QED
        BY <4>1, <4>2 DEF WorkerTypeOK, Labels
    <3>2. TableTypeOK'
      BY <1>9, <2>2 DEF CreateContact, Step, WorkerTypeOK, TableTypeOK, Msg
    <3> QED
      BY <1>9, <2>2, <3>1, <3>2, <1>q, <1>e DEF CreateContact, queueVars
  <2> QED
    BY <2>1, <2>2
<1>10. ASSUME NEW w \in Worker, UpsertConversation(w) PROVE TypeOK'
  <2>1. WorkerTypeOK'
    BY <1>10 DEF UpsertConversation, WorkerTypeOK, Step, Labels, TableTypeOK, ConvRow, Msg
  <2>2. TableTypeOK'
    BY <1>10 DEF UpsertConversation, TableTypeOK, Step, WorkerTypeOK, ConvRow, Msg
  <2> QED
    BY <1>10, <2>1, <2>2, <1>q, <1>e DEF UpsertConversation, queueVars, effectVars
<1>11. ASSUME NEW w \in Worker, CheckDuplicate(w) PROVE TypeOK'
  <2>1. WorkerTypeOK'
    BY <1>11 DEF CheckDuplicate, WorkerTypeOK, Step, Labels, localVars
  <2> QED
    BY <1>11, <2>1, <1>q, <1>t, <1>e DEF CheckDuplicate, queueVars, tableVars, effectVars
<1>12. ASSUME NEW w \in Worker, CreateMessage(w) PROVE TypeOK'
  <2>1. CASE Duplicate(w)
    BY <1>12, <2>1, FailAttemptTyped, <1>t, <1>e DEF CreateMessage, tableVars, effectVars
  <2>2. CASE ~Duplicate(w)
    <3>1. WorkerTypeOK'
      <4>1. PICK l \in {"priority", "notify"} : pc' = [pc EXCEPT ![w] = l]
        BY <1>12, <2>2 DEF CreateMessage, Step
      <4>2. /\ contact' = [contact EXCEPT ![w] = 0]
            /\ UNCHANGED <<cur, seen, todo, trigger, running>>
            /\ pc[w] = "insert"
        BY <1>12, <2>2 DEF CreateMessage, Step
      <4> QED
        BY <4>1, <4>2 DEF WorkerTypeOK, Labels
    <3>2. TableTypeOK'
      BY <1>12, <2>2 DEF CreateMessage, Step, WorkerTypeOK, TableTypeOK, Msg
    <3> QED
      BY <1>12, <2>2, <3>1, <3>2, <1>q, <1>e DEF CreateMessage, queueVars
  <2> QED
    BY <2>1, <2>2
<1>13. ASSUME NEW w \in Worker, UpdatePriority(w) PROVE TypeOK'
  <2> DEFINE c == ConvOf[Msg(w)]
             row == conv[c]
  <2>1. WorkerTypeOK'
    BY <1>13 DEF UpdatePriority, WorkerTypeOK, Step, Labels
  <2>2. TableTypeOK'
    <3>1. Msg(w) \in Message /\ c \in Conversation /\ ScoreOf[Msg(w)] \in Nat
      BY <1>13 DEF UpdatePriority, Step, WorkerTypeOK, Msg
    <3>2. row \in ConvRow
      BY <1>13 DEF UpdatePriority, Step, HasConversation, PastUpsert
    <3> DEFINE new == [account  |-> row.account, lastAt |-> row.lastAt,
                       priority |-> ScoreOf[Msg(w)]]
    <3>3. new \in ConvRow
      BY <3>1, <3>2 DEF ConvRow
    <3>4. conv' = [conv EXCEPT ![c] = new]
      BY <1>13 DEF UpdatePriority
    <3> HIDE DEF c, new
    <3>5. conv' \in [Conversation -> ConvRow \cup {NoRow}]
      BY <3>1, <3>3, <3>4 DEF TableTypeOK
    <3> QED
      BY <1>13, <3>5 DEF UpdatePriority, TableTypeOK
  <2> QED
    BY <1>13, <2>1, <2>2, <1>q, <1>e DEF UpdatePriority, queueVars, effectVars
<1>14. ASSUME NEW w \in Worker, Notify(w) PROVE TypeOK'
  <2>1. WorkerTypeOK'
    BY <1>14 DEF Notify, WorkerTypeOK, Step, Labels, TableTypeOK, Msg
  <2>2. TableTypeOK'
    BY <1>14 DEF Notify, TableTypeOK
  <2>3. EffectTypeOK'
    BY <1>14 DEF Notify, EffectTypeOK, Step, WorkerTypeOK, Msg
  <2> QED
    BY <1>14, <2>1, <2>2, <2>3, <1>q DEF Notify, queueVars
<1>15. ASSUME NEW w \in Worker, NEW r \in Rule, RunRule(w, r) PROVE TypeOK'
  <2>1. WorkerTypeOK'
    <3>1. todo' = [todo EXCEPT ![w] = todo[w] \ {r}] /\ UNCHANGED <<cur, contact, seen, trigger>>
      BY <1>15 DEF RunRule
    <3>2. todo' \in [Worker -> SUBSET Rule]
      BY <3>1 DEF WorkerTypeOK
    <3>3. \/ UNCHANGED <<pc, running>>
          \/ /\ running' = [running EXCEPT ![w] = r]
             /\ pc' = [pc EXCEPT ![w] = "log"]
             /\ pc[w] = "rules"
      BY <1>15 DEF RunRule
    <3> QED
      BY <3>1, <3>2, <3>3 DEF WorkerTypeOK, Labels
  <2>2. EffectTypeOK'
    <3>1. <<r, Msg(w)>> \in Rule \X Message
      BY <1>15 DEF RunRule, WorkerTypeOK, Msg
    <3> DEFINE p == <<r, Msg(w)>>
    <3>2. CASE <<r, trigger[w]>> \in ruleLog
      BY <1>15, <3>2 DEF RunRule, EffectTypeOK
    <3>3. CASE <<r, trigger[w]>> \notin ruleLog
      <4>1. fired' = [fired EXCEPT ![p] = fired[p] + 1] /\ UNCHANGED <<notified, clocked>>
        BY <1>15, <3>3 DEF RunRule
      <4> HIDE DEF p
      <4>2. p \in Rule \X Message
        BY <3>1 DEF p
      <4> QED
        BY <4>1, <4>2 DEF EffectTypeOK
    <3> QED
      BY <3>2, <3>3
  <2> QED
    BY <1>15, <2>1, <2>2, <1>q, <1>t DEF RunRule, queueVars, tableVars
<1>16. ASSUME NEW w \in Worker, LogRule(w) PROVE TypeOK'
  <2>1. WorkerTypeOK'
    BY <1>16 DEF LogRule, WorkerTypeOK, Step, Labels
  <2>2. TableTypeOK'
    BY <1>16 DEF LogRule, TableTypeOK
  <2> QED
    BY <1>16, <2>1, <2>2, <1>q, <1>e DEF LogRule, queueVars, effectVars
<1>17. ASSUME NEW w \in Worker, UpdateClock(w) PROVE TypeOK'
  <2>1. WorkerTypeOK'
    BY <1>17 DEF UpdateClock, WorkerTypeOK, Step, Labels
  <2>2. EffectTypeOK'
    BY <1>17 DEF UpdateClock, EffectTypeOK, Step, WorkerTypeOK, Msg
  <2> QED
    BY <1>17, <2>1, <2>2, <1>q, <1>t DEF UpdateClock, queueVars, tableVars
<1>18. CASE UNCHANGED vars
  BY <1>18, <1>q, <1>w, <1>t, <1>e DEF vars
<1> QED
  BY <1>1, <1>2, <1>3, <1>4, <1>5, <1>6, <1>7, <1>8, <1>9, <1>10, <1>11, <1>12,
     <1>13, <1>14, <1>15, <1>16, <1>17, <1>18 DEF Next, Handle

\* No step takes a conversation row away.
LEMMA StepHasConversation == TypeOK /\ HasConversation /\ [Next]_vars => HasConversation'
<1> SUFFICES ASSUME TypeOK, HasConversation, [Next]_vars
             PROVE  HasConversation'
  OBVIOUS
<1> USE IngestionAssumption, NoRowAssumption
    DEF TypeOK, QueueTypeOK, WorkerTypeOK, TableTypeOK, HasConversation, PastUpsert, queueVars, localVars, tableVars, effectVars, Msg, Step
<1>1. ASSUME NEW e \in Event, Publish(e) PROVE HasConversation'
  BY <1>1 DEF Publish
<1>2. ASSUME NEW e \in Event, Promote(e) PROVE HasConversation'
  BY <1>2 DEF Promote
<1>3. ASSUME NEW e \in Event, Stall(e) PROVE HasConversation'
  BY <1>3 DEF Stall
<1>4. ASSUME NEW w \in Worker, NEW e \in Event, Take(w, e) PROVE HasConversation'
  BY <1>4 DEF Take
<1>5. ASSUME NEW w \in Worker, Complete(w) PROVE HasConversation'
  BY <1>5 DEF Complete, Release
<1>6. ASSUME NEW w \in Worker, Throw(w) PROVE HasConversation'
  BY <1>6 DEF Throw, FailAttempt, AfterFailure, Release
<1>7. ASSUME NEW w \in Worker, Crash(w) PROVE HasConversation'
  BY <1>7 DEF Crash, Release
<1>8. ASSUME NEW w \in Worker, ResolveIdentity(w) PROVE HasConversation'
  BY <1>8 DEF ResolveIdentity
<1>9. ASSUME NEW w \in Worker, CreateContact(w) PROVE HasConversation'
  <2>1. UNCHANGED conv
    BY <1>9 DEF CreateContact
  <2>2. CASE KnownSender(w)
    BY <1>9, <2>1, <2>2 DEF CreateContact, FailAttempt, Release
  <2>3. CASE ~KnownSender(w)
    BY <1>9, <2>1, <2>3 DEF CreateContact
  <2> QED
    BY <2>2, <2>3
<1>10. ASSUME NEW w \in Worker, UpsertConversation(w) PROVE HasConversation'
  <2> DEFINE c == ConvOf[Msg(w)]
  <2>1. c \in Conversation /\ \A d \in Conversation : d # c => conv'[d] = conv[d]
    BY <1>10 DEF UpsertConversation
  <2>2. conv'[c] \in ConvRow
    BY <1>10, <2>1 DEF UpsertConversation, ConvRow
  <2>3. \A v \in Worker : pc'[v] \in PastUpsert => v = w \/ pc[v] \in PastUpsert
    BY <1>10 DEF UpsertConversation
  <2> QED
    BY <1>10, <2>1, <2>2, <2>3 DEF UpsertConversation
<1>11. ASSUME NEW w \in Worker, CheckDuplicate(w) PROVE HasConversation'
  BY <1>11 DEF CheckDuplicate
<1>12. ASSUME NEW w \in Worker, CreateMessage(w) PROVE HasConversation'
  BY <1>12 DEF CreateMessage, FailAttempt, AfterFailure, Release
<1>13. ASSUME NEW w \in Worker, UpdatePriority(w) PROVE HasConversation'
  BY <1>13 DEF UpdatePriority, ConvRow
<1>14. ASSUME NEW w \in Worker, Notify(w) PROVE HasConversation'
  BY <1>14 DEF Notify
<1>15. ASSUME NEW w \in Worker, NEW r \in Rule, RunRule(w, r) PROVE HasConversation'
  BY <1>15 DEF RunRule
<1>16. ASSUME NEW w \in Worker, LogRule(w) PROVE HasConversation'
  BY <1>16 DEF LogRule
<1>17. ASSUME NEW w \in Worker, UpdateClock(w) PROVE HasConversation'
  BY <1>17 DEF UpdateClock
<1>18. CASE UNCHANGED vars
  BY <1>18 DEF vars
<1> QED
  BY <1>1, <1>2, <1>3, <1>4, <1>5, <1>6, <1>7, <1>8, <1>9, <1>10, <1>11, <1>12,
     <1>13, <1>14, <1>15, <1>16, <1>17, <1>18 DEF Next, Handle

\* Type correctness, for every behaviour of the consumer.
THEOREM IngestionTyped == Spec => [](TypeOK /\ HasConversation)
<1>1. Init => TypeOK /\ HasConversation
  BY IngestionAssumption
  DEF Init, TypeOK, QueueTypeOK, WorkerTypeOK, TableTypeOK, EffectTypeOK, JobStates, Labels, ConvRow, HasConversation, PastUpsert
<1> QED
  BY <1>1, StepTyped, StepHasConversation, PTL DEF Spec

----------------------------------------------------------------------------
\* (conversation, externalId) identifies a message, so the duplicate check and
\* the unique index both look for the message itself.
LEMMA DuplicateIsStored ==
  ASSUME TypeOK, NEW w \in Worker, cur[w] \in Event
  PROVE  Duplicate(w) <=> Stored(Msg(w))
<1>1. Msg(w) \in Message
  BY IngestionAssumption DEF Msg
<1>2. \A row \in stored : row.msg \in Message
  BY DEF TypeOK, TableTypeOK
<1> QED
  BY <1>1, <1>2, IngestionAssumption DEF Duplicate, Stored

\* The part of the state the ownership invariant reads, for workers but w.
OthersKeep(w) ==
  \A v \in Worker \ {w} : pc'[v] = pc[v] /\ cur'[v] = cur[v] /\ todo'[v] = todo[v]

\* A step that stores and fires nothing, and after which the worker that took
\* it owns nothing, keeps the invariant.
LEMMA QuietStep ==
  ASSUME OwnershipInv, NEW w \in Worker, OthersKeep(w),
         UNCHANGED <<stored, notified, fired>>,
         pc'[w] \notin Owning, pc'[w] = "done" => Stored(MsgOf[cur'[w]])
  PROVE  OwnershipInv'
<1>1. OneOwner'
  BY DEF OwnershipInv, OneOwner, OthersKeep, Stored, Msg, Owning
<1>2. EffectsFollow'
  BY DEF OwnershipInv, EffectsFollow, Stored
<1>3. OwnerProgress'
  BY DEF OwnershipInv, OwnerProgress, OthersKeep, Msg, Owning
<1> QED
  BY <1>1, <1>2, <1>3 DEF OwnershipInv

LEMMA FailAttemptQuiet ==
  ASSUME TypeOK, OwnershipInv, NEW w \in Worker, FailAttempt(w),
         UNCHANGED <<stored, notified, fired>>
  PROVE  OwnershipInv'
<1>1. OthersKeep(w) /\ pc'[w] = "idle"
  BY DEF FailAttempt, Release, OthersKeep, TypeOK, WorkerTypeOK
<1> QED
  BY <1>1, QuietStep DEF Owning

\* The inductive step of the ownership invariant.
LEMMA StepOwnership == TypeOK /\ OwnershipInv /\ [Next]_vars => OwnershipInv'
<1> SUFFICES ASSUME TypeOK, OwnershipInv, [Next]_vars
             PROVE  OwnershipInv'
  OBVIOUS
<1> USE DEF queueVars, localVars, tableVars, effectVars
<1>0. \A w \in Worker : pc[w] # "idle" => cur[w] \in Event /\ Msg(w) \in Message
  BY IngestionAssumption DEF TypeOK, WorkerTypeOK, Msg
<1>u. UNCHANGED <<pc, cur, todo, stored, notified, fired>> => OwnershipInv'
  BY DEF OwnershipInv, OneOwner, EffectsFollow, OwnerProgress, Stored, Msg
<1>1. ASSUME NEW e \in Event, Publish(e) \/ Promote(e) \/ Stall(e) PROVE OwnershipInv'
  BY <1>1, <1>u DEF Publish, Promote, Stall
<1>2. ASSUME NEW w \in Worker, NEW e \in Event, Take(w, e) PROVE OwnershipInv'
  <2>1. OthersKeep(w) /\ pc'[w] = "resolve"
    BY <1>2 DEF Take, Step, OthersKeep, TypeOK, WorkerTypeOK
  <2> QED
    BY <1>2, <2>1, QuietStep DEF Take, Owning
<1>3. ASSUME NEW w \in Worker, Complete(w) \/ Crash(w) PROVE OwnershipInv'
  <2>1. OthersKeep(w) /\ pc'[w] = "idle"
    BY <1>3 DEF Complete, Crash, Release, OthersKeep, TypeOK, WorkerTypeOK
  <2> QED
    BY <1>3, <2>1, QuietStep DEF Complete, Crash, Owning
<1>4. ASSUME NEW w \in Worker, Throw(w) PROVE OwnershipInv'
  BY <1>4, FailAttemptQuiet DEF Throw
<1>5. ASSUME NEW w \in Worker, ResolveIdentity(w) \/ UpsertConversation(w) PROVE OwnershipInv'
  <2>1. OthersKeep(w) /\ pc'[w] \in {"newContact", "upsertConv", "dedupe"}
    BY <1>5 DEF ResolveIdentity, UpsertConversation, Step, OthersKeep, TypeOK, WorkerTypeOK
  <2> QED
    BY <1>5, <2>1, QuietStep DEF ResolveIdentity, UpsertConversation, Owning
<1>6. ASSUME NEW w \in Worker, CreateContact(w) PROVE OwnershipInv'
  <2>1. CASE KnownSender(w)
    BY <1>6, <2>1, FailAttemptQuiet DEF CreateContact
  <2>2. CASE ~KnownSender(w)
    <3>1. OthersKeep(w) /\ pc'[w] = "upsertConv"
      BY <1>6, <2>2 DEF CreateContact, Step, OthersKeep, TypeOK, WorkerTypeOK
    <3> QED
      BY <1>6, <2>2, <3>1, QuietStep DEF CreateContact, Owning
  <2> QED
    BY <2>1, <2>2
<1>7. ASSUME NEW w \in Worker, CheckDuplicate(w) PROVE OwnershipInv'
  <2>1. OthersKeep(w) /\ cur' = cur /\ pc[w] = "dedupe"
        /\ pc'[w] = (IF Duplicate(w) THEN "done" ELSE "insert")
    BY <1>7 DEF CheckDuplicate, Step, OthersKeep, TypeOK, WorkerTypeOK
  <2>2. pc'[w] = "done" => Stored(MsgOf[cur'[w]])
    BY <1>0, <2>1, DuplicateIsStored DEF Msg
  <2> QED
    BY <1>7, <2>1, <2>2, QuietStep DEF CheckDuplicate, Owning
<1>8. ASSUME NEW w \in Worker, CreateMessage(w) PROVE OwnershipInv'
  <2>1. CASE Duplicate(w)
    BY <1>8, <2>1, FailAttemptQuiet DEF CreateMessage
  <2>2. CASE ~Duplicate(w)
    <3>1. /\ ~Stored(Msg(w)) /\ cur' = cur /\ todo' = todo
          /\ \A m : Stored(m)' <=> Stored(m) \/ m = Msg(w)
          /\ pc'[w] \in {"priority", "notify"}
          /\ \A v \in Worker \ {w} : pc'[v] = pc[v]
          /\ UNCHANGED <<notified, fired>>
      <4>1. /\ ~Stored(Msg(w)) /\ cur' = cur /\ todo' = todo
            /\ stored' = stored \cup {[msg |-> Msg(w), contact |-> contact[w]]}
            /\ pc[w] = "insert"
            /\ pc' = [pc EXCEPT ![w] = IF ScoreOf[Msg(w)] > seen[w] THEN "priority" ELSE "notify"]
            /\ UNCHANGED <<notified, fired>>
        BY <1>0, <1>8, <2>2, DuplicateIsStored DEF CreateMessage, Step
      <4>2. \A m : Stored(m)' <=> Stored(m) \/ m = Msg(w)
        <5> DEFINE new == [msg |-> Msg(w), contact |-> contact[w]]
        <5>1. new.msg = Msg(w)
          OBVIOUS
        <5>2. \A row : row \in stored' <=> row \in stored \/ row = new
          BY <4>1
        <5> QED
          BY <5>1, <5>2, Zenon DEF Stored
      <4> QED
        BY <4>1, <4>2 DEF TypeOK, WorkerTypeOK
    <3>2. notified[Msg(w)] = 0 /\ \A v \in Worker :
            pc[v] \in Owning \cup {"done"} => Stored(Msg(v))
      BY <1>0, <1>8, <3>1 DEF CreateMessage, OwnershipInv, EffectsFollow, OneOwner
    <3>3. OneOwner'
      BY <3>1, <3>2 DEF OwnershipInv, OneOwner, Owning, Msg
    <3>4. EffectsFollow'
      BY <3>1, <3>2 DEF OwnershipInv, EffectsFollow
    <3>5. OwnerProgress'
      BY <3>1, <3>2 DEF OwnershipInv, OwnerProgress, Msg
    <3> QED
      BY <3>3, <3>4, <3>5 DEF OwnershipInv
  <2> QED
    BY <2>1, <2>2
<1>9. ASSUME NEW w \in Worker, UpdatePriority(w) PROVE OwnershipInv'
  <2>1. /\ pc[w] = "priority" /\ pc'[w] = "notify"
        /\ \A v \in Worker \ {w} : pc'[v] = pc[v]
        /\ UNCHANGED <<cur, todo, stored, notified, fired>>
    BY <1>9 DEF UpdatePriority, Step, TypeOK, WorkerTypeOK
  <2> QED
    BY <2>1 DEF OwnershipInv, OneOwner, EffectsFollow, OwnerProgress, Owning, Stored, Msg
<1>10. ASSUME NEW w \in Worker, Notify(w) PROVE OwnershipInv'
  <2>1. /\ pc[w] = "notify" /\ pc'[w] = "rules" /\ todo'[w] = Matches[Msg(w)]
        /\ \A v \in Worker \ {w} : pc'[v] = pc[v] /\ todo'[v] = todo[v]
        /\ notified' = [notified EXCEPT ![Msg(w)] = @ + 1]
        /\ UNCHANGED <<cur, stored, fired>>
    BY <1>10 DEF Notify, Step, TypeOK, WorkerTypeOK
  <2>2. /\ Msg(w) \in Message /\ Stored(Msg(w)) /\ notified[Msg(w)] = 0
        /\ notified'[Msg(w)] = 1
        /\ \A m \in Message : m # Msg(w) => notified'[m] = notified[m]
    BY <1>0, <2>1 DEF OwnershipInv, OneOwner, OwnerProgress, Owning, TypeOK, EffectTypeOK
  <2>3. \A v \in Worker \ {w} : pc[v] \in Owning => Msg(v) \in Message /\ Msg(v) # Msg(w)
    BY <1>0, <2>1 DEF OwnershipInv, OneOwner, Owning
  <2>4. OneOwner'
    BY <2>1, <2>2 DEF OwnershipInv, OneOwner, Owning, Stored, Msg
  <2>5. EffectsFollow'
    BY <2>1, <2>2 DEF OwnershipInv, EffectsFollow, Stored
  <2>6. OwnerProgress'
    <3>1. \A r \in Matches[Msg(w)] : r \in Rule /\ fired[<<r, Msg(w)>>] = 0
      BY <2>2, IngestionAssumption DEF OwnershipInv, EffectsFollow
    <3> QED
      BY <2>1, <2>2, <2>3, <3>1 DEF OwnershipInv, OwnerProgress, Owning, Msg
  <2> QED
    BY <2>4, <2>5, <2>6 DEF OwnershipInv
<1>11. ASSUME NEW w \in Worker, NEW r \in Rule, RunRule(w, r) PROVE OwnershipInv'
  <2>1. /\ pc[w] = "rules" /\ pc'[w] \in {"rules", "log"} /\ r \in todo[w]
        /\ todo'[w] = todo[w] \ {r}
        /\ \A v \in Worker \ {w} : pc'[v] = pc[v] /\ todo'[v] = todo[v]
        /\ UNCHANGED <<cur, stored, notified>>
        /\ UNCHANGED fired \/ fired' = [fired EXCEPT ![<<r, Msg(w)>>] = @ + 1]
    BY <1>11 DEF RunRule, TypeOK, WorkerTypeOK
  <2>2. /\ Msg(w) \in Message /\ notified[Msg(w)] = 1 /\ fired[<<r, Msg(w)>>] = 0
        /\ fired'[<<r, Msg(w)>>] \in {0, 1}
        /\ \A q \in Rule, m \in Message :
             <<q, m>> # <<r, Msg(w)>> => fired'[<<q, m>>] = fired[<<q, m>>]
    BY <1>0, <2>1 DEF OwnershipInv, OwnerProgress, TypeOK, EffectTypeOK
  <2>3. \A v \in Worker \ {w} : pc[v] \in Owning => Msg(v) \in Message /\ Msg(v) # Msg(w)
    BY <1>0, <2>1 DEF OwnershipInv, OneOwner, Owning
  <2>4. OneOwner'
    BY <2>1 DEF OwnershipInv, OneOwner, Owning, Stored, Msg
  <2>5. EffectsFollow'
    BY <2>1, <2>2 DEF OwnershipInv, EffectsFollow, Stored
  <2>6. \A v \in Worker : todo[v] \subseteq Rule
    BY DEF TypeOK, WorkerTypeOK
  <2>7. OwnerProgress'
    BY <2>1, <2>2, <2>3, <2>6 DEF OwnershipInv, OwnerProgress, Owning, Msg
  <2> QED
    BY <2>4, <2>5, <2>7 DEF OwnershipInv
<1>12. ASSUME NEW w \in Worker, LogRule(w) \/ UpdateClock(w) PROVE OwnershipInv'
  <2>1. /\ pc[w] \in {"rules", "log"} /\ pc'[w] \in {"rules", "done"}
        /\ \A v \in Worker \ {w} : pc'[v] = pc[v]
        /\ UNCHANGED <<cur, todo, stored, notified, fired>>
    BY <1>12 DEF LogRule, UpdateClock, Step, TypeOK, WorkerTypeOK
  <2> QED
    BY <2>1 DEF OwnershipInv, OneOwner, EffectsFollow, OwnerProgress, Owning, Stored, Msg
<1>13. CASE UNCHANGED vars
  BY <1>13, <1>u DEF vars
<1> QED
  BY <1>1, <1>2, <1>3, <1>4, <1>5, <1>6, <1>7, <1>8, <1>9, <1>10, <1>11, <1>12, <1>13
  DEF Next, Handle

\* No interleaving of deliveries, retries, stalls and crashes notifies a
\* message twice or runs a rule twice for it.
THEOREM EffectsAtMostOnce == Spec => []NeverDoubleFires
<1>1. Init => OwnershipInv
  BY DEF Init, OwnershipInv, OneOwner, EffectsFollow, OwnerProgress, Owning, Stored
<1>2. OwnershipInv => NeverDoubleFires
  BY DEF OwnershipInv, EffectsFollow, NeverDoubleFires
<1> QED
  BY <1>1, <1>2, IngestionTyped, StepOwnership, PTL DEF Spec

----------------------------------------------------------------------------
\* Rows of messages are never removed.
LEMMA StoredGrows == [Next]_vars => stored \subseteq stored'
BY DEF Next, Handle, vars, queueVars, localVars, tableVars, Publish, Promote, Stall,
       Take, Complete, Throw, Crash, ResolveIdentity, CreateContact,
       UpsertConversation, CheckDuplicate, CreateMessage, UpdatePriority, Notify,
       RunRule, LogRule, UpdateClock

\* Only Complete acknowledges a job.
LEMMA OnlyCompleteAcknowledges ==
  ASSUME TypeOK, [Next]_vars, NEW e \in Event, job'[e] = "completed", job[e] # "completed"
  PROVE  \E w \in Worker : Complete(w) /\ cur[w] = e
<1> USE DEF TypeOK, QueueTypeOK, WorkerTypeOK
<1>1. ASSUME NEW f \in Event, Publish(f) \/ Promote(f) \/ Stall(f) PROVE FALSE
  BY <1>1 DEF Publish, Promote, Stall
<1>2. ASSUME NEW w \in Worker, NEW f \in Event, Take(w, f) PROVE FALSE
  BY <1>2 DEF Take
<1>3. ASSUME NEW w \in Worker, FailAttempt(w) PROVE FALSE
  BY <1>3 DEF FailAttempt, AfterFailure
<1>4. ASSUME NEW w \in Worker, Handle(w), ~Complete(w) PROVE job' = job
  BY <1>3, <1>4 DEF Handle, ResolveIdentity, CreateContact, UpsertConversation,
    CheckDuplicate, CreateMessage, UpdatePriority, Notify, RunRule, LogRule,
    UpdateClock, queueVars
<1>5. ASSUME NEW w \in Worker, Throw(w) \/ Crash(w) PROVE FALSE
  BY <1>3, <1>5 DEF Throw, Crash, queueVars
<1>6. CASE UNCHANGED vars
  BY <1>6 DEF vars, queueVars
<1>7. ASSUME NEW w \in Worker, Complete(w) PROVE cur[w] = e
  BY <1>7 DEF Complete
<1> QED
  BY <1>1, <1>2, <1>4, <1>5, <1>6, <1>7 DEF Next

\* A job BullMQ has forgotten as completed has its message in the database.
THEOREM AcknowledgedIsStored == Spec => []CompletedIsStored
<1>1. Init => OwnershipInv /\ CompletedIsStored
  BY DEF Init, OwnershipInv, OneOwner, EffectsFollow, OwnerProgress, Owning, Stored,
         CompletedIsStored
<1>2. TypeOK /\ OwnershipInv /\ CompletedIsStored /\ [Next]_vars => CompletedIsStored'
  <2> SUFFICES ASSUME TypeOK, OwnershipInv, CompletedIsStored, [Next]_vars,
                      NEW e \in Event, job'[e] = "completed"
               PROVE  Stored(MsgOf[e])'
    BY DEF CompletedIsStored
  <2>1. Stored(MsgOf[e])
    <3>1. CASE job[e] = "completed"
      BY <3>1 DEF CompletedIsStored
    <3>2. CASE job[e] # "completed"
      <4>1. PICK w \in Worker : Complete(w) /\ cur[w] = e
        BY <3>2, OnlyCompleteAcknowledges
      <4> QED
        BY <4>1 DEF Complete, OwnershipInv, OneOwner, Msg
    <3> QED
      BY <3>1, <3>2
  <2> QED
    BY <2>1, StoredGrows DEF Stored
<1> QED
  BY <1>1, <1>2, IngestionTyped, StepOwnership, PTL DEF Spec

----------------------------------------------------------------------------
\* A worker between the resolution and the insert holds the sender's contact.
HasContact(w) ==
  pc[w] \in {"upsertConv", "dedupe", "insert"}
    => <<SenderOf[MsgOf[cur[w]]], contact[w]>> \in identity

ContactInv == OneContactPerSender /\ \A w \in Worker : HasContact(w)

\* The part of the state HasContact reads, for workers but w.
OthersHold(w) ==
  \A v \in Worker : v # w => pc'[v] = pc[v] /\ cur'[v] = cur[v] /\ contact'[v] = contact[v]

\* A step that resolves nothing and stores nothing.
LEMMA QuietContact ==
  ASSUME ContactInv, NEW w \in Worker, OthersHold(w), UNCHANGED <<identity, stored>>,
         HasContact(w)'
  PROVE  ContactInv'
<1>1. OneContactPerSender'
  BY DEF ContactInv, OneContactPerSender
<1>2. ASSUME NEW v \in Worker PROVE HasContact(v)'
  BY DEF ContactInv, HasContact, OthersHold
<1> QED
  BY <1>1, <1>2 DEF ContactInv

LEMMA FailAttemptContact ==
  ASSUME TypeOK, ContactInv, NEW w \in Worker, FailAttempt(w), UNCHANGED <<identity, stored>>
  PROVE  ContactInv'
<1>1. OthersHold(w) /\ pc'[w] = "idle"
  BY DEF FailAttempt, Release, OthersHold, TypeOK, WorkerTypeOK
<1> QED
  BY <1>1, QuietContact DEF HasContact

\* The inductive step: the index lets one identity per sender in, and a message
\* takes the contact its worker resolved.
LEMMA StepContact == TypeOK /\ ContactInv /\ [Next]_vars => ContactInv'
<1> SUFFICES ASSUME TypeOK, ContactInv, [Next]_vars
             PROVE  ContactInv'
  OBVIOUS
<1> USE DEF TypeOK, WorkerTypeOK, tableVars, localVars, effectVars, queueVars, Msg, Step
<1>1. ASSUME UNCHANGED <<pc, cur, contact, identity, stored>> PROVE ContactInv'
  BY <1>1 DEF ContactInv, OneContactPerSender, HasContact
<1>2. ASSUME NEW e \in Event, Publish(e) \/ Promote(e) \/ Stall(e) PROVE ContactInv'
  BY <1>1, <1>2 DEF Publish, Promote, Stall
<1>3. ASSUME NEW w \in Worker, \/ \E e \in Event : Take(w, e)
                               \/ Complete(w) \/ Crash(w) \/ Notify(w) \/ UpdateClock(w)
                               \/ LogRule(w) \/ UpdatePriority(w)
                               \/ \E r \in Rule : RunRule(w, r)
      PROVE  ContactInv'
  <2>1. /\ OthersHold(w) /\ UNCHANGED <<identity, stored>>
        /\ pc'[w] \in {"idle", "resolve", "rules", "log", "notify", "done"}
    BY <1>3 DEF OthersHold, Take, Complete, Crash, Release, Notify, UpdateClock, LogRule,
      UpdatePriority, RunRule
  <2> QED
    BY <2>1, QuietContact DEF HasContact
<1>4. ASSUME NEW w \in Worker, Throw(w) PROVE ContactInv'
  BY <1>4, FailAttemptContact DEF Throw
<1>5. ASSUME NEW w \in Worker, ResolveIdentity(w) PROVE ContactInv'
  <2>1. OthersHold(w) /\ UNCHANGED <<identity, stored, cur>>
    BY <1>5 DEF ResolveIdentity, OthersHold
  <2>2. HasContact(w)'
    <3>1. CASE KnownSender(w) /\ pc'[w] = "upsertConv"
      <4>1. PICK row \in identity : /\ row[1] = SenderOf[Msg(w)]
                                    /\ contact' = [contact EXCEPT ![w] = row[2]]
        BY <1>5, <3>1 DEF ResolveIdentity
      <4>2. row = <<row[1], row[2]>>
        BY DEF TableTypeOK
      <4> QED
        BY <2>1, <4>1, <4>2 DEF HasContact
    <3>2. CASE pc'[w] = "newContact"
      BY <3>2 DEF HasContact
    <3> QED
      BY <1>5, <3>1, <3>2 DEF ResolveIdentity, KnownSender
  <2> QED
    BY <2>1, <2>2, QuietContact
<1>6. ASSUME NEW w \in Worker, CreateContact(w) PROVE ContactInv'
  <2>1. CASE KnownSender(w)
    BY <1>6, <2>1, FailAttemptContact DEF CreateContact
  <2>2. CASE ~KnownSender(w)
    <3>1. /\ identity' = identity \cup {<<SenderOf[Msg(w)], nextId>>}
          /\ UNCHANGED <<cur, stored>> /\ OthersHold(w) /\ contact'[w] = nextId
      BY <1>6, <2>2 DEF CreateContact, OthersHold
    <3>2. \A a \in identity : a[1] # SenderOf[Msg(w)]
      BY <2>2 DEF KnownSender
    <3>3. OneContactPerSender'
      BY <3>1, <3>2 DEF ContactInv, OneContactPerSender
    <3>4. ASSUME NEW v \in Worker PROVE HasContact(v)'
      BY <3>1 DEF ContactInv, HasContact, OthersHold
    <3> QED
      BY <3>3, <3>4 DEF ContactInv
  <2> QED
    BY <2>1, <2>2
<1>7. ASSUME NEW w \in Worker, UpsertConversation(w) \/ CheckDuplicate(w) PROVE ContactInv'
  <2>1. /\ OthersHold(w) /\ UNCHANGED <<identity, stored, cur, contact>>
        /\ pc[w] \in {"upsertConv", "dedupe"}
    BY <1>7 DEF UpsertConversation, CheckDuplicate, OthersHold
  <2>2. HasContact(w)'
    BY <2>1 DEF ContactInv, HasContact
  <2> QED
    BY <2>1, <2>2, QuietContact
<1>8. ASSUME NEW w \in Worker, CreateMessage(w) PROVE ContactInv'
  <2>1. CASE Duplicate(w)
    BY <1>8, <2>1, FailAttemptContact DEF CreateMessage
  <2>2. CASE ~Duplicate(w)
    <3> DEFINE new == [msg |-> Msg(w), contact |-> contact[w]]
    <3>1. /\ stored' = stored \cup {new} /\ UNCHANGED <<cur, identity>> /\ OthersHold(w)
          /\ pc[w] = "insert" /\ pc'[w] \in {"priority", "notify"}
      BY <1>8, <2>2 DEF CreateMessage, OthersHold
    <3>2. <<SenderOf[new.msg], new.contact>> \in identity
      BY <3>1 DEF ContactInv, HasContact
    <3> HIDE DEF new
    <3>3. OneContactPerSender'
      BY <3>1, <3>2 DEF ContactInv, OneContactPerSender
    <3>4. ASSUME NEW v \in Worker PROVE HasContact(v)'
      BY <3>1 DEF ContactInv, HasContact, OthersHold
    <3> QED
      BY <3>3, <3>4 DEF ContactInv
  <2> QED
    BY <2>1, <2>2
<1>9. CASE UNCHANGED vars
  BY <1>1, <1>9 DEF vars
<1> QED
  BY <1>2, <1>3, <1>4, <1>5, <1>6, <1>7, <1>8, <1>9 DEF Next, Handle

\* However the consumers race to meet a sender, the workspace has one contact
\* for it, and every message of it is linked to that contact.
THEOREM SenderHasOneContact == Spec => []OneContactPerSender
<1>1. Init => ContactInv
  BY DEF Init, ContactInv, OneContactPerSender, HasContact
<1>2. ContactInv => OneContactPerSender
  BY DEF ContactInv
<1> QED
  BY <1>1, <1>2, IngestionTyped, StepContact, PTL DEF Spec

----------------------------------------------------------------------------
\* Every step of the consumer is a step of OncePerMessage, or none.
LEMMA StepImplements ==
  TypeOK /\ OwnershipInv /\ [Next]_vars => [Once!OnceNext]_(Once!onceVars)
<1> SUFFICES ASSUME TypeOK, OwnershipInv, [Next]_vars
             PROVE  [Once!OnceNext]_(Once!onceVars)
  OBVIOUS
<1> USE DEF TypeOK, queueVars, localVars, tableVars, effectVars, Msg, Step
<1> DEFINE M == {m \in Message : Stored(m)}
<1>q. UNCHANGED <<stored, notified, fired>> => UNCHANGED Once!onceVars
  BY DEF Once!onceVars, Stored
<1>1. ASSUME NEW w \in Worker, CreateMessage(w) PROVE [Once!OnceNext]_(Once!onceVars)
  <2>1. cur[w] \in Event /\ MsgOf[cur[w]] \in Message
    BY <1>1, IngestionAssumption DEF CreateMessage, WorkerTypeOK
  <2> DEFINE m == MsgOf[cur[w]]
  <2>2. CASE Duplicate(w)
    BY <1>1, <2>2, <1>q DEF CreateMessage
  <2>3. CASE ~Duplicate(w)
    <3>1. stored' = stored \cup {[msg |-> m, contact |-> contact[w]]}
          /\ UNCHANGED <<notified, fired>>
      BY <1>1, <2>3 DEF CreateMessage
    <3>2. ~Stored(m)
      BY <2>1, <2>3, DuplicateIsStored
    <3>3. M' = M \cup {m} /\ m \notin M
      <4> DEFINE new == [msg |-> m, contact |-> contact[w]]
      <4>1. stored' = stored \cup {new} /\ new.msg = m
        BY <3>1
      <4> HIDE DEF new
      <4>2. ASSUME NEW n \in Message PROVE Stored(n)' <=> Stored(n) \/ n = m
        BY <4>1 DEF Stored
      <4> QED
        BY <2>1, <3>2, <4>2
    <3>4. Once!Store(m)
      BY <3>1, <3>3 DEF Once!Store
    <3> QED
      BY <2>1, <3>4 DEF Once!OnceNext
  <2> QED
    BY <2>2, <2>3
<1>2. ASSUME NEW w \in Worker, Notify(w) PROVE [Once!OnceNext]_(Once!onceVars)
  <2>1. cur[w] \in Event /\ MsgOf[cur[w]] \in Message
    BY <1>2, IngestionAssumption DEF Notify, WorkerTypeOK
  <2> DEFINE m == MsgOf[cur[w]]
  <2>2. notified[m] = 0 /\ Stored(m)
    BY <1>2 DEF Notify, OwnershipInv, OwnerProgress, OneOwner, Owning
  <2>3. notified' = [notified EXCEPT ![m] = 1] /\ UNCHANGED <<stored, fired>>
    BY <1>2, <2>2 DEF Notify
  <2>4. M' = M /\ m \in M
    BY <2>1, <2>2, <2>3 DEF Stored
  <2>5. Once!Announce(m)
    BY <2>2, <2>3, <2>4 DEF Once!Announce
  <2> QED
    BY <2>1, <2>5 DEF Once!OnceNext
<1>3. ASSUME NEW w \in Worker, NEW r \in Rule, RunRule(w, r)
      PROVE  [Once!OnceNext]_(Once!onceVars)
  <2>1. cur[w] \in Event /\ MsgOf[cur[w]] \in Message
    BY <1>3, IngestionAssumption DEF RunRule, WorkerTypeOK
  <2> DEFINE m == MsgOf[cur[w]]
  <2>2. CASE <<r, trigger[w]>> \in ruleLog
    BY <1>3, <2>2, <1>q DEF RunRule
  <2>3. CASE <<r, trigger[w]>> \notin ruleLog
    <3>1. notified[m] = 1 /\ r \in Matches[m] /\ fired[<<r, m>>] = 0
      BY <1>3 DEF RunRule, OwnershipInv, OwnerProgress
    <3>2. fired' = [fired EXCEPT ![<<r, m>>] = 1] /\ UNCHANGED <<stored, notified>>
      BY <1>3, <2>3, <3>1 DEF RunRule
    <3>3. M' = M
      BY <3>2 DEF Stored
    <3>4. Once!Fire(r, m)
      BY <3>1, <3>2, <3>3 DEF Once!Fire
    <3> QED
      BY <2>1, <3>4 DEF Once!OnceNext
  <2> QED
    BY <2>2, <2>3
<1>4. ASSUME NEW e \in Event, Publish(e) \/ Promote(e) \/ Stall(e)
      PROVE  UNCHANGED <<stored, notified, fired>>
  BY <1>4 DEF Publish, Promote, Stall
<1>5. ASSUME NEW w \in Worker, \/ \E e \in Event : Take(w, e)
                               \/ Throw(w) \/ Crash(w) \/ Complete(w) \/ ResolveIdentity(w)
                               \/ CreateContact(w) \/ UpsertConversation(w) \/ CheckDuplicate(w)
                               \/ UpdatePriority(w) \/ LogRule(w) \/ UpdateClock(w)
      PROVE  UNCHANGED <<stored, notified, fired>>
  BY <1>5 DEF Take, Throw, Crash, Complete, ResolveIdentity, CreateContact, UpsertConversation,
    CheckDuplicate, UpdatePriority, LogRule, UpdateClock
<1>6. UNCHANGED vars => UNCHANGED <<stored, notified, fired>>
  BY DEF vars
<1> QED
  BY <1>q, <1>1, <1>2, <1>3, <1>4, <1>5, <1>6 DEF Next, Handle

\* The consumer implements OncePerMessage, whose steps say in what order and
\* how often a message is stored, announced and acted on.
THEOREM IngestionImplementsOnce == Spec => ImplementsOnce
<1>1. Init => Once!OnceInit
  BY DEF Init, Once!OnceInit, Stored
<1>2. Init => OwnershipInv
  BY DEF Init, OwnershipInv, OneOwner, EffectsFollow, OwnerProgress, Owning, Stored
<1> QED
  BY <1>1, <1>2, IngestionTyped, StepOwnership, StepImplements, PTL
  DEF Spec, ImplementsOnce, Once!OnceSpec
============================================================================
