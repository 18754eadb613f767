--------------------------- MODULE RecordsProofs ----------------------------
(***************************************************************************)
(* Records that several requests read, change and write back: edits of     *)
(* versioned rows, the chains of a rule, contacts and their identities,    *)
(* linked accounts with their secrets, webhook and cursors. For any number *)
(* of requests, rows, identities, messages and crashes.                    *)
(***************************************************************************)
EXTENDS VersionedEdits, RuleActions, IdentityGraph, LinkedAccounts,
        FiniteSetTheorems, NaturalsInduction, WellFoundedInduction, SequenceTheorems, TLAPS

-----------------------------------------------------------------------------
\* Edits of versioned rows.

RowRecord == [version : Nat, fields : [Field -> Nat]]

EditorRecord ==
  [pc : {"idle", "read", "insert", "write", "reread", "delete"}, seen : Nat,
   named : SUBSET Field, base : RowRecord]

EditsTypeOK ==
  /\ record \in RowRecord
  /\ editor \in [Editor -> EditorRecord]

\* What the handler has read lies between the version of the form and the row
\* of now, and is that row if no version came in between.
BaseInv ==
  \A e \in Editor :
    /\ editor[e].seen <= record.version
    /\ Editing(e, "write") =>
         /\ editor[e].seen <= editor[e].base.version
         /\ editor[e].base.version <= record.version
         /\ editor[e].base.version = record.version => editor[e].base.fields = record.fields

EditsInv == EditsTypeOK /\ BaseInv

\* The initial state satisfies the invariant.
LEMMA EditsInitially == EditsInit => EditsInv
  BY DEF EditsInit, EditsInv, EditsTypeOK, BaseInv, RowRecord, EditorRecord, NoRecord, NoEdit,
         Editing

\* Rows and editors of the forms the actions write.
LEMMA RowsTyped ==
  /\ NoRecord \in RowRecord
  /\ \A version \in Nat : FirstRow(version) \in RowRecord /\ FirstRow(version).version = version
  BY DEF NoRecord, FirstRow, RowRecord

\* An editor at rest.
LEMMA IdleTyped == \A seen \in Nat : NoEdit(seen) \in EditorRecord
  BY RowsTyped DEF NoEdit, EditorRecord

\* An editor that moves on, or comes to rest.
LEMMA EditorTyped ==
  ASSUME EditsTypeOK, NEW e \in Editor
  PROVE  /\ editor[e].seen \in Nat /\ record.version \in Nat
         /\ \A seen \in Nat : EndsWith(e, seen) => editor' \in [Editor -> EditorRecord]
         /\ \A pc \in {"idle", "read", "insert", "write", "reread", "delete"} :
              EditorGoes(e, pc) => editor' \in [Editor -> EditorRecord]
<1>1. editor[e].seen \in Nat /\ record.version \in Nat
  BY DEF EditsTypeOK, EditorRecord, RowRecord
<1>2. ASSUME NEW seen \in Nat, EndsWith(e, seen) PROVE editor' \in [Editor -> EditorRecord]
  BY <1>2, IdleTyped DEF EditsTypeOK, EndsWith
<1>3. ASSUME NEW pc \in {"idle", "read", "insert", "write", "reread", "delete"}, EditorGoes(e, pc)
      PROVE  editor' \in [Editor -> EditorRecord]
  <2>1. [editor[e] EXCEPT !.pc = pc] \in EditorRecord
    BY DEF EditsTypeOK, EditorRecord
  <2> QED
    BY <1>3, <2>1 DEF EditsTypeOK, EditorGoes
<1> QED
  BY <1>1, <1>2, <1>3

\* Types, for every action.
LEMMA EditsTyped == EditsInv /\ [EditsNext]_editVars => EditsTypeOK'
<1> SUFFICES ASSUME EditsInv, [EditsNext]_editVars PROVE EditsTypeOK'
  OBVIOUS
<1> USE EditorTyped DEF EditsInv, EditsTypeOK
<1>1. ASSUME NEW e \in Editor, CreateRule(e) \/ Load(e) \/ EditLost(e) \/ Insert(e)
      PROVE  EditsTypeOK'
  BY <1>1, RowsTyped DEF CreateRule, Load, EditLost, Insert
<1>2. ASSUME NEW e \in Editor, NEW named \in SUBSET Field \ {{}}, Edit(e, named)
      PROVE  EditsTypeOK'
  <2>1. [editor[e] EXCEPT !.pc = "read", !.named = named] \in EditorRecord
    BY DEF EditorRecord
  <2>2. editor' = [editor EXCEPT ![e] = [editor[e] EXCEPT !.pc = "read", !.named = named]]
    BY <1>2 DEF Edit
  <2> QED
    BY <1>2, <2>1, <2>2 DEF Edit
<1>3. ASSUME NEW e \in Editor, ReadExisting(e)
      PROVE  EditsTypeOK'
  <2>1. [editor[e] EXCEPT !.pc = "write", !.base = record] \in EditorRecord
    BY DEF EditorRecord
  <2>2. CASE editor' = [editor EXCEPT ![e].pc = "write", ![e].base = record]
    <3>1. editor' = [editor EXCEPT ![e] = [editor[e] EXCEPT !.pc = "write", !.base = record]]
      BY <2>2
    <3> QED
      BY <1>3, <2>1, <3>1 DEF ReadExisting
  <2>3. CASE EditorGoes(e, "insert") \/ EndsWith(e, editor[e].seen)
    BY <1>3, <2>3 DEF ReadExisting
  <2> QED
    BY <1>3, <2>2, <2>3 DEF ReadExisting
<1>4. ASSUME NEW e \in Editor, UpdateMany(e)
      PROVE  EditsTypeOK'
  <2>1. Merged(e) \in [Field -> Nat]
    BY DEF Merged, RowRecord, EditorRecord
  <2>2. [version |-> record.version + 1, fields |-> Merged(e)] \in RowRecord
    BY <2>1 DEF RowRecord
  <2> QED
    BY <1>4, <2>2 DEF UpdateMany
<1>5. ASSUME NEW e \in Editor, Reread(e) \/ ReadDoomed(e) \/ DeleteRule(e)
      PROVE  EditsTypeOK'
  BY <1>5 DEF Reread, ReadDoomed, DeleteRule
<1>6. CASE UNCHANGED editVars
  BY <1>6 DEF editVars
<1> QED
  BY <1>1, <1>2, <1>3, <1>4, <1>5, <1>6 DEF EditsNext

\* What was read, for every action.
LEMMA BasesHold == EditsInv /\ [EditsNext]_editVars => BaseInv'
<1> SUFFICES ASSUME EditsInv, [EditsNext]_editVars PROVE BaseInv'
  OBVIOUS
<1> USE DEF EditsInv, EditsTypeOK, EditorRecord, RowRecord, NoEdit, BaseInv, Editing,
            EditorGoes, EndsWith
<1>1. ASSUME NEW e \in Editor, CreateRule(e) \/ Insert(e)
      PROVE  BaseInv'
  BY <1>1 DEF CreateRule, Insert, FirstRow, Exists
<1>2. ASSUME NEW e \in Editor, Load(e) \/ EditLost(e) \/ Reread(e) \/ ReadDoomed(e)
      PROVE  BaseInv'
  BY <1>2 DEF Load, EditLost, Reread, ReadDoomed
<1>3. ASSUME NEW e \in Editor, NEW named \in SUBSET Field \ {{}}, Edit(e, named)
      PROVE  BaseInv'
  BY <1>3 DEF Edit
<1>4. ASSUME NEW e \in Editor, ReadExisting(e)
      PROVE  BaseInv'
  <2>1. UNCHANGED record /\ \A x \in Editor \ {e} : editor'[x] = editor[x]
    BY <1>4 DEF ReadExisting
  <2>2. /\ editor'[e].seen = editor[e].seen
        /\ editor'[e].pc = "write" => editor'[e].base = record
    BY <1>4 DEF ReadExisting
  <2> QED
    BY <2>1, <2>2
<1>5. ASSUME NEW e \in Editor, UpdateMany(e)
      PROVE  BaseInv'
  <2>1. CASE UNCHANGED record
    BY <1>5, <2>1 DEF UpdateMany
  <2>2. CASE record' = [version |-> record.version + 1, fields |-> Merged(e)] /\ EditorGoes(e, "reread")
    <3>1. record'.version = record.version + 1
      BY <2>2
    <3>2. \A x \in Editor : /\ editor'[x].seen = editor[x].seen /\ editor'[x].base = editor[x].base
                            /\ editor'[x].pc = "write" => editor[x].pc = "write"
      BY <2>2
    <3> QED
      BY <3>1, <3>2
  <2> QED
    BY <1>5, <2>1, <2>2 DEF UpdateMany
<1>6. ASSUME NEW e \in Editor, DeleteRule(e)
      PROVE  BaseInv'
  BY <1>6 DEF DeleteRule
<1>7. CASE UNCHANGED editVars
  BY <1>7 DEF editVars
<1> QED
  BY <1>1, <1>2, <1>3, <1>4, <1>5, <1>6, <1>7 DEF EditsNext

\* The step that raises the version under an editor who is about to write, and
\* moves that editor, is the editor's own write.
LEMMA OnlyTheWriterMoves ==
  ASSUME EditsInv, [EditsNext]_editVars, NEW e \in Editor, Editing(e, "write"),
         record'.version > record.version, editor'[e] # editor[e]
  PROVE  UpdateMany(e)
<1> USE DEF EditsInv, EditsTypeOK, EditorRecord, RowRecord, NoEdit, Editing, EditorGoes, EndsWith
<1>1. ASSUME NEW x \in Editor, CreateRule(x) \/ Load(x) \/ ReadExisting(x) \/ Insert(x)
      PROVE  FALSE
  BY <1>1 DEF CreateRule, Load, ReadExisting, Insert
<1>2. ASSUME NEW x \in Editor, Reread(x) \/ ReadDoomed(x) \/ DeleteRule(x) \/ EditLost(x)
      PROVE  FALSE
  BY <1>2 DEF Reread, ReadDoomed, DeleteRule, EditLost
<1>3. ASSUME NEW x \in Editor, NEW named \in SUBSET Field \ {{}}, Edit(x, named)
      PROVE  FALSE
  BY <1>3 DEF Edit
<1>4. ASSUME NEW x \in Editor, UpdateMany(x)
      PROVE  x = e
  BY <1>4 DEF UpdateMany
<1>5. ~ UNCHANGED editVars
  BY DEF editVars
<1> QED
  BY <1>1, <1>2, <1>3, <1>4, <1>5 DEF EditsNext

\* The write replaces the version of the form and keeps what was not sent.
LEMMA WriteKeepsTheRest ==
  ASSUME EditsInv, NEW e \in Editor, UpdateMany(e), record'.version > record.version
  PROVE  /\ editor[e].seen = record.version
         /\ \A f \in Field \ editor[e].named : record'.fields[f] = record.fields[f]
<1> USE DEF EditsInv, EditsTypeOK, EditorRecord, RowRecord
<1>1. /\ editor[e].seen = record.version
      /\ record' = [version |-> record.version + 1, fields |-> Merged(e)]
  BY DEF UpdateMany, Matches
<1>2. editor[e].base.fields = record.fields
  BY <1>1 DEF UpdateMany, BaseInv, Editing
<1>3. record'.fields = Merged(e)
  BY <1>1
<1> QED
  BY <1>1, <1>2, <1>3 DEF Merged

\* An accepted edit was made on the version it replaces and leaves the fields
\* it did not send (RulesController.update, NotificationPreferences
\* Controller.update).
THEOREM NoEditIsLost == EditsSpec => NoLostEdit
<1>1. EditsInv /\ [EditsNext]_editVars => EditsInv'
  BY EditsTyped, BasesHold DEF EditsInv
<1>2. EditsInv /\ [EditsNext]_editVars =>
        [\A e \in Editor :
           Editing(e, "write") /\ record'.version > record.version /\ editor'[e] # editor[e] =>
             /\ editor[e].seen = record.version
             /\ \A f \in Field \ editor[e].named : record'.fields[f] = record.fields[f]]_editVars
  BY OnlyTheWriterMoves, WriteKeepsTheRest
<1> QED
  BY <1>1, <1>2, EditsInitially, PTL DEF EditsSpec, NoLostEdit

-----------------------------------------------------------------------------
\* Chains of the actions of a rule.

Result == {"success", "error"}

RunRecord ==
  [pc : {"idle", "step", "write", "log", "thrown"} \cup Logged, chain : Seq(ChainStep),
   results : Seq(Result), seen : SUBSET Tag]

ChainTypeOK ==
  /\ tags \subseteq Tag /\ applied \subseteq Tag
  /\ run \in [Run -> RunRecord]
  /\ tookPlace \in [Run -> SUBSET Nat]

\* What a run reported as a success took effect, unless it was a webhook's.
ReportsTrue(r) ==
  \A i \in 1..Len(run[r].results) :
    run[r].results[i] = "success" => (run[r].chain[i] = Webhook \/ i \in tookPlace[r])

\* A run has a result for each step it is past, or has lost them all.
Accounted(r) ==
  /\ run[r].pc \in {"step", "write"} => Len(run[r].results) < Len(run[r].chain)
  /\ run[r].pc = "write" => CurrentStep(r) \in Tag
  /\ run[r].pc = "thrown" => LogIsEmpty(r)
  /\ run[r].pc = "log" => Len(run[r].results) = Len(run[r].chain)
  /\ run[r].pc \in Logged =>
       \/ run[r].pc = "failure" /\ LogIsEmpty(r)
       \/ Len(run[r].results) = Len(run[r].chain) /\ run[r].pc = Status(run[r].results)

ResultsInv == \A r \in Run : ReportsTrue(r) /\ Accounted(r)

ChainInv == ChainTypeOK /\ ResultsInv /\ TagsSurvive

\* The status tells whether all steps, or none, succeeded.
LEMMA StatusTellsAll ==
  ASSUME NEW results \in Seq(Result)
  PROVE  /\ Status(results) \in Logged
         /\ Status(results) = "success" =>
              \A i \in 1..Len(results) : results[i] = "success"
         /\ Status(results) = "failure" =>
              \A i \in 1..Len(results) : results[i] = "error"
<1> DEFINE Won == {i \in DOMAIN results : results[i] = "success"}
<1>1. DOMAIN results = 1..Len(results) /\ Len(results) \in Nat
  BY LenProperties
<1>2. \A i \in 1..Len(results) : results[i] \in Result
  BY ElementOfSeq
<1>3. IsFiniteSet(1..Len(results)) /\ Cardinality(1..Len(results)) = Len(results)
  BY <1>1, FS_Interval
<1>4. Won \in SUBSET (1..Len(results))
  BY <1>1
<1>5. /\ IsFiniteSet(Won)
      /\ Cardinality(1..Len(results)) = Cardinality(Won) => 1..Len(results) = Won
  BY <1>3, <1>4, FS_Subset
<1>6. Cardinality(Won) = 0 <=> Won = {}
  BY <1>5, FS_EmptySet
<1>7. Status(results) = IF Cardinality(Won) = Len(results) THEN "success"
                        ELSE IF Cardinality(Won) = 0 THEN "failure" ELSE "partial_failure"
  BY DEF Status
<1> HIDE DEF Won
<1>8. Status(results) = "success" => Won = 1..Len(results)
  BY <1>3, <1>5, <1>7
<1>9. Status(results) = "failure" => Won = {}
  BY <1>6, <1>7
<1> QED
  BY <1>1, <1>2, <1>7, <1>8, <1>9 DEF Won, Result, Logged

\* One more result.
LEMMA OneMoreResult ==
  ASSUME ChainInv, NEW r \in Run, RunAt(r, "step") \/ RunAt(r, "write"), NEW result \in Result,
         Reports(r, result)
  PROVE  /\ Position(r) \in 1..Len(run[r].chain) /\ Len(run[r].results) \in Nat
         /\ run' \in [Run -> RunRecord]
         /\ \A q \in Run \ {r} : run'[q] = run[q]
         /\ run'[r].chain = run[r].chain /\ run'[r].pc \in {"step", "log"}
         /\ Len(run'[r].results) = Position(r)
         /\ \A i \in 1..Len(run[r].results) : run'[r].results[i] = run[r].results[i]
         /\ run'[r].results[Position(r)] = result
         /\ run'[r].pc = "log" <=> Position(r) = Len(run[r].chain)
<1> DEFINE old == run[r]  more == Append(old.results, result)
<1>1. /\ old \in RunRecord /\ old.results \in Seq(Result)
      /\ old.chain \in Seq(ChainStep)
  BY DEF ChainInv, ChainTypeOK, RunRecord
<1>2. Len(old.results) < Len(old.chain) /\ Len(old.results) \in Nat /\ Len(old.chain) \in Nat
  BY <1>1, LenProperties DEF ChainInv, ResultsInv, Accounted, RunAt
<1>3. /\ more \in Seq(Result) /\ Len(more) = Len(old.results) + 1
      /\ \A i \in 1..Len(old.results) : more[i] = old.results[i]
      /\ more[Len(old.results) + 1] = result
  BY <1>1, AppendProperties
<1>4. /\ Position(r) = Len(old.results) + 1
      /\ AfterStep(r) \in {"step", "log"}
      /\ AfterStep(r) = "log" <=> Position(r) = Len(old.chain)
  BY DEF Position, AfterStep
<1>5. run' = [run EXCEPT ![r] = [old EXCEPT !.pc = AfterStep(r), !.results = more,
                                            !.seen = {}]]
  BY DEF Reports
<1> HIDE DEF more
<1>6. [old EXCEPT !.pc = AfterStep(r), !.results = more, !.seen = {}] \in RunRecord
  BY <1>1, <1>3, <1>4 DEF RunRecord
<1>7. run \in [Run -> RunRecord]
  BY DEF ChainInv, ChainTypeOK
<1>8. /\ run' \in [Run -> RunRecord]
      /\ \A q \in Run \ {r} : run'[q] = run[q]
  BY <1>5, <1>6, <1>7
<1>9. /\ run'[r].pc = AfterStep(r) /\ run'[r].results = more
      /\ run'[r].chain = old.chain
  BY <1>1, <1>5, <1>7 DEF RunRecord
<1> QED
  BY <1>2, <1>3, <1>4, <1>8, <1>9

\* The initial state satisfies the invariant.
LEMMA ChainInitially == ChainInit => ChainInv
<1> SUFFICES ASSUME ChainInit PROVE ChainInv
  OBVIOUS
<1>1. NoRun \in RunRecord
  BY EmptySeq DEF NoRun, RunRecord
<1>2. ChainTypeOK
  BY <1>1 DEF ChainInit, ChainTypeOK
<1>3. ResultsInv
  BY EmptySeq DEF ChainInit, ResultsInv, ReportsTrue, Accounted, NoRun, Logged
<1> QED
  BY <1>2, <1>3 DEF ChainInit, ChainInv, TagsSurvive

\* The invariant of one run, to be shown for those that move.
Holds(r) ==
  /\ run[r] \in RunRecord
  /\ tookPlace[r] \in SUBSET Nat
  /\ ReportsTrue(r) /\ Accounted(r)

LEMMA OneRunMoves ==
  ASSUME ChainInv, NEW r \in Run, Holds(r)',
         run' = [run EXCEPT ![r] = run'[r]], tookPlace' = [tookPlace EXCEPT ![r] = tookPlace'[r]]
  PROVE  run' \in [Run -> RunRecord] /\ tookPlace' \in [Run -> SUBSET Nat] /\ ResultsInv'
<1>1. run' \in [Run -> RunRecord] /\ tookPlace' \in [Run -> SUBSET Nat]
  BY DEF ChainInv, ChainTypeOK, Holds
<1>2. ASSUME NEW q \in Run, q # r PROVE run'[q] = run[q] /\ tookPlace'[q] = tookPlace[q]
  BY <1>2 DEF ChainInv, ChainTypeOK
<1> QED
  <2>1. ASSUME NEW q \in Run PROVE ReportsTrue(q)' /\ Accounted(q)'
    <3>1. CASE q = r
      BY <3>1 DEF Holds
    <3>2. CASE q # r
      <4>1. ReportsTrue(q) /\ Accounted(q) /\ run'[q] = run[q] /\ tookPlace'[q] = tookPlace[q]
        BY <1>2, <3>2 DEF ChainInv, ResultsInv
      <4> QED
        BY <4>1 DEF ReportsTrue, Accounted, CurrentStep, Position, LogIsEmpty
    <3> QED
      BY <3>1, <3>2
  <2> QED
    BY <1>1, <2>1 DEF ResultsInv

\* A report, of a step that took effect if it says so.
LEMMA ReportHolds ==
  ASSUME ChainInv, NEW r \in Run, RunAt(r, "step") \/ RunAt(r, "write"), NEW result \in Result,
         Reports(r, result),
         \/ Happens(r)
         \/ (result = "error" \/ CurrentStep(r) = Webhook) /\ tookPlace' = tookPlace
  PROVE  run' \in [Run -> RunRecord] /\ tookPlace' \in [Run -> SUBSET Nat] /\ ResultsInv'
<1>1. /\ Position(r) \in 1..Len(run[r].chain) /\ Len(run[r].results) \in Nat
      /\ run' \in [Run -> RunRecord]
      /\ run'[r].chain = run[r].chain /\ run'[r].pc \in {"step", "log"}
      /\ Len(run'[r].results) = Position(r)
      /\ \A i \in 1..Len(run[r].results) : run'[r].results[i] = run[r].results[i]
      /\ run'[r].results[Position(r)] = result
      /\ run'[r].pc = "log" <=> Position(r) = Len(run[r].chain)
  BY OneMoreResult
<1>2. Position(r) = Len(run[r].results) + 1
  BY DEF Position
<1>3. tookPlace \in [Run -> SUBSET Nat] /\ ReportsTrue(r)
  BY DEF ChainInv, ChainTypeOK, ResultsInv
<1>4. /\ tookPlace[r] \subseteq tookPlace'[r] /\ tookPlace'[r] \in SUBSET Nat
      /\ \/ Position(r) \in tookPlace'[r]
         \/ result = "error" \/ CurrentStep(r) = Webhook
      /\ tookPlace' = [tookPlace EXCEPT ![r] = tookPlace'[r]]
  <2>1. CASE Happens(r)
    BY <1>1, <1>2, <1>3, <2>1 DEF Happens
  <2>2. CASE (result = "error" \/ CurrentStep(r) = Webhook) /\ tookPlace' = tookPlace
    BY <1>3, <2>2
  <2> QED
    BY <2>1, <2>2
<1>5. ReportsTrue(r)'
  <2>1. ASSUME NEW i \in 1..Len(run[r].results), run'[r].results[i] = "success"
        PROVE  run'[r].chain[i] = Webhook \/ i \in tookPlace'[r]
    <3>1. run[r].results[i] = "success"
      BY <1>1, <2>1
    <3>2. run[r].chain[i] = Webhook \/ i \in tookPlace[r]
      BY <1>3, <3>1 DEF ReportsTrue
    <3> QED
      BY <1>1, <1>4, <3>2
  <2>2. ASSUME run'[r].results[Position(r)] = "success"
        PROVE  run'[r].chain[Position(r)] = Webhook \/ Position(r) \in tookPlace'[r]
    <3>1. result # "error"
      BY <1>1, <2>2
    <3> QED
      BY <1>1, <1>4, <3>1 DEF CurrentStep
  <2>3. 1..Position(r) = (1..Len(run[r].results)) \cup {Position(r)}
    BY <1>1, <1>2
  <2> QED
    BY <1>1, <2>1, <2>2, <2>3 DEF ReportsTrue
<1>6. Len(run[r].chain) \in Nat
  BY LenProperties DEF ChainInv, ChainTypeOK, RunRecord
<1>7. Accounted(r)'
  BY <1>1, <1>2, <1>6 DEF Accounted, Logged
<1>8. Holds(r)'
  BY <1>1, <1>4, <1>5, <1>7 DEF Holds
<1>9. run' = [run EXCEPT ![r] = run'[r]]
  BY DEF Reports, ChainInv, ChainTypeOK
<1> QED
  BY <1>4, <1>8, <1>9, OneRunMoves

\* A run that moves without a report.
LEMMA MoveHolds ==
  ASSUME ChainInv, NEW r \in Run,
         \/ BeginRun(r, run'[r].chain) /\ run'[r].chain \in Chains
         \/ RunAt(r, "step") /\ CurrentStep(r) \in Tag /\ UNCHANGED tookPlace
              /\ run' = [run EXCEPT ![r].pc = "write", ![r].seen = tags]
         \/ Throws(r) \/ LogRun(r) \/ Forget(r)
  PROVE  run' \in [Run -> RunRecord] /\ tookPlace' \in [Run -> SUBSET Nat] /\ ResultsInv'
<1> DEFINE old == run[r]
<1>1. /\ run \in [Run -> RunRecord] /\ tookPlace \in [Run -> SUBSET Nat] /\ tags \in SUBSET Tag
      /\ old \in RunRecord
  BY DEF ChainInv, ChainTypeOK
<1>2. ReportsTrue(r) /\ Accounted(r)
  BY DEF ChainInv, ResultsInv
<1>3. ASSUME BeginRun(r, run'[r].chain), run'[r].chain \in Chains PROVE Holds(r)'
  <2>1. PICK n \in 1..MaxSteps : run'[r].chain \in [1..n -> ChainStep]
    BY <1>3 DEF Chains
  <2>2. n \in Nat \ {0}
    BY RuleActionsAssumption
  <2>3. run'[r].chain \in Seq(ChainStep) /\ Len(run'[r].chain) = n
    BY <2>1, <2>2
  <2>4. run'[r] = [NoRun EXCEPT !.pc = "step", !.chain = run'[r].chain]
    BY <1>1, <1>3 DEF BeginRun
  <2>5. run'[r].pc = "step" /\ run'[r].results = <<>> /\ run'[r].seen = {}
    BY <2>4 DEF NoRun
  <2>6. run'[r] \in RunRecord
    <3>1. <<>> \in Seq(Result)
      BY EmptySeq
    <3> QED
      BY <2>3, <2>4, <3>1 DEF NoRun, RunRecord
  <2>7. tookPlace'[r] \in SUBSET Nat
    BY <1>1, <1>3 DEF BeginRun
  <2>8. ReportsTrue(r)'
    BY <2>5 DEF ReportsTrue
  <2>9. Accounted(r)'
    BY <2>2, <2>3, <2>5 DEF Accounted, Logged
  <2> QED
    BY <2>6, <2>7, <2>8, <2>9 DEF Holds
<1>4. ASSUME RunAt(r, "step"), CurrentStep(r) \in Tag, UNCHANGED tookPlace,
             run' = [run EXCEPT ![r].pc = "write", ![r].seen = tags]
      PROVE  Holds(r)'
  <2>1. /\ run'[r] \in RunRecord /\ run'[r].pc = "write"
        /\ run'[r].results = old.results /\ run'[r].chain = old.chain
    BY <1>1, <1>4 DEF RunRecord
  <2>2. ReportsTrue(r)'
    BY <1>2, <1>4, <2>1 DEF ReportsTrue
  <2>3. Accounted(r)'
    BY <1>2, <1>4, <2>1 DEF Accounted, RunAt, Logged, CurrentStep, Position
  <2> QED
    BY <1>1, <1>4, <2>1, <2>2, <2>3 DEF Holds
<1>5. ASSUME LogRun(r) PROVE Holds(r)'
  <2>1. Status(old.results) \in Logged
    BY <1>1, StatusTellsAll DEF RunRecord
  <2>2. /\ run'[r] \in RunRecord
        /\ run'[r].results = old.results /\ run'[r].chain = old.chain
        /\ \/ old.pc = "log" /\ run'[r].pc = Status(old.results)
           \/ old.pc = "thrown" /\ run'[r].pc = "failure"
    <3>1. CASE RunAt(r, "log") /\ run' = [run EXCEPT ![r].pc = Status(old.results)]
      BY <1>1, <2>1, <3>1 DEF RunRecord, RunAt
    <3>2. CASE RunAt(r, "thrown") /\ run' = [run EXCEPT ![r].pc = "failure"]
      BY <1>1, <3>2 DEF RunRecord, RunAt, Logged
    <3> QED
      BY <1>5, <3>1, <3>2 DEF LogRun
  <2>3. tookPlace'[r] = tookPlace[r]
    BY <1>5 DEF LogRun
  <2>4. ReportsTrue(r)'
    BY <1>2, <2>2, <2>3 DEF ReportsTrue
  <2>5. Accounted(r)'
    BY <1>2, <2>1, <2>2 DEF Accounted, Logged, LogIsEmpty
  <2> QED
    BY <1>1, <2>2, <2>3, <2>4, <2>5 DEF Holds
<1>6. ASSUME Forget(r) PROVE Holds(r)'
  <2>1. run'[r] = NoRun /\ tookPlace'[r] = {}
    BY <1>1, <1>6 DEF Forget
  <2>2. NoRun \in RunRecord
    BY EmptySeq DEF NoRun, RunRecord
  <2> QED
    BY <2>1, <2>2 DEF Holds, ReportsTrue, Accounted, NoRun, Logged
<1>7. ASSUME Throws(r) PROVE Holds(r)'
  <2>1. <<>> \in Seq(Result)
    BY EmptySeq
  <2>2. /\ run'[r] \in RunRecord /\ run'[r].pc = "thrown"
        /\ run'[r].results = <<>> /\ run'[r].chain = old.chain
    BY <1>1, <1>7, <2>1 DEF RunRecord, Throws
  <2>3. Len(old.results) \in Nat /\ Len(old.chain) \in Nat /\ old.chain \in Seq(ChainStep)
    BY <1>1, LenProperties DEF RunRecord
  <2>4. Position(r) \in DOMAIN old.chain /\ old.chain[Position(r)] = Malformed
    <3>1. Position(r) = Len(old.results) + 1 /\ Len(old.results) < Len(old.chain)
      BY <1>2, <1>7 DEF Position, Accounted, Throws, RunAt
    <3>2. DOMAIN old.chain = 1..Len(old.chain)
      BY <2>3, LenProperties
    <3> QED
      BY <1>7, <2>3, <3>1, <3>2 DEF Throws, CurrentStep
  <2>5. LogIsEmpty(r)'
    BY <2>2, <2>4 DEF LogIsEmpty
  <2>6. ReportsTrue(r)' /\ Accounted(r)'
    BY <2>2, <2>5 DEF ReportsTrue, Accounted, Logged
  <2> QED
    BY <1>1, <1>7, <2>2, <2>6 DEF Holds, Throws
<1>8. /\ run' = [run EXCEPT ![r] = run'[r]]
      /\ tookPlace' = [tookPlace EXCEPT ![r] = tookPlace'[r]]
  BY <1>1 DEF BeginRun, LogRun, Forget, Throws
<1> QED
  BY <1>3, <1>4, <1>5, <1>6, <1>7, <1>8, OneRunMoves

\* Every step preserves the invariant.
LEMMA ChainsHold == ChainInv /\ [ChainNext]_chainVars => ChainInv'
<1> SUFFICES ASSUME ChainInv, [ChainNext]_chainVars PROVE ChainInv'
  OBVIOUS
<1>t. tags \subseteq Tag /\ applied \subseteq Tag /\ applied \subseteq tags
  BY DEF ChainInv, ChainTypeOK, TagsSurvive
<1>1. ASSUME NEW r \in Run, ActOutside(r) PROVE ChainInv'
  <2>1. run' \in [Run -> RunRecord] /\ tookPlace' \in [Run -> SUBSET Nat] /\ ResultsInv'
    BY <1>1, ReportHolds DEF ActOutside, Result
  <2> QED
    BY <1>1, <1>t, <2>1 DEF ActOutside, ChainInv, ChainTypeOK, TagsSurvive
<1>2. ASSUME NEW r \in Run, ReadTags(r) PROVE ChainInv'
  <2>1. CASE Reports(r, "error")
    <3>1. tookPlace' = tookPlace
      BY <1>2 DEF ReadTags
    <3> QED
      BY <1>2, <1>t, <2>1, <3>1, ReportHolds DEF ReadTags, Result, ChainInv, ChainTypeOK, TagsSurvive
  <2>2. CASE run' = [run EXCEPT ![r].pc = "write", ![r].seen = tags]
    BY <1>2, <1>t, <2>2, MoveHolds DEF ReadTags, ChainInv, ChainTypeOK, TagsSurvive
  <2> QED
    BY <1>2, <2>1, <2>2 DEF ReadTags
<1>3. ASSUME NEW r \in Run, WriteTags(r) PROVE ChainInv'
  <2>1. run' \in [Run -> RunRecord] /\ tookPlace' \in [Run -> SUBSET Nat] /\ ResultsInv'
    BY <1>3, ReportHolds DEF WriteTags, Result
  <2>2. CurrentStep(r) \in Tag /\ run[r].seen \in SUBSET Tag
    BY <1>3 DEF WriteTags, RunAt, ChainInv, ChainTypeOK, ResultsInv, Accounted, RunRecord
  <2>3. tags' \subseteq Tag /\ applied' \subseteq tags'
    BY <1>3, <1>t, <2>2 DEF WriteTags, WithTag
  <2> QED
    BY <2>1, <2>3 DEF ChainInv, ChainTypeOK, TagsSurvive
<1>4. ASSUME NEW r \in Run, LogRun(r) \/ Forget(r) \/ Throws(r) PROVE ChainInv'
  BY <1>4, <1>t, MoveHolds DEF LogRun, Forget, Throws, ChainInv, ChainTypeOK, TagsSurvive
<1>5. ASSUME NEW r \in Run, NEW chain \in Chains, BeginRun(r, chain) PROVE ChainInv'
  <2>1. run'[r].chain = chain
    BY <1>5 DEF BeginRun, NoRun, ChainInv, ChainTypeOK
  <2> QED
    BY <1>5, <1>t, <2>1, MoveHolds DEF BeginRun, ChainInv, ChainTypeOK, TagsSurvive
<1>6. ASSUME UNCHANGED chainVars PROVE ChainInv'
  BY <1>6 DEF chainVars, ChainInv, ChainTypeOK, ResultsInv, ReportsTrue, Accounted, LogIsEmpty,
    TagsSurvive, CurrentStep, Position
<1> QED
  BY <1>1, <1>2, <1>3, <1>4, <1>5, <1>6 DEF ChainNext

\* Tags that were reported as applied stay, but for a write from a stale
\* read, and a log says of a chain what became of it, but for webhooks, whose
\* answer nobody reads, and for a malformed step, which empties the log
\* (executeActions, runRule, applyTag).
THEOREM ChainsAlwaysTellTruth == ChainSpec => []ChainsTellTruth
<1>1. ASSUME ChainInv PROVE ChainsTellTruth
  <2>1. ASSUME NEW r \in Run, run[r].pc \in Logged
        PROVE  \/ run[r].pc = "failure" /\ LogIsEmpty(r)
               \/ /\ Len(run[r].results) = Len(run[r].chain)
                  /\ run[r].pc = "success" =>
                       \A i \in DOMAIN run[r].chain :
                         run[r].chain[i] = Webhook \/ i \in tookPlace[r]
                  /\ run[r].pc = "failure" =>
                       \A i \in DOMAIN run[r].results : run[r].results[i] = "error"
    <3>1. run[r].results \in Seq(Result) /\ run[r].chain \in Seq(ChainStep)
      BY <1>1 DEF ChainInv, ChainTypeOK, RunRecord
    <3>2. /\ DOMAIN run[r].results = 1..Len(run[r].results)
          /\ DOMAIN run[r].chain = 1..Len(run[r].chain)
      BY <3>1, LenProperties
    <3>3. ReportsTrue(r) /\ Accounted(r)
      BY <1>1 DEF ChainInv, ResultsInv
    <3>4. CASE run[r].pc = "failure" /\ LogIsEmpty(r)
      BY <3>4
    <3>5. CASE Len(run[r].results) = Len(run[r].chain) /\ run[r].pc = Status(run[r].results)
      <4>1. /\ run[r].pc = "success" =>
                 \A i \in 1..Len(run[r].results) : run[r].results[i] = "success"
            /\ run[r].pc = "failure" =>
                 \A i \in 1..Len(run[r].results) : run[r].results[i] = "error"
        BY <3>1, <3>5, StatusTellsAll
      <4>2. run[r].pc = "success" =>
              \A i \in DOMAIN run[r].chain : run[r].chain[i] = Webhook \/ i \in tookPlace[r]
        BY <3>2, <3>3, <3>5, <4>1 DEF ReportsTrue
      <4> QED
        BY <3>2, <3>5, <4>1, <4>2
    <3> QED
      BY <2>1, <3>3, <3>4, <3>5 DEF Accounted
  <2> QED
    BY <1>1, <2>1 DEF ChainInv, ChainsTellTruth, LogsTellTruth
<1> QED
  BY <1>1, ChainInitially, ChainsHold, PTL DEF ChainSpec

-----------------------------------------------------------------------------
\* Contacts, identities and messages.

Statuses == {"pending", "approved", "rejected", "expired"}
Moving == {"retire", "commit"}

MessageRecord == [from : Identity, contact : Nat]
SuggestionRecord == [pair : Nat \X Nat, status : Statuses]
ReviewRecord ==
  [pc : {"idle", "approve", "reject", "split"} \cup Moving, s : Nat, contact : Nat, to : Nat,
   ids : SUBSET Identity, msgs : SUBSET Nat]
FilerRecord == [pc : {"idle", "create"}, from : Identity \cup {0}, contact : Nat]

\* Contacts, suggestions and the rows that requests have read exist.
GraphTypeOK ==
  /\ retired \in Seq(BOOLEAN)
  /\ owner \in [Identity -> Contacts]
  /\ filed \in Seq(MessageRecord)
  /\ suggestion \in Seq(SuggestionRecord)
  /\ \A n \in 1..Len(suggestion) : suggestion[n].pair \in Contacts \X Contacts

ReviewsTypeOK ==
  /\ review \in [Reviewer -> ReviewRecord]
  /\ \A q \in Reviewer :
       /\ review[q].pc \notin {"idle", "split"} => review[q].s \in 1..Len(suggestion)
       /\ review[q].pc \in Moving => review[q].to = Survivor(review[q].s)
       /\ review[q].pc = "split" => review[q].contact \in Contacts
       /\ review[q].msgs \subseteq 1..Len(filed)

FilersTypeOK ==
  /\ filer \in [Filer -> FilerRecord]
  /\ \A f \in Filer :
       filer[f].pc = "create" => filer[f].from \in Identity /\ filer[f].contact \in Contacts

MatchersTypeOK ==
  /\ matcher \in [Matcher -> [pair : (Contacts \X Contacts) \cup {NoPair}, looked : BOOLEAN]]
  /\ \A x \in Matcher : matcher[x].looked => matcher[x].pair # NoPair

ActorsTypeOK == ReviewsTypeOK /\ FilersTypeOK /\ MatchersTypeOK

\* A merge under way moves all that the absorbed contact has, unless another
\* one has made it its survivor meanwhile.
MergesMoveAll ==
  \A q \in Reviewer : review[q].pc \in Moving =>
    Held(Absorbed(review[q].s)) \subseteq review[q].ids \/ Absorbed(review[q].s) \in reused

\* It moves the messages of the identities it moves, and no others ...
MergesMoveMessages ==
  \A q \in Reviewer : review[q].pc \in Moving =>
    \A m \in 1..Len(filed) : filed[m].from \notin crossed =>
      (m \in review[q].msgs <=> filed[m].from \in review[q].ids)

\* ... and one that is being filed knows its contact.
FilersKnow ==
  \A f \in Filer :
    filer[f].pc = "create" /\ filer[f].from \notin crossed => filer[f].contact = owner[filer[f].from]

OwnersInv == MergesMoveAll /\ NobodyStranded
FilingInv == MergesMoveMessages /\ FilersKnow /\ MessagesFollowTheirSender

GraphInv == GraphTypeOK /\ ActorsTypeOK /\ OwnersInv /\ FilingInv

\* The initial state satisfies the invariant.
LEMMA GraphInitially == IdentityInit => GraphInv
<1> SUFFICES ASSUME IdentityInit PROVE GraphInv
  OBVIOUS
<1>1. Cardinality(Identity) \in Nat
  BY IdentityGraphAssumption, FS_CardinalityType
<1>2. retired \in Seq(BOOLEAN) /\ Len(retired) = Cardinality(Identity)
  <2>1. retired \in [1..Cardinality(Identity) -> BOOLEAN]
    BY DEF IdentityInit
  <2> QED
    BY <1>1, <2>1
<1>3. \A c \in Contacts : ~retired[c]
  BY <1>2 DEF IdentityInit, Contacts
<1>4. owner \in [Identity -> Contacts]
  BY DEF IdentityInit
<1>5. filed = <<>> /\ suggestion = <<>> /\ Len(<<>>) = 0
  BY EmptySeq DEF IdentityInit
<1>6. filed \in Seq(MessageRecord) /\ suggestion \in Seq(SuggestionRecord)
  BY <1>5, EmptySeq
<1>7. GraphTypeOK
  BY <1>2, <1>4, <1>5, <1>6 DEF GraphTypeOK
<1>8. NoReview \in ReviewRecord /\ NoFiling \in FilerRecord
  BY DEF NoReview, NoFiling, ReviewRecord, FilerRecord, Moving
<1>9. /\ \A q \in Reviewer : review[q].pc = "idle"
      /\ \A f \in Filer : filer[f].pc = "idle"
  BY DEF IdentityInit, NoReview, NoFiling
<1>10. ActorsTypeOK
  <2>1. ReviewsTypeOK
    BY <1>8, <1>9 DEF ReviewsTypeOK, IdentityInit, Moving, NoReview
  <2>2. FilersTypeOK /\ MatchersTypeOK
    BY <1>8, <1>9 DEF FilersTypeOK, MatchersTypeOK, IdentityInit, NoMatching
  <2> QED
    BY <2>1, <2>2 DEF ActorsTypeOK
<1>11. MergesMoveAll /\ NobodyStranded
  BY <1>3, <1>4, <1>9 DEF MergesMoveAll, NobodyStranded, Moving
<1>12. MergesMoveMessages /\ FilersKnow /\ MessagesFollowTheirSender
  BY <1>5, <1>9 DEF MergesMoveMessages, FilersKnow, MessagesFollowTheirSender, Moving
<1> QED
  BY <1>7, <1>10, <1>11, <1>12 DEF GraphInv, OwnersInv, FilingInv

\* Lengths are numbers, rows are records.
LEMMA RowFacts ==
  ASSUME GraphInv
  PROVE  /\ Len(retired) \in Nat /\ Len(filed) \in Nat /\ Len(suggestion) \in Nat
         /\ \A n \in 1..Len(suggestion) : suggestion[n] \in SuggestionRecord
         /\ \A m \in 1..Len(filed) : filed[m] \in MessageRecord
         /\ \A c \in Contacts : retired[c] \in BOOLEAN
  BY LenProperties, ElementOfSeq DEF GraphInv, GraphTypeOK, Contacts

\* What a committing transaction moves.
LEMMA MoveFacts ==
  ASSUME GraphInv, NEW ids \in SUBSET Identity, NEW msgs \in SUBSET Nat, NEW to \in Nat,
         owner' = [i \in Identity |-> IF i \in ids THEN to ELSE owner[i]],
         filed' = [m \in 1..Len(filed) |-> IF m \in msgs THEN [filed[m] EXCEPT !.contact = to]
                                           ELSE filed[m]]
  PROVE  /\ filed' \in Seq(MessageRecord) /\ Len(filed') = Len(filed)
         /\ \A m \in 1..Len(filed) :
              /\ filed'[m].from = filed[m].from
              /\ filed'[m].contact = IF m \in msgs THEN to ELSE filed[m].contact
         /\ owner' = [i \in Identity |-> IF i \in ids THEN to ELSE owner[i]]
<1>1. \A m \in 1..Len(filed) : filed[m] \in MessageRecord /\ Len(filed) \in Nat
  BY RowFacts
<1>2. filed' = [m \in 1..Len(filed) |-> IF m \in msgs THEN [filed[m] EXCEPT !.contact = to]
                                       ELSE filed[m]]
  OBVIOUS
<1>3. ASSUME NEW m \in 1..Len(filed)
      PROVE  /\ filed'[m] \in MessageRecord
             /\ filed'[m].from = filed[m].from
             /\ filed'[m].contact = IF m \in msgs THEN to ELSE filed[m].contact
  BY <1>1, <1>2 DEF MessageRecord
<1>4. filed' \in [1..Len(filed) -> MessageRecord]
  BY <1>2, <1>3
<1>5. Len(filed) \in Nat
  BY RowFacts
<1> QED
  BY <1>3, <1>4, <1>5

\* A step only adds contacts and suggestions, and no suggestion changes its pair.
Grows ==
  /\ Len(retired) <= Len(retired')
  /\ Len(suggestion) <= Len(suggestion')
  /\ Len(filed) <= Len(filed')
  /\ \A n \in 1..Len(suggestion) : suggestion'[n].pair = suggestion[n].pair

\* A new suggestion.
LEMMA SuggestFacts ==
  ASSUME GraphInv, NEW x \in Matcher, Suggest(x)
  PROVE  /\ suggestion' \in Seq(SuggestionRecord) /\ Len(suggestion') \in Nat
         /\ \A n \in 1..Len(suggestion') : suggestion'[n].pair \in Contacts \X Contacts
         /\ Grows
         /\ \A n \in 1..Len(suggestion) : suggestion'[n] = suggestion[n]
         /\ Len(suggestion') = Len(suggestion) + 1
         /\ suggestion'[Len(suggestion) + 1].pair = matcher[x].pair
<1> DEFINE new == [pair |-> matcher[x].pair, status |-> "pending"]
<1>1. /\ Len(suggestion) \in Nat /\ suggestion \in Seq(SuggestionRecord)
      /\ \A n \in 1..Len(suggestion) : suggestion[n].pair \in Contacts \X Contacts
      /\ Len(retired) \in Nat
  BY RowFacts DEF GraphInv, GraphTypeOK
<1>2. matcher[x].pair \in Contacts \X Contacts
  BY DEF GraphInv, ActorsTypeOK, MatchersTypeOK, Suggest
<1>3. retired' = retired /\ filed' = filed /\ Len(filed) \in Nat
  BY RowFacts DEF Suggest
<1>4. suggestion' = Append(suggestion, new)
  BY DEF Suggest
<1>5. new \in SuggestionRecord /\ new.pair = matcher[x].pair
  BY <1>1, <1>2 DEF SuggestionRecord, Statuses, Contacts
<1> HIDE DEF new
<1>6. /\ suggestion' \in Seq(SuggestionRecord) /\ Len(suggestion') = Len(suggestion) + 1
      /\ \A n \in 1..Len(suggestion) : suggestion'[n] = suggestion[n]
      /\ suggestion'[Len(suggestion) + 1] = new
  BY <1>1, <1>4, <1>5, AppendProperties
<1>7. \A n \in 1..Len(suggestion') : n \in 1..Len(suggestion) \/ n = Len(suggestion) + 1
  BY <1>1, <1>6
<1> QED
  BY <1>1, <1>2, <1>3, <1>5, <1>6, <1>7 DEF Grows

\* A suggestion that is decided, or expires.
LEMMA DecideFacts ==
  ASSUME GraphInv, NEW n \in 1..Len(suggestion), NEW status \in Statuses,
         suggestion' = [suggestion EXCEPT ![n].status = status], Len(retired) <= Len(retired'), Len(filed) <= Len(filed')
  PROVE  /\ suggestion' \in Seq(SuggestionRecord) /\ Len(suggestion') = Len(suggestion)
         /\ \A k \in 1..Len(suggestion') : suggestion'[k].pair \in Contacts \X Contacts
         /\ Grows
         /\ \A k \in 1..Len(suggestion) :
              suggestion'[k].status = IF k = n THEN status ELSE suggestion[k].status
<1> DEFINE new == [suggestion[n] EXCEPT !.status = status]
<1>1. /\ Len(suggestion) \in Nat /\ suggestion \in Seq(SuggestionRecord)
      /\ \A k \in 1..Len(suggestion) : suggestion[k].pair \in Contacts \X Contacts
  BY RowFacts DEF GraphInv, GraphTypeOK
<1>2. new \in SuggestionRecord /\ new.pair = suggestion[n].pair /\ new.status = status
  BY RowFacts DEF SuggestionRecord
<1>3. suggestion' = [suggestion EXCEPT ![n] = new]
  OBVIOUS
<1> HIDE DEF new
<1>4. suggestion \in [1..Len(suggestion) -> SuggestionRecord]
  BY <1>1, LenProperties
<1>5. /\ suggestion' \in [1..Len(suggestion) -> SuggestionRecord]
      /\ \A j \in 1..Len(suggestion) : suggestion'[j] = IF j = n THEN new ELSE suggestion[j]
  BY <1>2, <1>3, <1>4
<1>6. suggestion' \in Seq(SuggestionRecord) /\ Len(suggestion') = Len(suggestion)
  BY <1>1, <1>5
<1> QED
  BY <1>1, <1>2, <1>5, <1>6 DEF Grows

\* What a step leaves alone stays typed ...
LEMMA ActorsKept ==
  ASSUME GraphInv, Grows, Len(retired') \in Nat, Len(suggestion') \in Nat, Len(filed') \in Nat
  PROVE  /\ UNCHANGED review => ReviewsTypeOK'
         /\ UNCHANGED filer => FilersTypeOK'
         /\ UNCHANGED matcher => MatchersTypeOK'
<1>1. /\ ReviewsTypeOK /\ FilersTypeOK /\ MatchersTypeOK
      /\ Len(retired) \in Nat /\ Len(suggestion) \in Nat /\ Len(filed) \in Nat
  BY RowFacts DEF GraphInv, ActorsTypeOK
<1>2. /\ Contacts \subseteq Contacts'
      /\ 1..Len(suggestion) \subseteq 1..Len(suggestion')
      /\ 1..Len(filed) \subseteq 1..Len(filed')
  BY <1>1 DEF Grows, Contacts
<1>3. UNCHANGED review => ReviewsTypeOK'
  BY <1>1, <1>2 DEF ReviewsTypeOK, Survivor, Grows, Moving
<1>4. UNCHANGED filer => FilersTypeOK'
  BY <1>1, <1>2 DEF FilersTypeOK
<1>5. UNCHANGED matcher => MatchersTypeOK'
  BY <1>1, <1>2 DEF MatchersTypeOK
<1> QED
  BY <1>3, <1>4, <1>5

\* ... and so does a request that takes a step, if the request itself is.
LEMMA ReviewTyped ==
  ASSUME GraphInv, Grows, Len(retired') \in Nat, Len(suggestion') \in Nat, Len(filed') \in Nat,
         NEW q \in Reviewer, NEW new \in ReviewRecord, review' = [review EXCEPT ![q] = new],
         new.pc \notin {"idle", "split"} => new.s \in 1..Len(suggestion'),
         new.pc \in Moving => new.to = suggestion'[new.s].pair[1],
         new.pc = "split" => new.contact \in Contacts',
         new.msgs \subseteq 1..Len(filed')
  PROVE  ReviewsTypeOK'
<1>1. /\ ReviewsTypeOK
      /\ Len(retired) \in Nat /\ Len(suggestion) \in Nat /\ Len(filed) \in Nat
  BY RowFacts DEF GraphInv, ActorsTypeOK
<1>2. /\ Contacts \subseteq Contacts'
      /\ 1..Len(suggestion) \subseteq 1..Len(suggestion')
      /\ 1..Len(filed) \subseteq 1..Len(filed')
  BY <1>1 DEF Grows, Contacts
<1>3. review' \in [Reviewer -> ReviewRecord]
  BY <1>1 DEF ReviewsTypeOK
<1>4. \A r \in Reviewer : review'[r] = IF r = q THEN new ELSE review[r]
  BY <1>1 DEF ReviewsTypeOK
<1> QED
  BY <1>1, <1>2, <1>3, <1>4 DEF ReviewsTypeOK, Survivor, Grows, Moving

\* Types, for the steps of a sweep.
LEMMA SweepTyped ==
  ASSUME GraphInv,
         \/ \E x \in Matcher : BeginMatching(x) \/ LookUp(x) \/ Suggest(x)
         \/ \E n \in 1..Len(suggestion) : Expire(n)
  PROVE  GraphTypeOK' /\ ActorsTypeOK' /\ Grows
<1>t. /\ GraphTypeOK /\ MatchersTypeOK
      /\ Len(retired) \in Nat /\ Len(suggestion) \in Nat /\ Len(filed) \in Nat
  BY RowFacts DEF GraphInv, ActorsTypeOK
<1>1. ASSUME NEW x \in Matcher, BeginMatching(x) PROVE GraphTypeOK' /\ ActorsTypeOK' /\ Grows
  <2>1. UNCHANGED <<retired, owner, filed, suggestion, review, filer>>
    BY <1>1 DEF BeginMatching, graph
  <2>2. GraphTypeOK' /\ Grows
    BY <1>t, <2>1 DEF GraphTypeOK, Contacts, Grows
  <2>3. PICK p \in Contacts \X Contacts : matcher' = [matcher EXCEPT ![x].pair = p]
    BY <1>1 DEF BeginMatching
  <2>4. p # NoPair
    BY <1>t DEF Contacts, NoPair
  <2>5. MatchersTypeOK'
    BY <1>t, <2>1, <2>3, <2>4 DEF MatchersTypeOK, Contacts
  <2> QED
    BY <1>t, <2>1, <2>2, <2>5, ActorsKept DEF ActorsTypeOK
<1>4. ASSUME NEW x \in Matcher, LookUp(x) PROVE GraphTypeOK' /\ ActorsTypeOK' /\ Grows
  <2>1. /\ UNCHANGED <<retired, owner, filed, suggestion, review, filer>>
        /\ matcher[x].pair # NoPair
        /\ \/ matcher' = [matcher EXCEPT ![x] = NoMatching]
           \/ matcher' = [matcher EXCEPT ![x].looked = TRUE]
    BY <1>4 DEF LookUp, graph
  <2>2. GraphTypeOK' /\ Grows
    BY <1>t, <2>1 DEF GraphTypeOK, Contacts, Grows
  <2>3. ASSUME matcher' = [matcher EXCEPT ![x] = NoMatching] PROVE MatchersTypeOK'
    BY <1>t, <2>1, <2>3 DEF MatchersTypeOK, Contacts, NoMatching
  <2>4. ASSUME matcher' = [matcher EXCEPT ![x].looked = TRUE] PROVE MatchersTypeOK'
    BY <1>t, <2>1, <2>4 DEF MatchersTypeOK, Contacts
  <2>5. MatchersTypeOK'
    BY <2>1, <2>3, <2>4
  <2> QED
    BY <1>t, <2>1, <2>2, <2>5, ActorsKept DEF ActorsTypeOK
<1>2. ASSUME NEW x \in Matcher, Suggest(x) PROVE GraphTypeOK' /\ ActorsTypeOK' /\ Grows
  <2>1. /\ UNCHANGED <<retired, owner, filed, review, filer>>
        /\ matcher' = [matcher EXCEPT ![x] = NoMatching]
    BY <1>2 DEF Suggest
  <2>2. /\ suggestion' \in Seq(SuggestionRecord) /\ Len(suggestion') \in Nat
        /\ \A n \in 1..Len(suggestion') : suggestion'[n].pair \in Contacts \X Contacts
        /\ Grows
    BY <1>2, SuggestFacts
  <2>3. GraphTypeOK'
    BY <1>t, <2>1, <2>2 DEF GraphTypeOK, Contacts
  <2>4. MatchersTypeOK'
    BY <1>t, <2>1 DEF MatchersTypeOK, Contacts, NoMatching
  <2> QED
    BY <1>t, <2>1, <2>2, <2>3, <2>4, ActorsKept DEF ActorsTypeOK
<1>3. ASSUME NEW n \in 1..Len(suggestion), Expire(n) PROVE GraphTypeOK' /\ ActorsTypeOK' /\ Grows
  <2>1. /\ UNCHANGED <<retired, owner, filed, review, filer, matcher>>
        /\ suggestion' = [suggestion EXCEPT ![n].status = "expired"]
    BY <1>3 DEF Expire
  <2>2. /\ suggestion' \in Seq(SuggestionRecord) /\ Len(suggestion') = Len(suggestion)
        /\ \A k \in 1..Len(suggestion') : suggestion'[k].pair \in Contacts \X Contacts
        /\ Grows
    <3>1. "expired" \in Statuses /\ Len(retired) <= Len(retired') /\ Len(filed) <= Len(filed')
      BY <1>t, <2>1 DEF Statuses
    <3> QED
      BY <2>1, <3>1, DecideFacts
  <2>3. GraphTypeOK'
    BY <1>t, <2>1, <2>2 DEF GraphTypeOK, Contacts
  <2> QED
    BY <1>t, <2>1, <2>2, <2>3, ActorsKept DEF ActorsTypeOK
<1> QED
  BY <1>1, <1>2, <1>3, <1>4

\* Facts about the types of all that a step reads.
LEMMA TypedFacts ==
  ASSUME GraphInv
  PROVE  /\ GraphTypeOK /\ ReviewsTypeOK /\ FilersTypeOK /\ MatchersTypeOK
         /\ Len(retired) \in Nat /\ Len(suggestion) \in Nat /\ Len(filed) \in Nat
         /\ \A q \in Reviewer : review[q].pc \notin {"idle", "split"} =>
              /\ review[q].s \in 1..Len(suggestion)
              /\ Survivor(review[q].s) \in Contacts /\ Absorbed(review[q].s) \in Contacts
<1>1. /\ GraphTypeOK /\ ReviewsTypeOK /\ FilersTypeOK /\ MatchersTypeOK
      /\ Len(retired) \in Nat /\ Len(suggestion) \in Nat /\ Len(filed) \in Nat
  BY RowFacts DEF GraphInv, ActorsTypeOK
<1>2. ASSUME NEW q \in Reviewer, review[q].pc \notin {"idle", "split"}
      PROVE  /\ review[q].s \in 1..Len(suggestion)
             /\ Survivor(review[q].s) \in Contacts /\ Absorbed(review[q].s) \in Contacts
  <2>1. review[q].s \in 1..Len(suggestion)
    BY <1>1, <1>2 DEF ReviewsTypeOK
  <2>2. suggestion[review[q].s].pair \in Contacts \X Contacts
    BY <1>1, <2>1 DEF GraphTypeOK
  <2> QED
    BY <2>1, <2>2 DEF Survivor, Absorbed
<1> QED
  BY <1>1, <1>2

\* A request that ends.
LEMMA ReviewEnds ==
  ASSUME GraphInv, Grows, Len(retired') \in Nat, Len(suggestion') \in Nat, Len(filed') \in Nat,
         NEW q \in Reviewer, review' = [review EXCEPT ![q] = NoReview]
  PROVE  ReviewsTypeOK' /\ review'[q].pc = "idle" /\ \A r \in Reviewer \ {q} : review'[r] = review[r]
<1>1. NoReview \in ReviewRecord /\ NoReview.pc = "idle" /\ NoReview.msgs = {}
  BY DEF NoReview, ReviewRecord, Moving
<1>2. ReviewsTypeOK
  BY TypedFacts
<1>3. ReviewsTypeOK'
  BY <1>1, ReviewTyped DEF Moving
<1> QED
  BY <1>1, <1>2, <1>3 DEF ReviewsTypeOK

\* Types, for the steps of a request that reads.
LEMMA LookTyped ==
  ASSUME GraphInv, NEW q \in Reviewer,
         \/ \E n \in 1..Len(suggestion), decision \in {"approve", "reject"} : Review(q, n, decision)
         \/ Reassign(q)
         \/ \E c \in Contacts : BeginSplit(q, c)
  PROVE  GraphTypeOK' /\ ActorsTypeOK' /\ Grows
<1>t. /\ GraphTypeOK /\ ReviewsTypeOK
      /\ Len(retired) \in Nat /\ Len(suggestion) \in Nat /\ Len(filed) \in Nat
      /\ \A r \in Reviewer : review[r].pc \notin {"idle", "split"} =>
              /\ review[r].s \in 1..Len(suggestion)
              /\ Survivor(review[r].s) \in Contacts /\ Absorbed(review[r].s) \in Contacts
  BY TypedFacts
<1>g. UNCHANGED <<retired, owner, filed, suggestion, filer, matcher>>
  BY DEF Review, Reassign, BeginSplit, graph
<1>1. GraphTypeOK' /\ Grows
  BY <1>t, <1>g DEF GraphTypeOK, Contacts, Grows
<1>2. FilersTypeOK' /\ MatchersTypeOK'
  BY <1>1, <1>t, <1>g, ActorsKept
<1>3. ASSUME NEW n \in 1..Len(suggestion), NEW decision \in {"approve", "reject"}, Review(q, n, decision)
      PROVE  ReviewsTypeOK'
  <2> DEFINE new == [NoReview EXCEPT !.pc = decision, !.s = n]
  <2>1. new \in ReviewRecord
    <3>1. n \in Nat /\ decision \in {"idle", "approve", "reject", "split"} \cup Moving
      BY <1>t
    <3>2. NoReview \in ReviewRecord
      BY DEF NoReview, ReviewRecord, Moving
    <3> QED
      BY <3>1, <3>2 DEF ReviewRecord
  <2>2. new.pc = decision /\ new.s = n /\ new.msgs = {}
    BY DEF NoReview
  <2>3. review' = [review EXCEPT ![q] = new]
    BY <1>3 DEF Review
  <2> HIDE DEF new
  <2> QED
    BY <1>1, <1>t, <1>g, <2>1, <2>2, <2>3, ReviewTyped DEF Moving
<1>4. ASSUME Reassign(q) PROVE ReviewsTypeOK'
  <2> DEFINE new == [review[q] EXCEPT !.pc = "retire", !.to = Survivor(review[q].s),
                                      !.ids = Moves(q).ids, !.msgs = Moves(q).msgs]
  <2>1. /\ Moves(q).ids \subseteq Identity /\ Moves(q).msgs \subseteq 1..Len(filed)
        /\ Survivor(review[q].s) \in Nat /\ review[q] \in ReviewRecord
        /\ review[q].s \in 1..Len(suggestion) /\ Moves(q).msgs \subseteq Nat
    BY <1>4, <1>t DEF Reassign, Moves, Held, SentBy, Contacts, ReviewsTypeOK
  <2>2. new \in ReviewRecord
    BY <2>1 DEF ReviewRecord, Moving
  <2>3. /\ new.pc = "retire" /\ new.s = review[q].s
        /\ new.to = Survivor(review[q].s) /\ new.msgs = Moves(q).msgs
    BY <2>1 DEF ReviewRecord
  <2>4. review' = [review EXCEPT ![q] = new]
    BY <1>4 DEF Reassign
  <2> HIDE DEF new
  <2>5. suggestion'[new.s].pair[1] = new.to
    BY <2>3, <1>g DEF Survivor
  <2> QED
    BY <1>1, <1>t, <1>g, <2>1, <2>2, <2>3, <2>4, <2>5, ReviewTyped
<1>5. ASSUME NEW c \in Contacts, BeginSplit(q, c) PROVE ReviewsTypeOK'
  <2>1. PICK ids \in SUBSET Held(c) :
          review' = [review EXCEPT ![q] = [NoReview EXCEPT !.pc = "split", !.contact = c, !.ids = ids]]
    BY <1>5 DEF BeginSplit
  <2> DEFINE new == [NoReview EXCEPT !.pc = "split", !.contact = c, !.ids = ids]
  <2>2. ids \in SUBSET Identity /\ c \in Nat
    BY DEF Held, Contacts
  <2>3. new \in ReviewRecord
    BY <2>2 DEF NoReview, ReviewRecord
  <2>4. new.pc = "split" /\ new.contact = c /\ new.msgs = {}
    BY DEF NoReview
  <2>5. review' = [review EXCEPT ![q] = new] /\ c \in Contacts'
    BY <2>1, <1>g DEF Contacts
  <2> HIDE DEF new
  <2> QED
    BY <1>1, <1>t, <1>g, <2>3, <2>4, <2>5, ReviewTyped DEF Moving
<1> QED
  BY <1>1, <1>2, <1>3, <1>4, <1>5 DEF ActorsTypeOK

\* Types, for a merge's two ways to change the graph ...
LEMMA RetireTyped ==
  ASSUME GraphInv, NEW q \in Reviewer, Retire(q)
  PROVE  /\ GraphTypeOK' /\ ActorsTypeOK' /\ Grows
         /\ \A r \in Reviewer :
              /\ review'[r].pc = IF r = q THEN "commit" ELSE review[r].pc
              /\ review'[r].s = review[r].s /\ review'[r].ids = review[r].ids
              /\ review'[r].msgs = review[r].msgs
         /\ \A c \in Contacts : retired'[c] = (retired[c] \/ c = Absorbed(review[q].s))
<1>t. /\ GraphTypeOK /\ ReviewsTypeOK
      /\ Len(retired) \in Nat /\ Len(suggestion) \in Nat /\ Len(filed) \in Nat
      /\ review[q].s \in 1..Len(suggestion) /\ Absorbed(review[q].s) \in Contacts
  BY TypedFacts DEF Retire
<1>g. /\ UNCHANGED <<owner, filed, suggestion, filer, matcher>>
      /\ retired' = [retired EXCEPT ![Absorbed(review[q].s)] = TRUE]
      /\ review[q].pc = "retire" /\ review' = [review EXCEPT ![q].pc = "commit"]
  BY DEF Retire
<1>1. /\ retired' \in Seq(BOOLEAN) /\ Len(retired') = Len(retired)
      /\ \A c \in Contacts : retired'[c] = (retired[c] \/ c = Absorbed(review[q].s))
  <2>1. retired \in [1..Len(retired) -> BOOLEAN]
    BY <1>t, LenProperties DEF GraphTypeOK
  <2>2. retired' \in [1..Len(retired) -> BOOLEAN]
    BY <1>g, <2>1
  <2>3. retired' \in Seq(BOOLEAN) /\ Len(retired') = Len(retired)
    BY <1>t, <2>2
  <2>4. ASSUME NEW c \in Contacts PROVE retired'[c] = (retired[c] \/ c = Absorbed(review[q].s))
    <3>1. retired[c] \in BOOLEAN /\ retired'[c] = IF c = Absorbed(review[q].s) THEN TRUE ELSE retired[c]
      BY <1>g, <2>1 DEF Contacts
    <3> QED
      BY <3>1
  <2> QED
    BY <2>3, <2>4
<1>2. GraphTypeOK' /\ Grows
  BY <1>t, <1>g, <1>1 DEF GraphTypeOK, Contacts, Grows
<1>3. FilersTypeOK' /\ MatchersTypeOK'
  BY <1>1, <1>2, <1>t, <1>g, ActorsKept
<1> DEFINE new == [review[q] EXCEPT !.pc = "commit"]
<1>4. review[q] \in ReviewRecord /\ review[q].msgs \subseteq 1..Len(filed)
      /\ review[q].to = suggestion[review[q].s].pair[1]
  BY <1>t, <1>g DEF ReviewsTypeOK, Moving, Survivor
<1>5. /\ new \in ReviewRecord /\ new.pc = "commit"
      /\ new.s = review[q].s /\ new.to = review[q].to
      /\ new.ids = review[q].ids /\ new.msgs = review[q].msgs
  BY <1>4 DEF ReviewRecord, Moving
<1>6. review' = [review EXCEPT ![q] = new]
  BY <1>g
<1> HIDE DEF new
<1>7. ReviewsTypeOK'
  <2>1. /\ new.s \in 1..Len(suggestion') /\ new.to = suggestion'[new.s].pair[1]
        /\ new.msgs \subseteq 1..Len(filed') /\ Len(retired') \in Nat
        /\ Len(suggestion') \in Nat /\ Len(filed') \in Nat
    BY <1>1, <1>t, <1>g, <1>4, <1>5
  <2> QED
    BY <1>2, <1>5, <1>6, <2>1, ReviewTyped
<1>8. \A r \in Reviewer : review'[r] = IF r = q THEN new ELSE review[r]
  BY <1>t, <1>6 DEF ReviewsTypeOK
<1> QED
  BY <1>1, <1>2, <1>3, <1>5, <1>7, <1>8 DEF ActorsTypeOK

\* ... and types when one ends without a change of owner.
LEMMA EndTyped ==
  ASSUME GraphInv, NEW q \in Reviewer, RollBack(q) \/ Reject(q)
  PROVE  /\ GraphTypeOK' /\ ActorsTypeOK' /\ Grows
         /\ review'[q].pc = "idle" /\ \A r \in Reviewer \ {q} : review'[r] = review[r]
<1>t. /\ GraphTypeOK
      /\ Len(retired) \in Nat /\ Len(suggestion) \in Nat /\ Len(filed) \in Nat
  BY TypedFacts
<1>g. /\ UNCHANGED <<retired, owner, filed, filer, matcher>>
      /\ review' = [review EXCEPT ![q] = NoReview]
  BY DEF RollBack, Reject, graph
<1>1. /\ suggestion' \in Seq(SuggestionRecord) /\ Len(suggestion') \in Nat
      /\ \A k \in 1..Len(suggestion') : suggestion'[k].pair \in Contacts \X Contacts
      /\ Grows
  <2>1. CASE RollBack(q)
    BY <2>1, <1>t, <1>g DEF RollBack, graph, GraphTypeOK, Grows
  <2>2. CASE Reject(q)
    <3>1. review[q].s \in 1..Len(suggestion)
      BY <2>2, TypedFacts DEF Reject
    <3>2. "rejected" \in Statuses /\ Len(retired) <= Len(retired') /\ Len(filed) <= Len(filed')
      BY <1>t, <1>g DEF Statuses
    <3>3. suggestion' = [suggestion EXCEPT ![review[q].s].status = "rejected"]
      BY <2>2 DEF Reject
    <3> QED
      BY <1>t, <3>1, <3>2, <3>3, DecideFacts
  <2> QED
    BY <2>1, <2>2
<1>2. GraphTypeOK'
  BY <1>t, <1>g, <1>1 DEF GraphTypeOK, Contacts
<1>3. FilersTypeOK' /\ MatchersTypeOK'
  BY <1>1, <1>t, <1>g, ActorsKept
<1> QED
  BY <1>1, <1>2, <1>3, <1>t, <1>g, ReviewEnds DEF ActorsTypeOK

\* Types, and what moves, when a merge commits ...
LEMMA MergeTyped ==
  ASSUME GraphInv, NEW q \in Reviewer, CommitMerge(q)
  PROVE  /\ GraphTypeOK' /\ ActorsTypeOK' /\ Grows
         /\ review'[q].pc = "idle" /\ \A r \in Reviewer \ {q} : review'[r] = review[r]
         /\ Len(filed') = Len(filed) /\ review[q].to \in Contacts
         /\ \A m \in 1..Len(filed) :
              /\ filed'[m].from = filed[m].from
              /\ filed'[m].contact = IF m \in review[q].msgs THEN review[q].to ELSE filed[m].contact
         /\ \A i \in Identity : owner'[i] = IF i \in review[q].ids THEN review[q].to ELSE owner[i]
<1>t. /\ GraphTypeOK /\ ReviewsTypeOK
      /\ Len(retired) \in Nat /\ Len(suggestion) \in Nat /\ Len(filed) \in Nat
      /\ review[q].s \in 1..Len(suggestion) /\ Survivor(review[q].s) \in Contacts
  BY TypedFacts DEF CommitMerge
<1>g. /\ UNCHANGED <<retired, filer, matcher>>
      /\ review[q].pc = "commit" /\ review' = [review EXCEPT ![q] = NoReview]
      /\ Move(review[q].ids, review[q].msgs, review[q].to)
      /\ suggestion' = [suggestion EXCEPT ![review[q].s].status = "approved"]
  BY DEF CommitMerge
<1>1. /\ review[q].to \in Contacts /\ review[q].to \in Nat
      /\ review[q].ids \in SUBSET Identity /\ review[q].msgs \in SUBSET Nat
  BY <1>t, <1>g DEF ReviewsTypeOK, ReviewRecord, Moving, Contacts
<1>2. /\ filed' \in Seq(MessageRecord) /\ Len(filed') = Len(filed)
      /\ \A m \in 1..Len(filed) :
           /\ filed'[m].from = filed[m].from
           /\ filed'[m].contact = IF m \in review[q].msgs THEN review[q].to ELSE filed[m].contact
      /\ owner' = [i \in Identity |-> IF i \in review[q].ids THEN review[q].to ELSE owner[i]]
  BY <1>1, <1>g, MoveFacts DEF Move
<1>3. /\ suggestion' \in Seq(SuggestionRecord) /\ Len(suggestion') = Len(suggestion)
      /\ \A k \in 1..Len(suggestion') : suggestion'[k].pair \in Contacts \X Contacts
      /\ Grows
  <2>1. "approved" \in Statuses /\ Len(retired) <= Len(retired') /\ Len(filed) <= Len(filed')
    BY <1>t, <1>g, <1>2 DEF Statuses
  <2> QED
    BY <1>t, <1>g, <2>1, DecideFacts
<1>4. owner' \in [Identity -> Contacts]
  BY <1>t, <1>1, <1>2 DEF GraphTypeOK
<1>5. GraphTypeOK'
  BY <1>t, <1>g, <1>2, <1>3, <1>4 DEF GraphTypeOK, Contacts
<1>6. FilersTypeOK' /\ MatchersTypeOK'
  BY <1>2, <1>3, <1>t, <1>g, ActorsKept
<1>7. ReviewsTypeOK' /\ review'[q].pc = "idle" /\ \A r \in Reviewer \ {q} : review'[r] = review[r]
  BY <1>2, <1>3, <1>t, <1>g, ReviewEnds
<1> QED
  BY <1>1, <1>2, <1>3, <1>5, <1>6, <1>7 DEF ActorsTypeOK

\* ... and a split.
LEMMA SplitTyped ==
  ASSUME GraphInv, NEW q \in Reviewer, CommitSplit(q)
  PROVE  /\ GraphTypeOK' /\ ActorsTypeOK' /\ Grows
         /\ review'[q].pc = "idle" /\ \A r \in Reviewer \ {q} : review'[r] = review[r]
         /\ Len(filed') = Len(filed)
         /\ ~retired'[Len(retired) + 1] /\ \A c \in Contacts : retired'[c] = retired[c]
         /\ \A m \in 1..Len(filed) :
              /\ filed'[m].from = filed[m].from
              /\ filed'[m].contact =
                   IF filed[m].contact = review[q].contact /\ filed[m].from \in review[q].ids
                   THEN Len(retired) + 1 ELSE filed[m].contact
         /\ \A i \in Identity : owner'[i] = IF i \in review[q].ids THEN Len(retired) + 1 ELSE owner[i]
<1> DEFINE c == review[q].contact
           ids == review[q].ids
           msgs == {m \in SentBy(c) : filed[m].from \in ids}
           to == Len(retired) + 1
<1>t. /\ GraphTypeOK /\ ReviewsTypeOK
      /\ Len(retired) \in Nat /\ Len(suggestion) \in Nat /\ Len(filed) \in Nat
  BY TypedFacts
<1>g. /\ UNCHANGED <<suggestion, filer, matcher>>
      /\ review[q].pc = "split" /\ review' = [review EXCEPT ![q] = NoReview]
      /\ retired' = Append(retired, FALSE)
      /\ Move(ids, msgs, to)
  BY DEF CommitSplit
<1>1. to \in Nat /\ ids \in SUBSET Identity /\ msgs \in SUBSET Nat /\ msgs \subseteq 1..Len(filed)
  BY <1>t, <1>g DEF ReviewsTypeOK, ReviewRecord, SentBy
<1>2. \A m \in 1..Len(filed) : m \in msgs <=> filed[m].contact = c /\ filed[m].from \in ids
  BY DEF SentBy
<1> HIDE DEF msgs, ids, c, to
<1>3. /\ filed' \in Seq(MessageRecord) /\ Len(filed') = Len(filed)
      /\ \A m \in 1..Len(filed) :
           /\ filed'[m].from = filed[m].from
           /\ filed'[m].contact = IF m \in msgs THEN to ELSE filed[m].contact
      /\ owner' = [i \in Identity |-> IF i \in ids THEN to ELSE owner[i]]
  BY <1>1, <1>g, MoveFacts DEF Move
<1>4. /\ retired' \in Seq(BOOLEAN) /\ Len(retired') = Len(retired) + 1
      /\ ~retired'[Len(retired) + 1] /\ \A d \in Contacts : retired'[d] = retired[d]
  BY <1>t, <1>g, AppendProperties DEF GraphTypeOK, Contacts
<1>5. Contacts \subseteq Contacts' /\ to \in Contacts'
  BY <1>t, <1>4 DEF Contacts, to
<1>6. owner' \in [Identity -> Contacts']
  BY <1>t, <1>3, <1>5 DEF GraphTypeOK
<1>7. GraphTypeOK' /\ Grows
  BY <1>t, <1>g, <1>3, <1>4, <1>5, <1>6 DEF GraphTypeOK, Grows
<1>8. FilersTypeOK' /\ MatchersTypeOK'
  BY <1>3, <1>4, <1>7, <1>t, <1>g, ActorsKept
<1>9. ReviewsTypeOK' /\ review'[q].pc = "idle" /\ \A r \in Reviewer \ {q} : review'[r] = review[r]
  <2>1. Len(retired') \in Nat /\ Len(suggestion') \in Nat /\ Len(filed') \in Nat
    BY <1>3, <1>4, <1>t, <1>g
  <2> QED
    BY <1>7, <1>g, <2>1, ReviewEnds
<1>10. ActorsTypeOK'
  BY <1>8, <1>9 DEF ActorsTypeOK
<1> QED
  BY <1>2, <1>3, <1>4, <1>7, <1>9, <1>10 DEF to, c, ids

\* Types, for the steps of a message that is filed.
LEMMA FileTyped ==
  ASSUME GraphInv, NEW f \in Filer, (\E i \in Identity : Resolve(f, i)) \/ FileMessage(f)
  PROVE  GraphTypeOK' /\ ActorsTypeOK' /\ Grows
<1>t. /\ GraphTypeOK /\ FilersTypeOK
      /\ Len(retired) \in Nat /\ Len(suggestion) \in Nat /\ Len(filed) \in Nat
  BY TypedFacts
<1>g. UNCHANGED <<retired, owner, suggestion, review, matcher>>
  BY DEF Resolve, FileMessage, graph
<1>1. CASE \E i \in Identity : Resolve(f, i)
  <2>1. PICK i \in Identity :
          filer' = [filer EXCEPT ![f] = [pc |-> "create", from |-> i, contact |-> owner[i]]]
    BY <1>1 DEF Resolve
  <2>2. filed' = filed
    BY <1>1 DEF Resolve, graph
  <2>3. owner[i] \in Contacts /\ owner[i] \in Nat
    BY <1>t DEF GraphTypeOK, Contacts
  <2>4. FilersTypeOK'
    BY <1>t, <1>g, <2>1, <2>3 DEF FilersTypeOK, FilerRecord, Contacts
  <2>5. GraphTypeOK' /\ Grows
    BY <1>t, <1>g, <2>2 DEF GraphTypeOK, Contacts, Grows
  <2> QED
    BY <1>t, <1>g, <2>2, <2>4, <2>5, ActorsKept DEF ActorsTypeOK
<1>2. CASE FileMessage(f)
  <2> DEFINE new == [from |-> filer[f].from, contact |-> filer[f].contact]
  <2>1. /\ filer' = [filer EXCEPT ![f] = NoFiling] /\ filed' = Append(filed, new)
        /\ new \in MessageRecord
    BY <1>2, <1>t DEF FileMessage, FilersTypeOK, FilerRecord, MessageRecord
  <2> HIDE DEF new
  <2>2. filed' \in Seq(MessageRecord) /\ Len(filed') = Len(filed) + 1
    BY <1>t, <2>1, AppendProperties DEF GraphTypeOK
  <2>3. NoFiling \in FilerRecord /\ NoFiling.pc = "idle"
    BY DEF NoFiling, FilerRecord
  <2>4. FilersTypeOK'
    BY <1>t, <1>g, <2>1, <2>3 DEF FilersTypeOK, Contacts
  <2>5. GraphTypeOK' /\ Grows
    BY <1>t, <1>g, <2>2 DEF GraphTypeOK, Contacts, Grows
  <2> QED
    BY <1>t, <1>g, <2>2, <2>4, <2>5, ActorsKept DEF ActorsTypeOK
<1> QED
  BY <1>1, <1>2

\* A merge under way absorbs the same contact after a step.
LEMMA SameAbsorbed ==
  ASSUME GraphInv, Grows, NEW q \in Reviewer, review[q].pc \in Moving
  PROVE  suggestion'[review[q].s].pair[2] = Absorbed(review[q].s)
  BY TypedFacts DEF Grows, Absorbed, Moving

\* What a reader of the invariant sees.
LEMMA KnownFacts ==
  ASSUME GraphInv
  PROVE  /\ MergesMoveAll /\ NobodyStranded
         /\ MergesMoveMessages /\ FilersKnow /\ MessagesFollowTheirSender
         /\ owner \in [Identity -> Contacts] /\ Len(retired) \in Nat /\ Len(filed) \in Nat
         /\ \A m \in 1..Len(filed) : filed[m].from \in Identity
  BY RowFacts DEF GraphInv, OwnersInv, FilingInv, GraphTypeOK, MessageRecord

\* A step that touches neither owners, messages, contacts nor merges under way.
LEMMA QuietHolds ==
  ASSUME GraphInv, Grows, UNCHANGED <<retired, owner, filed, filer, halfMerged, reused, crossed>>,
         \A q \in Reviewer : review'[q].pc \in Moving \/ review[q].pc \in Moving => review'[q] = review[q]
  PROVE  OwnersInv' /\ FilingInv'
<1>k. /\ MergesMoveAll /\ NobodyStranded
      /\ MergesMoveMessages /\ FilersKnow /\ MessagesFollowTheirSender
  BY KnownFacts
<1>1. \A q \in Reviewer : review'[q].pc \in Moving \/ review[q].pc \in Moving =>
        /\ review'[q] = review[q]
        /\ suggestion'[review[q].s].pair[2] = suggestion[review[q].s].pair[2]
  BY SameAbsorbed DEF Absorbed
<1>2. MergesMoveAll'
  BY <1>k, <1>1 DEF MergesMoveAll, Held, Absorbed, history
<1>3. NobodyStranded'
  BY <1>k, <1>1 DEF NobodyStranded, Absorbed, Moving, history
<1>4. MergesMoveMessages'
  BY <1>k, <1>1 DEF MergesMoveMessages, history
<1>5. FilersKnow' /\ MessagesFollowTheirSender'
  BY <1>k DEF FilersKnow, MessagesFollowTheirSender, history
<1> QED
  BY <1>2, <1>3, <1>4, <1>5 DEF OwnersInv, FilingInv

\* The reading half of a merge takes all that the contact has and got.
LEMMA ReassignHolds ==
  ASSUME GraphInv, NEW q \in Reviewer, Reassign(q)
  PROVE  OwnersInv' /\ FilingInv'
<1>k. /\ MergesMoveAll /\ NobodyStranded
      /\ MergesMoveMessages /\ FilersKnow /\ MessagesFollowTheirSender
      /\ \A m \in 1..Len(filed) : filed[m].from \in Identity
  BY KnownFacts
<1>t. review \in [Reviewer -> ReviewRecord]
  BY TypedFacts DEF ReviewsTypeOK
<1>g. UNCHANGED <<retired, owner, filed, suggestion, filer, matcher, history>> /\ review[q].pc = "approve"
  BY DEF Reassign, graph
<1>1. /\ \A r \in Reviewer \ {q} : review'[r] = review[r]
      /\ review'[q].pc = "retire" /\ review'[q].s = review[q].s
      /\ review'[q].ids = Held(Absorbed(review[q].s)) /\ review'[q].msgs = SentBy(Absorbed(review[q].s))
  BY <1>t DEF Reassign, Moves, ReviewRecord
<1>2. MergesMoveAll'
  BY <1>k, <1>g, <1>1 DEF MergesMoveAll, Held, Absorbed, history
<1>3. NobodyStranded'
  BY <1>k, <1>g, <1>1 DEF NobodyStranded, Absorbed, history
<1>4. MergesMoveMessages'
  <2> SUFFICES ASSUME NEW r \in Reviewer, review'[r].pc \in Moving,
                      NEW m \in 1..Len(filed), filed[m].from \notin crossed
               PROVE  m \in review'[r].msgs <=> filed[m].from \in review'[r].ids
    BY <1>g DEF MergesMoveMessages, history
  <2>1. CASE r = q
    BY <1>k, <1>1, <2>1 DEF MessagesFollowTheirSender, Held, SentBy
  <2>2. CASE r # q
    BY <1>k, <1>1, <2>2 DEF MergesMoveMessages
  <2> QED
    BY <2>1, <2>2
<1>5. FilersKnow' /\ MessagesFollowTheirSender'
  BY <1>k, <1>g DEF FilersKnow, MessagesFollowTheirSender, history
<1> QED
  BY <1>2, <1>3, <1>4, <1>5 DEF OwnersInv, FilingInv

\* The contact goes: its merge is then between its delete and its commit.
LEMMA RetireHolds ==
  ASSUME GraphInv, NEW q \in Reviewer, Retire(q)
  PROVE  OwnersInv' /\ FilingInv'
<1>k. /\ MergesMoveAll /\ NobodyStranded
      /\ MergesMoveMessages /\ FilersKnow /\ MessagesFollowTheirSender
      /\ owner \in [Identity -> Contacts]
  BY KnownFacts
<1>g. UNCHANGED <<owner, filed, suggestion, filer, matcher, history>> /\ review[q].pc = "retire"
  BY DEF Retire
<1>1. /\ \A r \in Reviewer :
           /\ review'[r].pc = IF r = q THEN "commit" ELSE review[r].pc
           /\ review'[r].s = review[r].s /\ review'[r].ids = review[r].ids
           /\ review'[r].msgs = review[r].msgs
      /\ \A c \in Contacts : retired'[c] = (retired[c] \/ c = Absorbed(review[q].s))
  BY RetireTyped
<1>2. \A r \in Reviewer : review'[r].pc \in Moving => review[r].pc \in Moving
  BY <1>g, <1>1 DEF Moving
<1>3. MergesMoveAll'
  BY <1>k, <1>g, <1>1, <1>2 DEF MergesMoveAll, Held, Absorbed, history
<1>4. NobodyStranded'
  <2> SUFFICES ASSUME NEW i \in Identity, retired'[owner[i]],
                      owner[i] \notin halfMerged \cup reused
               PROVE  \E r \in Reviewer :
                        review'[r].pc = "commit" /\ Absorbed(review'[r].s) = owner[i]
    BY <1>g DEF NobodyStranded, Absorbed, history
  <2>1. owner[i] \in Contacts
    BY <1>k
  <2>2. CASE owner[i] = Absorbed(review[q].s)
    BY <1>1, <2>2
  <2>3. CASE owner[i] # Absorbed(review[q].s)
    <3>1. retired[owner[i]]
      BY <1>1, <2>1, <2>3
    <3>2. PICK r \in Reviewer : review[r].pc = "commit" /\ Absorbed(review[r].s) = owner[i]
      BY <1>k, <3>1 DEF NobodyStranded
    <3> QED
      BY <1>g, <1>1, <3>2
  <2> QED
    BY <2>2, <2>3
<1>5. MergesMoveMessages'
  BY <1>k, <1>g, <1>1, <1>2 DEF MergesMoveMessages, history
<1>6. FilersKnow' /\ MessagesFollowTheirSender'
  BY <1>k, <1>g DEF FilersKnow, MessagesFollowTheirSender, history
<1> QED
  BY <1>3, <1>4, <1>5, <1>6 DEF OwnersInv, FilingInv

\* Undone after the contact went: the contact is half merged.
LEMMA RollBackHolds ==
  ASSUME GraphInv, NEW q \in Reviewer, RollBack(q)
  PROVE  OwnersInv' /\ FilingInv'
<1>k. /\ MergesMoveAll /\ NobodyStranded
      /\ MergesMoveMessages /\ FilersKnow /\ MessagesFollowTheirSender
  BY KnownFacts
<1>g. /\ UNCHANGED <<retired, owner, filed, suggestion, filer, matcher, reused, crossed>>
      /\ halfMerged' = IF review[q].pc = "commit" THEN halfMerged \cup {Absorbed(review[q].s)}
                       ELSE halfMerged
  BY DEF RollBack, graph
<1>1. review'[q].pc = "idle" /\ \A r \in Reviewer \ {q} : review'[r] = review[r]
  BY EndTyped
<1>2. MergesMoveAll'
  BY <1>k, <1>g, <1>1 DEF MergesMoveAll, Held, Absorbed, Moving
<1>3. NobodyStranded'
  <2> SUFFICES ASSUME NEW i \in Identity, retired[owner[i]], owner[i] \notin halfMerged' \cup reused
               PROVE  \E r \in Reviewer :
                        review'[r].pc = "commit" /\ Absorbed(review'[r].s) = owner[i]
    BY <1>g DEF NobodyStranded, Absorbed
  <2>1. owner[i] \notin halfMerged \cup reused
    BY <1>g
  <2>2. PICK r \in Reviewer : review[r].pc = "commit" /\ Absorbed(review[r].s) = owner[i]
    BY <1>k, <2>1 DEF NobodyStranded
  <2>3. r # q
    BY <1>g, <2>2
  <2> QED
    BY <1>1, <2>2, <2>3
<1>4. MergesMoveMessages'
  BY <1>k, <1>g, <1>1 DEF MergesMoveMessages, Moving
<1>5. FilersKnow' /\ MessagesFollowTheirSender'
  BY <1>k, <1>g DEF FilersKnow, MessagesFollowTheirSender
<1> QED
  BY <1>2, <1>3, <1>4, <1>5 DEF OwnersInv, FilingInv

\* A merge leaves nothing with the absorbed contact, and a survivor that is
\* vanishing is told apart.
LEMMA MergeHolds ==
  ASSUME GraphInv, NEW q \in Reviewer, CommitMerge(q)
  PROVE  OwnersInv' /\ FilingInv'
<1> DEFINE to == review[q].to
<1>k. /\ MergesMoveAll /\ NobodyStranded
      /\ MergesMoveMessages /\ FilersKnow /\ MessagesFollowTheirSender
      /\ \A m \in 1..Len(filed) : filed[m].from \in Identity
  BY KnownFacts
<1>g. /\ UNCHANGED <<retired, filer, halfMerged>> /\ review[q].pc = "commit"
      /\ reused' = IF Vanishing(to) THEN reused \cup {to} ELSE reused
      /\ crossed' = crossed \cup Filing
  BY DEF CommitMerge
<1>1. /\ Grows
      /\ review'[q].pc = "idle" /\ \A r \in Reviewer \ {q} : review'[r] = review[r]
      /\ Len(filed') = Len(filed)
      /\ \A m \in 1..Len(filed) :
           /\ filed'[m].from = filed[m].from
           /\ filed'[m].contact = IF m \in review[q].msgs THEN to ELSE filed[m].contact
      /\ \A i \in Identity : owner'[i] = IF i \in review[q].ids THEN to ELSE owner[i]
  BY MergeTyped
<1>2. \A r \in Reviewer : review'[r].pc \in Moving =>
        /\ r # q /\ review'[r] = review[r] /\ review[r].pc \in Moving
        /\ suggestion'[review[r].s].pair[2] = Absorbed(review[r].s)
  BY <1>1, SameAbsorbed DEF Moving
<1>v. to \notin reused' => ~Vanishing(to)
  BY <1>g
<1>w. reused \subseteq reused'
  BY <1>g
<1> HIDE DEF to
<1>3. MergesMoveAll'
  <2> SUFFICES ASSUME NEW r \in Reviewer, review'[r].pc \in Moving,
                      Absorbed(review[r].s) \notin reused',
                      NEW i \in Identity, owner'[i] = Absorbed(review[r].s)
               PROVE  i \in review[r].ids
    BY <1>2 DEF MergesMoveAll, Held, Absorbed
  <2>1. Absorbed(review[r].s) \notin reused /\ review[r].pc \in Moving
    BY <1>2, <1>w
  <2>2. Held(Absorbed(review[r].s)) \subseteq review[r].ids
    BY <1>k, <2>1 DEF MergesMoveAll
  <2>3. Vanishing(Absorbed(review[r].s))
    BY <2>1 DEF Vanishing, Moving
  <2>4. owner'[i] # to
    BY <1>v, <2>3
  <2>5. owner[i] = Absorbed(review[r].s)
    BY <1>1, <2>4
  <2> QED
    BY <2>2, <2>5 DEF Held
<1>4. NobodyStranded'
  <2> SUFFICES ASSUME NEW i \in Identity, retired[owner'[i]], owner'[i] \notin halfMerged \cup reused'
               PROVE  \E r \in Reviewer :
                        review'[r].pc = "commit" /\ suggestion'[review'[r].s].pair[2] = owner'[i]
    BY <1>g DEF NobodyStranded, Absorbed
  <2>1. owner'[i] # to
    BY <1>v DEF Vanishing
  <2>2. owner'[i] = owner[i] /\ i \notin review[q].ids
    BY <1>1, <2>1
  <2>3. PICK r \in Reviewer : review[r].pc = "commit" /\ Absorbed(review[r].s) = owner[i]
    BY <1>k, <1>w, <2>2 DEF NobodyStranded
  <2>4. r # q
    <3>1. Absorbed(review[r].s) \notin reused /\ review[r].pc \in Moving
      BY <1>w, <2>2, <2>3 DEF Moving
    <3>2. i \in review[r].ids
      BY <1>k, <2>3, <3>1 DEF MergesMoveAll, Held
    <3> QED
      BY <2>2, <3>2
  <2>5. review'[r] = review[r] /\ review'[r].pc \in Moving
    BY <1>1, <2>3, <2>4 DEF Moving
  <2> QED
    BY <1>2, <2>2, <2>3, <2>5
<1>5. MergesMoveMessages'
  BY <1>k, <1>g, <1>1, <1>2 DEF MergesMoveMessages
<1>6. FilersKnow'
  BY <1>g DEF FilersKnow, Filing
<1>7. MessagesFollowTheirSender'
  <2> SUFFICES ASSUME NEW m \in 1..Len(filed), filed[m].from \notin crossed
               PROVE  filed'[m].contact = owner'[filed[m].from]
    BY <1>g, <1>1 DEF MessagesFollowTheirSender
  <2>1. m \in review[q].msgs <=> filed[m].from \in review[q].ids
    BY <1>k, <1>g DEF MergesMoveMessages, Moving
  <2>2. filed[m].contact = owner[filed[m].from] /\ filed[m].from \in Identity
    BY <1>k DEF MessagesFollowTheirSender
  <2> QED
    BY <1>1, <2>1, <2>2
<1> QED
  BY <1>3, <1>4, <1>5, <1>6, <1>7 DEF OwnersInv, FilingInv

\* A split moves to a contact nobody else knows yet.
LEMMA SplitHolds ==
  ASSUME GraphInv, NEW q \in Reviewer, CommitSplit(q)
  PROVE  OwnersInv' /\ FilingInv'
<1> DEFINE new == Len(retired) + 1
<1>k. /\ MergesMoveAll /\ NobodyStranded
      /\ MergesMoveMessages /\ FilersKnow /\ MessagesFollowTheirSender
      /\ owner \in [Identity -> Contacts] /\ Len(retired) \in Nat
      /\ \A m \in 1..Len(filed) : filed[m].from \in Identity
  BY KnownFacts
<1>g. /\ UNCHANGED <<suggestion, filer, halfMerged, reused>> /\ review[q].pc = "split"
      /\ crossed' = crossed \cup Filing \cup {i \in review[q].ids : owner[i] # review[q].contact}
  BY DEF CommitSplit
<1>1. /\ Grows
      /\ review'[q].pc = "idle" /\ \A r \in Reviewer \ {q} : review'[r] = review[r]
      /\ Len(filed') = Len(filed)
      /\ ~retired'[new] /\ \A c \in Contacts : retired'[c] = retired[c]
      /\ \A m \in 1..Len(filed) :
           /\ filed'[m].from = filed[m].from
           /\ filed'[m].contact =
                IF filed[m].contact = review[q].contact /\ filed[m].from \in review[q].ids
                THEN new ELSE filed[m].contact
      /\ \A i \in Identity : owner'[i] = IF i \in review[q].ids THEN new ELSE owner[i]
  BY SplitTyped
<1>2. \A r \in Reviewer : review'[r].pc \in Moving =>
        /\ r # q /\ review'[r] = review[r] /\ review[r].pc \in Moving
        /\ Absorbed(review[r].s) \in Contacts
  BY <1>1, TypedFacts DEF Moving
<1>3. new \notin Contacts
  BY <1>k DEF Contacts
<1> HIDE DEF new
<1>4. MergesMoveAll'
  <2> SUFFICES ASSUME NEW r \in Reviewer, review'[r].pc \in Moving,
                      Absorbed(review[r].s) \notin reused,
                      NEW i \in Identity, owner'[i] = Absorbed(review[r].s)
               PROVE  i \in review[r].ids
    BY <1>g, <1>2 DEF MergesMoveAll, Held, Absorbed
  <2>1. Held(Absorbed(review[r].s)) \subseteq review[r].ids
    BY <1>k, <1>2 DEF MergesMoveAll
  <2>2. owner[i] = Absorbed(review[r].s)
    BY <1>1, <1>2, <1>3
  <2> QED
    BY <2>1, <2>2 DEF Held
<1>5. NobodyStranded'
  <2> SUFFICES ASSUME NEW i \in Identity, retired'[owner'[i]], owner'[i] \notin halfMerged \cup reused
               PROVE  \E r \in Reviewer :
                        review'[r].pc = "commit" /\ Absorbed(review'[r].s) = owner'[i]
    BY <1>g DEF NobodyStranded, Absorbed
  <2>1. owner'[i] = owner[i] /\ retired[owner[i]]
    BY <1>1, <1>k
  <2>2. PICK r \in Reviewer : review[r].pc = "commit" /\ Absorbed(review[r].s) = owner[i]
    BY <1>k, <2>1 DEF NobodyStranded
  <2>3. r # q
    BY <1>g, <2>2
  <2> QED
    BY <1>1, <2>1, <2>2, <2>3
<1>6. MergesMoveMessages'
  BY <1>k, <1>g, <1>1, <1>2 DEF MergesMoveMessages
<1>7. FilersKnow'
  BY <1>g DEF FilersKnow, Filing
<1>8. MessagesFollowTheirSender'
  <2> SUFFICES ASSUME NEW m \in 1..Len(filed), filed[m].from \notin crossed'
               PROVE  filed'[m].contact = owner'[filed[m].from]
    BY <1>1 DEF MessagesFollowTheirSender
  <2>1. filed[m].contact = owner[filed[m].from] /\ filed[m].from \in Identity
    BY <1>k, <1>g DEF MessagesFollowTheirSender
  <2>2. filed[m].from \in review[q].ids => filed[m].contact = review[q].contact
    BY <1>g, <2>1
  <2> QED
    BY <1>1, <2>1, <2>2
<1> QED
  BY <1>4, <1>5, <1>6, <1>7, <1>8 DEF OwnersInv, FilingInv

\* A message is filed under the contact its sender had a moment ago, which
\* is the one it has unless it moved or is about to.
LEMMA FileHolds ==
  ASSUME GraphInv, NEW f \in Filer, (\E i \in Identity : Resolve(f, i)) \/ FileMessage(f)
  PROVE  OwnersInv' /\ FilingInv'
<1>k. /\ MergesMoveAll /\ NobodyStranded
      /\ MergesMoveMessages /\ FilersKnow /\ MessagesFollowTheirSender
      /\ owner \in [Identity -> Contacts] /\ Len(filed) \in Nat
      /\ \A m \in 1..Len(filed) : filed[m].from \in Identity
  BY KnownFacts
<1>t. /\ filer \in [Filer -> FilerRecord] /\ filed \in Seq(MessageRecord)
      /\ \A r \in Reviewer : review[r].msgs \subseteq 1..Len(filed)
      /\ \A g \in Filer : filer[g].pc = "create" => filer[g].from \in Identity
  BY TypedFacts DEF GraphTypeOK, FilersTypeOK, ReviewsTypeOK
<1>g. UNCHANGED <<retired, owner, suggestion, review, matcher, halfMerged, reused>>
  BY DEF Resolve, FileMessage, graph, history
<1>1. OwnersInv'
  <2>1. MergesMoveAll'
    BY <1>k, <1>g DEF MergesMoveAll, Held, Absorbed
  <2>2. NobodyStranded'
    BY <1>k, <1>g DEF NobodyStranded, Absorbed
  <2> QED
    BY <2>1, <2>2 DEF OwnersInv
<1>2. CASE \E i \in Identity : Resolve(f, i)
  <2>1. PICK i \in Identity :
          /\ filer' = [filer EXCEPT ![f] = [pc |-> "create", from |-> i, contact |-> owner[i]]]
          /\ UNCHANGED <<filed, crossed>>
    BY <1>2 DEF Resolve, graph, history
  <2>2. MergesMoveMessages' /\ MessagesFollowTheirSender'
    BY <1>k, <1>g, <2>1 DEF MergesMoveMessages, MessagesFollowTheirSender
  <2>3. FilersKnow'
    BY <1>k, <1>t, <1>g, <2>1 DEF FilersKnow
  <2> QED
    BY <1>1, <2>2, <2>3 DEF FilingInv
<1>3. CASE FileMessage(f)
  <2> DEFINE new == [from |-> filer[f].from, contact |-> filer[f].contact]
  <2>1. /\ filer' = [filer EXCEPT ![f] = NoFiling] /\ filed' = Append(filed, new)
        /\ crossed' = crossed \cup ({filer[f].from} \cap RowLocks)
        /\ filer[f].pc = "create"
    BY <1>3 DEF FileMessage
  <2>2. new \in MessageRecord
    BY <1>t, <2>1 DEF FilerRecord, MessageRecord
  <2>3. new.from = filer[f].from /\ new.contact = filer[f].contact
    OBVIOUS
  <2> HIDE DEF new
  <2>4. /\ Len(filed') = Len(filed) + 1 /\ filed'[Len(filed) + 1] = new
        /\ \A m \in 1..Len(filed) : filed'[m] = filed[m]
    BY <1>t, <2>1, <2>2, AppendProperties
  <2>5. \A m \in 1..Len(filed') : m \in 1..Len(filed) \/ (m = Len(filed) + 1 /\ m \notin 1..Len(filed))
    BY <1>k, <2>4
  <2>6. MergesMoveMessages'
    <3> SUFFICES ASSUME NEW r \in Reviewer, review[r].pc \in Moving,
                        NEW m \in 1..Len(filed'), filed'[m].from \notin crossed'
                 PROVE  m \in review[r].msgs <=> filed'[m].from \in review[r].ids
      BY <1>g DEF MergesMoveMessages
    <3>1. CASE m \in 1..Len(filed)
      BY <1>k, <2>1, <2>4, <3>1 DEF MergesMoveMessages
    <3>2. CASE m = Len(filed) + 1 /\ m \notin 1..Len(filed)
      <4>1. m \notin review[r].msgs
        BY <1>t, <3>2
      <4>2. filed'[m].from = filer[f].from
        BY <2>3, <2>4, <3>2
      <4>3. filer[f].from \notin RowLocks
        BY <2>1, <4>2
      <4> QED
        BY <4>1, <4>2, <4>3 DEF RowLocks, Moving
    <3> QED
      BY <2>5, <3>1, <3>2
  <2>7. FilersKnow'
    <3>1. NoFiling.pc = "idle"
      BY DEF NoFiling
    <3> QED
      BY <1>k, <1>t, <1>g, <2>1, <3>1 DEF FilersKnow
  <2>8. MessagesFollowTheirSender'
    <3> SUFFICES ASSUME NEW m \in 1..Len(filed'), filed'[m].from \notin crossed'
                 PROVE  filed'[m].contact = owner[filed'[m].from]
      BY <1>g DEF MessagesFollowTheirSender
    <3>1. CASE m \in 1..Len(filed)
      BY <1>k, <2>1, <2>4, <3>1 DEF MessagesFollowTheirSender
    <3>2. CASE m = Len(filed) + 1
      BY <1>k, <2>1, <2>3, <2>4, <3>2 DEF FilersKnow
    <3> QED
      BY <2>5, <3>1, <3>2
  <2> QED
    BY <1>1, <2>6, <2>7, <2>8 DEF FilingInv
<1> QED
  BY <1>2, <1>3

\* Every step preserves the invariant.
LEMMA GraphHolds == GraphInv /\ [IdentityNext]_identityVars => GraphInv'
<1> SUFFICES ASSUME GraphInv, [IdentityNext]_identityVars PROVE GraphInv'
  OBVIOUS
<1>t. review \in [Reviewer -> ReviewRecord]
  BY TypedFacts DEF ReviewsTypeOK
<1>1. ASSUME \/ \E x \in Matcher : BeginMatching(x) \/ LookUp(x) \/ Suggest(x)
             \/ \E n \in 1..Len(suggestion) : Expire(n)
      PROVE  GraphInv'
  <2>1. UNCHANGED <<retired, owner, filed, filer, halfMerged, reused, crossed, review>>
    BY <1>1 DEF BeginMatching, LookUp, Suggest, Expire, graph, history
  <2>2. GraphTypeOK' /\ ActorsTypeOK' /\ Grows
    BY <1>1, SweepTyped
  <2> QED
    BY <2>1, <2>2, QuietHolds DEF GraphInv
<1>2. ASSUME NEW q \in Reviewer, NEW n \in 1..Len(suggestion), NEW decision \in {"approve", "reject"},
             Review(q, n, decision)
      PROVE  GraphInv'
  <2>1. /\ UNCHANGED <<retired, owner, filed, filer, halfMerged, reused, crossed>>
        /\ review[q].pc \notin Moving
        /\ review' = [review EXCEPT ![q] = [NoReview EXCEPT !.pc = decision, !.s = n]]
    BY <1>2 DEF Review, graph, Moving, history
  <2>2. review'[q].pc \notin Moving /\ \A r \in Reviewer \ {q} : review'[r] = review[r]
    BY <1>t, <2>1 DEF NoReview, Moving
  <2>3. GraphTypeOK' /\ ActorsTypeOK' /\ Grows
    BY <1>2, LookTyped
  <2> QED
    BY <2>1, <2>2, <2>3, QuietHolds DEF GraphInv
<1>3. ASSUME NEW q \in Reviewer, NEW c \in Contacts, BeginSplit(q, c) PROVE GraphInv'
  <2>1. /\ UNCHANGED <<retired, owner, filed, filer, halfMerged, reused, crossed>>
        /\ review[q].pc \notin Moving
        /\ \E ids \in SUBSET Held(c) : review' = [review EXCEPT ![q] =
             [NoReview EXCEPT !.pc = "split", !.contact = c, !.ids = ids]]
    BY <1>3 DEF BeginSplit, graph, Moving, history
  <2>2. review'[q].pc \notin Moving /\ \A r \in Reviewer \ {q} : review'[r] = review[r]
    BY <1>t, <2>1 DEF NoReview, Moving
  <2>3. GraphTypeOK' /\ ActorsTypeOK' /\ Grows
    BY <1>3, LookTyped
  <2> QED
    BY <2>1, <2>2, <2>3, QuietHolds DEF GraphInv
<1>4. ASSUME NEW q \in Reviewer, Reassign(q) PROVE GraphInv'
  BY <1>4, LookTyped, ReassignHolds DEF GraphInv
<1>5. ASSUME NEW q \in Reviewer, Retire(q) PROVE GraphInv'
  BY <1>5, RetireTyped, RetireHolds DEF GraphInv
<1>6. ASSUME NEW q \in Reviewer, CommitMerge(q) PROVE GraphInv'
  BY <1>6, MergeTyped, MergeHolds DEF GraphInv
<1>7. ASSUME NEW q \in Reviewer, RollBack(q) PROVE GraphInv'
  BY <1>7, EndTyped, RollBackHolds DEF GraphInv
<1>8. ASSUME NEW q \in Reviewer, Reject(q) PROVE GraphInv'
  <2>1. /\ UNCHANGED <<retired, owner, filed, filer, halfMerged, reused, crossed>>
        /\ review[q].pc \notin Moving
    BY <1>8 DEF Reject, Moving
  <2>2. /\ GraphTypeOK' /\ ActorsTypeOK' /\ Grows
        /\ review'[q].pc = "idle" /\ \A r \in Reviewer \ {q} : review'[r] = review[r]
    BY <1>8, EndTyped
  <2>3. "idle" \notin Moving
    BY DEF Moving
  <2> QED
    BY <2>1, <2>2, <2>3, QuietHolds DEF GraphInv
<1>9. ASSUME NEW q \in Reviewer, CommitSplit(q) PROVE GraphInv'
  BY <1>9, SplitTyped, SplitHolds DEF GraphInv
<1>10. ASSUME NEW f \in Filer, (\E i \in Identity : Resolve(f, i)) \/ FileMessage(f) PROVE GraphInv'
  BY <1>10, FileTyped, FileHolds DEF GraphInv
<1>11. ASSUME UNCHANGED identityVars PROVE GraphInv'
  <2>1. /\ UNCHANGED <<retired, owner, filed, suggestion, review, filer, matcher>>
        /\ UNCHANGED <<halfMerged, reused, crossed>>
    BY <1>11 DEF identityVars, graph, history
  <2>2. GraphTypeOK /\ ReviewsTypeOK /\ FilersTypeOK /\ MatchersTypeOK
    BY TypedFacts
  <2>3. GraphTypeOK'
    BY <2>1, <2>2 DEF GraphTypeOK, Contacts
  <2>4. Grows
    BY <2>1, RowFacts DEF Grows
  <2>5. ActorsTypeOK'
    BY <2>1, <2>4, RowFacts, ActorsKept DEF ActorsTypeOK
  <2>6. OwnersInv' /\ FilingInv'
    BY <2>1, <2>4, QuietHolds
  <2> QED
    BY <2>3, <2>5, <2>6 DEF GraphInv
<1> QED
  BY <1>1, <1>2, <1>3, <1>4, <1>5, <1>6, <1>7, <1>8, <1>9, <1>10, <1>11 DEF IdentityNext

\* For any number of people, identities, reviewers, filers and
\* matchers, no interleaving of merges, splits and expiries leaves an identity
\* with a contact that is gone, but for the merges the property names (approve,
\* mergeContacts).
THEOREM NobodyIsStranded == IdentitySpec => []NobodyStranded
<1>1. GraphInv => NobodyStranded
  BY DEF GraphInv, OwnersInv
<1> QED
  BY GraphInitially, GraphHolds, <1>1, PTL DEF IdentitySpec

\* A message is filed under the contact that has its sender's identity,
\* however often identities are merged and split while messages come in, but
\* for identities moved while a message of theirs was being filed, or that a
\* split took from a contact they had left (resolveContact, mergeContacts,
\* splitContact).
THEOREM MessagesStayWithTheirSender == IdentitySpec => []MessagesFollowTheirSender
<1>1. GraphInv => MessagesFollowTheirSender
  BY DEF GraphInv, FilingInv
<1> QED
  BY GraphInitially, GraphHolds, <1>1, PTL DEF IdentitySpec

\* A decision adds no suggestion.
LEMMA DecisionsAddNone ==
  ASSUME GraphInv, NEW k, NEW status, suggestion' = [suggestion EXCEPT ![k].status = status]
  PROVE  Len(suggestion') = Len(suggestion)
<1> DEFINE new == [suggestion[k] EXCEPT !.status = status]
<1>1. suggestion' = [suggestion EXCEPT ![k] = new]
  OBVIOUS
<1> HIDE DEF new
<1>2. suggestion \in Seq(SuggestionRecord) /\ Len(suggestion) \in Nat
  BY TypedFacts DEF GraphTypeOK
<1>3. DOMAIN suggestion = 1..Len(suggestion)
  BY <1>2, LenProperties
<1>4. suggestion' \in [1..Len(suggestion) -> {suggestion'[n] : n \in 1..Len(suggestion)}]
  BY <1>1, <1>2, <1>3, LenProperties
<1> QED
  BY <1>2, <1>4

\* What a sweep has looked up stays undecided, unless the pair is raced.
LookingInv ==
  \A x \in Matcher : matcher[x].looked /\ matcher[x].pair \notin raced =>
    /\ ~AlreadyDecidedOrPending(matcher[x].pair)
    /\ \A y \in Matcher : matcher[y].looked /\ matcher[y].pair = matcher[x].pair => y = x

\* A row that is decided, or expires, decides its own pair.
LEMMA DecidedPairs ==
  ASSUME GraphInv, NEW n \in 1..Len(suggestion), NEW status \in Statuses \ {"pending"},
         suggestion' = [suggestion EXCEPT ![n].status = status],
         Len(retired) <= Len(retired'), Len(filed) <= Len(filed'),
         NEW p, AlreadyDecidedOrPending(p)'
  PROVE  AlreadyDecidedOrPending(p) \/ (status = "rejected" /\ suggestion[n].pair = p)
<1>1. /\ Len(suggestion') = Len(suggestion)
      /\ \A k \in 1..Len(suggestion) :
           /\ suggestion'[k].pair = suggestion[k].pair
           /\ suggestion'[k].status = IF k = n THEN status ELSE suggestion[k].status
      /\ suggestion[n].status \in Statuses
  <2>1. Grows /\ suggestion[n] \in SuggestionRecord
    BY DecideFacts, RowFacts
  <2> QED
    BY <2>1, DecideFacts DEF Grows, SuggestionRecord
<1>2. PICK k \in 1..Len(suggestion) :
        suggestion'[k].pair = p /\ suggestion'[k].status \in {"pending", "rejected"}
  BY <1>1 DEF AlreadyDecidedOrPending, WithStatus
<1>3. CASE k # n
  BY <1>1, <1>2, <1>3 DEF AlreadyDecidedOrPending, WithStatus
<1>4. CASE k = n
  BY <1>1, <1>2, <1>4
<1> QED
  BY <1>1, <1>2, <1>3, <1>4

\* What has been looked up stays so.
LEMMA LookingHolds ==
  ASSUME GraphInv, LookingInv, [IdentityNext]_identityVars
  PROVE  LookingInv'
<1>t. /\ matcher \in [Matcher -> [pair : (Contacts \X Contacts) \cup {NoPair}, looked : BOOLEAN]]
      /\ Len(suggestion) \in Nat /\ Len(filed) \in Nat /\ Len(retired) \in Nat
  BY TypedFacts DEF MatchersTypeOK
<1> DEFINE P(x) == matcher[x].pair
\* Sweeps that wait, while no pair of theirs gets decided.
<1>w. ASSUME UNCHANGED matcher, raced \subseteq raced',
             \A x \in Matcher : matcher[x].looked /\ P(x) \notin raced' =>
               (AlreadyDecidedOrPending(P(x))' => AlreadyDecidedOrPending(P(x)))
      PROVE  LookingInv'
  <2> SUFFICES ASSUME NEW x \in Matcher, matcher[x].looked, P(x) \notin raced'
               PROVE  /\ ~AlreadyDecidedOrPending(P(x))'
                      /\ \A y \in Matcher : matcher[y].looked /\ P(y) = P(x) => y = x
    BY <1>w DEF LookingInv
  <2>1. P(x) \notin raced
    BY <1>w
  <2>2. /\ ~AlreadyDecidedOrPending(P(x))
        /\ \A y \in Matcher : matcher[y].looked /\ P(y) = P(x) => y = x
    BY <2>1 DEF LookingInv
  <2> QED
    BY <1>w, <2>2
<1>0. ASSUME UNCHANGED <<matcher, suggestion, raced>> PROVE LookingInv'
  BY <1>0 DEF LookingInv, AlreadyDecidedOrPending, WithStatus
<1>1. ASSUME NEW x \in Matcher, BeginMatching(x) PROVE LookingInv'
  <2>1. UNCHANGED <<suggestion, raced>>
    BY <1>1 DEF BeginMatching, graph, history
  <2>2. PICK p : matcher' = [matcher EXCEPT ![x].pair = p]
    BY <1>1 DEF BeginMatching
  <2>3. ~matcher[x].looked
    BY <1>1, TypedFacts DEF BeginMatching, MatchersTypeOK
  <2>4. ~matcher'[x].looked /\ \A y \in Matcher \ {x} : matcher'[y] = matcher[y]
    BY <1>t, <2>2, <2>3
  <2> QED
    BY <2>1, <2>4 DEF LookingInv, AlreadyDecidedOrPending, WithStatus
<1>2. ASSUME NEW x \in Matcher, LookUp(x) PROVE LookingInv'
  <2>1. UNCHANGED suggestion /\ raced \subseteq raced'
    BY <1>2 DEF LookUp, graph
  <2>2. \A p : AlreadyDecidedOrPending(p)' <=> AlreadyDecidedOrPending(p)
    BY <2>1 DEF AlreadyDecidedOrPending, WithStatus
  <2>3. CASE AlreadyDecidedOrPending(P(x))
    <3>1. matcher' = [matcher EXCEPT ![x] = NoMatching]
      BY <1>2, <2>3 DEF LookUp
    <3>2. ~matcher'[x].looked /\ \A y \in Matcher \ {x} : matcher'[y] = matcher[y]
      BY <1>t, <3>1 DEF NoMatching
    <3> QED
      BY <2>1, <2>2, <3>2 DEF LookingInv
  <2>4. CASE ~AlreadyDecidedOrPending(P(x))
    <3>1. matcher' = [matcher EXCEPT ![x].looked = TRUE]
      BY <1>2, <2>4 DEF LookUp
    <3>2. /\ matcher'[x].looked /\ matcher'[x].pair = P(x)
          /\ \A y \in Matcher \ {x} : matcher'[y] = matcher[y]
      BY <1>t, <3>1
    <3>3. \A y \in Matcher \ {x} : matcher[y].looked /\ P(y) = P(x) => P(x) \in raced'
      <4>1. Looked(P(x)) # {} => P(x) \in raced'
        BY <1>2 DEF LookUp
      <4> QED
        BY <4>1 DEF Looked
    <3> QED
      BY <2>1, <2>2, <2>4, <3>2, <3>3 DEF LookingInv
  <2> QED
    BY <2>3, <2>4
<1>3. ASSUME NEW x \in Matcher, Suggest(x) PROVE LookingInv'
  <2>1. /\ matcher[x].looked /\ raced' = raced
        /\ matcher' = [matcher EXCEPT ![x] = NoMatching]
    BY <1>3 DEF Suggest, history
  <2>2. ~matcher'[x].looked /\ \A y \in Matcher \ {x} : matcher'[y] = matcher[y]
    BY <1>t, <2>1 DEF NoMatching
  <2>3. /\ Len(suggestion') = Len(suggestion) + 1
        /\ suggestion'[Len(suggestion) + 1].pair = P(x)
        /\ \A n \in 1..Len(suggestion) : suggestion'[n] = suggestion[n]
    BY <1>3, SuggestFacts
  <2>4. ASSUME NEW p, p # P(x), AlreadyDecidedOrPending(p)' PROVE AlreadyDecidedOrPending(p)
    <3>1. PICK k \in 1..Len(suggestion') :
            suggestion'[k].pair = p /\ suggestion'[k].status \in {"pending", "rejected"}
      BY <2>4 DEF AlreadyDecidedOrPending, WithStatus
    <3>2. k \in 1..Len(suggestion)
      BY <1>t, <2>3, <2>4, <3>1
    <3> QED
      BY <2>3, <3>1, <3>2 DEF AlreadyDecidedOrPending, WithStatus
  <2> SUFFICES ASSUME NEW z \in Matcher, matcher'[z].looked, matcher'[z].pair \notin raced'
               PROVE  /\ ~AlreadyDecidedOrPending(matcher[z].pair)'
                      /\ \A y \in Matcher :
                           matcher'[y].looked /\ matcher'[y].pair = matcher'[z].pair => y = z
    BY DEF LookingInv
  <2>5. z # x /\ matcher'[z] = matcher[z] /\ P(z) \notin raced
    BY <2>1, <2>2
  <2>6. /\ ~AlreadyDecidedOrPending(P(z))
        /\ \A y \in Matcher : matcher[y].looked /\ P(y) = P(z) => y = z
    BY <2>5 DEF LookingInv
  <2>7. P(z) # P(x)
    BY <2>1, <2>5, <2>6
  <2>8. PICK p : p = P(z)
    OBVIOUS
  <2>9. ~AlreadyDecidedOrPending(p)'
    BY <2>4, <2>6, <2>7, <2>8
  <2>10. matcher'[z].pair = p
    BY <2>5, <2>8
  <2>11. ~AlreadyDecidedOrPending(matcher[z].pair)'
    BY <2>9, <2>10 DEF AlreadyDecidedOrPending, WithStatus
  <2> QED
    BY <2>2, <2>5, <2>6, <2>11
<1>4. ASSUME NEW n \in 1..Len(suggestion), Expire(n) PROVE LookingInv'
  <2>1. /\ suggestion' = [suggestion EXCEPT ![n].status = "expired"] 
        /\ "expired" \in Statuses \ {"pending"}
        /\ UNCHANGED <<matcher, raced>> /\ Len(retired) <= Len(retired') /\ Len(filed) <= Len(filed')
    BY <1>4, <1>t DEF Expire, history, Statuses
  <2>2. \A p : AlreadyDecidedOrPending(p)' => AlreadyDecidedOrPending(p)
    BY <2>1, DecidedPairs
  <2>3. \A x \in Matcher : AlreadyDecidedOrPending(P(x))' => AlreadyDecidedOrPending(P(x))
    BY <2>1, <2>2 DEF AlreadyDecidedOrPending, WithStatus
  <2> QED
    BY <1>w, <2>1, <2>3
<1>5. ASSUME NEW q \in Reviewer, CommitMerge(q) PROVE LookingInv'
  <2>1. /\ suggestion' = [suggestion EXCEPT ![review[q].s].status = "approved"] 
        /\ "approved" \in Statuses \ {"pending"}
        /\ UNCHANGED <<matcher, raced>> /\ Len(retired) <= Len(retired')
        /\ review[q].s \in 1..Len(suggestion)
    BY <1>5, <1>t, TypedFacts DEF CommitMerge, Statuses
  <2>5. Len(filed) <= Len(filed')
    BY <1>5, <1>t, MergeTyped
  <2>2. \A p : AlreadyDecidedOrPending(p)' => AlreadyDecidedOrPending(p)
    BY <2>1, <2>5, DecidedPairs
  <2>3. \A x \in Matcher : AlreadyDecidedOrPending(P(x))' => AlreadyDecidedOrPending(P(x))
    BY <2>1, <2>2 DEF AlreadyDecidedOrPending, WithStatus
  <2> QED
    BY <1>w, <2>1, <2>3
<1>6. ASSUME NEW q \in Reviewer, Reject(q) PROVE LookingInv'
  <2> DEFINE row == suggestion[review[q].s]
  <2>1. /\ suggestion' = [suggestion EXCEPT ![review[q].s].status = "rejected"] 
        /\ "rejected" \in Statuses \ {"pending"}
        /\ UNCHANGED matcher /\ Len(retired) <= Len(retired') /\ Len(filed) <= Len(filed')
        /\ review[q].s \in 1..Len(suggestion)
        /\ raced \subseteq raced' /\ (row.status # "pending" => row.pair \in raced')
    BY <1>6, <1>t, TypedFacts DEF Reject, Statuses
  <2>2. ASSUME NEW x \in Matcher, matcher[x].looked, P(x) \notin raced', AlreadyDecidedOrPending(P(x))'
        PROVE  AlreadyDecidedOrPending(P(x))
    <3>1. \A p : AlreadyDecidedOrPending(p)' => AlreadyDecidedOrPending(p) \/ row.pair = p
      BY <2>1, DecidedPairs
    <3>2. AlreadyDecidedOrPending(P(x)) \/ row.pair = P(x)
      BY <2>1, <2>2, <3>1 DEF AlreadyDecidedOrPending, WithStatus
    <3>3. CASE row.pair = P(x)
      BY <2>1, <2>2, <3>3 DEF AlreadyDecidedOrPending, WithStatus
    <3> QED
      BY <3>2, <3>3
  <2> HIDE DEF row
  <2> QED
    BY <1>w, <2>1, <2>2
<1>7. ASSUME NEW q \in Reviewer,
             \/ \E n \in 1..Len(suggestion), decision \in {"approve", "reject"} : Review(q, n, decision)
             \/ Reassign(q) \/ Retire(q) \/ RollBack(q)
             \/ \E c \in Contacts : BeginSplit(q, c)
             \/ CommitSplit(q)
      PROVE  LookingInv'
  BY <1>0, <1>7 DEF Review, Reassign, Retire, RollBack, BeginSplit, CommitSplit, graph, history
<1>8. ASSUME NEW f \in Filer, (\E i \in Identity : Resolve(f, i)) \/ FileMessage(f) PROVE LookingInv'
  BY <1>0, <1>8 DEF Resolve, FileMessage, graph, history
<1>9. ASSUME UNCHANGED identityVars PROVE LookingInv'
  BY <1>0, <1>9 DEF identityVars, graph, history
<1> QED
  BY <1>1, <1>2, <1>3, <1>4, <1>5, <1>6, <1>7, <1>8, <1>9 DEF IdentityNext

\* A step that suggests a pair finds it not rejected.
LEMMA OnlyFreshPairs ==
  ASSUME GraphInv, LookingInv, [IdentityNext]_identityVars
  PROVE  \A n \in 1..Len(suggestion') :
           n > Len(suggestion) /\ suggestion'[n].pair \notin raced =>
             ~WithStatus(suggestion'[n].pair, {"rejected"})
<1> DEFINE Fresh == \A n \in 1..Len(suggestion') :
                      n > Len(suggestion) /\ suggestion'[n].pair \notin raced =>
                        ~WithStatus(suggestion'[n].pair, {"rejected"})
<1>1. ASSUME NEW x \in Matcher, Suggest(x) PROVE Fresh
  <2>1. /\ Len(suggestion) \in Nat /\ Len(suggestion') = Len(suggestion) + 1
        /\ suggestion'[Len(suggestion) + 1].pair = matcher[x].pair /\ matcher[x].looked
    BY <1>1, SuggestFacts, RowFacts DEF Suggest
  <2>2. ASSUME NEW n \in 1..Len(suggestion'), n > Len(suggestion), suggestion'[n].pair \notin raced
        PROVE  ~WithStatus(suggestion'[n].pair, {"rejected"})
    <3>1. suggestion'[n].pair = matcher[x].pair
      BY <2>1, <2>2
    <3>2. ~AlreadyDecidedOrPending(matcher[x].pair)
      BY <2>1, <2>2, <3>1 DEF LookingInv
    <3> QED
      BY <3>1, <3>2 DEF AlreadyDecidedOrPending, WithStatus
  <2> QED
    BY <2>2
<1>2. ASSUME Len(suggestion') = Len(suggestion) PROVE Fresh
  <2>1. Len(suggestion) \in Nat
    BY RowFacts
  <2> QED
    BY <1>2, <2>1
<1>3. ASSUME UNCHANGED suggestion PROVE Fresh
  BY <1>2, <1>3
<1>4. ASSUME NEW x \in Matcher, BeginMatching(x) \/ LookUp(x) PROVE Fresh
  BY <1>3, <1>4 DEF BeginMatching, LookUp, graph
<1>5. ASSUME NEW n \in 1..Len(suggestion), Expire(n) PROVE Fresh
  BY <1>2, <1>5, DecisionsAddNone DEF Expire
<1>6. ASSUME NEW q \in Reviewer,
             \/ \E n \in 1..Len(suggestion), decision \in {"approve", "reject"} : Review(q, n, decision)
             \/ Reassign(q) \/ Retire(q) \/ RollBack(q)
             \/ \E c \in Contacts : BeginSplit(q, c)
             \/ CommitSplit(q)
      PROVE  Fresh
  BY <1>3, <1>6 DEF Review, Reassign, Retire, RollBack, BeginSplit, CommitSplit, graph
<1>7. ASSUME NEW q \in Reviewer, CommitMerge(q) \/ Reject(q) PROVE Fresh
  BY <1>2, <1>7, DecisionsAddNone DEF CommitMerge, Reject
<1>8. ASSUME NEW f \in Filer, (\E i \in Identity : Resolve(f, i)) \/ FileMessage(f) PROVE Fresh
  BY <1>3, <1>8 DEF Resolve, FileMessage, graph
<1>9. ASSUME UNCHANGED identityVars PROVE Fresh
  BY <1>3, <1>9 DEF identityVars, graph
<1> HIDE DEF Fresh
<1>10. Fresh
  BY <1>1, <1>4, <1>5, <1>6, <1>7, <1>8, <1>9 DEF IdentityNext
<1> QED
  BY <1>10 DEF Fresh

\* A pair that a user rejected is not suggested again, unless two sweeps had
\* looked it up at once or the rejection met a suggestion that was not pending
\* any more (alreadyDecidedOrPending, runOnce).
THEOREM RejectionsStand == IdentitySpec => RejectionStands
<1> DEFINE Both == GraphInv /\ LookingInv
<1>1. IdentityInit => Both
  <2>1. IdentityInit => LookingInv
    BY DEF IdentityInit, LookingInv, NoMatching
  <2> QED
    BY <2>1, GraphInitially
<1>2. Both /\ [IdentityNext]_identityVars => Both'
  BY GraphHolds, LookingHolds
<1>3. Both /\ [IdentityNext]_identityVars =>
        [\A n \in 1..Len(suggestion') :
           n > Len(suggestion) /\ suggestion'[n].pair \notin raced =>
             ~WithStatus(suggestion'[n].pair, {"rejected"})]_identityVars
  BY OnlyFreshPairs
<1> HIDE DEF Both
<1> QED
  BY <1>1, <1>2, <1>3, PTL DEF IdentitySpec, RejectionStands

-----------------------------------------------------------------------------
\* Linked accounts.

AccountRecord ==
  [status : DOMAIN Transitions, deleted : BOOLEAN, ref : Nat, cursor : Nat]
RequestRecord ==
  [pc : {"idle", "create", "sync", "activate", "revoke", "deleteSecret", "close"}, id : Nat, ref : Nat]
SweepRecord ==
  [pc : {"idle", "secret", "info", "remove", "updates", "restore", "publish", "putBack", "failed"},
   id : Nat, url : Nat, high : Nat, batch : SUBSET Nat]

Opening == {"sync", "activate"}
Leaving == {"revoke", "deleteSecret", "close"}

AccountsTypeOK ==
  /\ account \in Seq(AccountRecord)
  /\ nextRef \in Nat /\ secret \subseteq 1..nextRef
  /\ \A a \in Ids : account[a].ref \in 1..nextRef

RequestsTypeOK ==
  /\ req \in [Request -> RequestRecord]
  /\ \A q \in Request :
       /\ req[q].pc = "idle" => req[q].ref = 0
       /\ req[q].pc \in {"idle", "create"} => req[q].id = 0
       /\ req[q].pc = "create" => req[q].ref \in 1..nextRef
       /\ req[q].pc \in Opening \cup Leaving =>
            req[q].id \in Ids /\ account[req[q].id].ref = req[q].ref

SweepsTypeOK ==
  /\ arrived \in Nat /\ pending \subseteq 1..arrived /\ webhook \in 0..Len(account)
  /\ sweep \in [Sweep -> SweepRecord]
  /\ \A s \in Sweep :
       /\ sweep[s].id \in 0..Len(account) /\ sweep[s].url \in 0..Len(account)
       /\ sweep[s].pc # "idle" => sweep[s].id \in Ids
       /\ sweep[s].pc \notin {"restore", "publish"} => sweep[s].batch = {}

\* A message that is not queued any more was published or dropped, and a
\* sweep stops at no message that it does not have.
NothingForgotten == 1..arrived \subseteq pending \cup published \cup dropped
SweepsCover ==
  \A s \in Sweep : 1..sweep[s].high \subseteq published \cup dropped \cup sweep[s].batch
CursorInv == NothingForgotten /\ SweepsCover /\ NothingSkipped

\* No two rows have the same secret, nor has a row one that a request is
\* about to give to another.
RefsDistinct ==
  /\ \A a, b \in Ids : account[a].ref = account[b].ref => a = b
  /\ \A q \in Request : req[q].pc = "create" =>
       /\ \A a \in Ids : account[a].ref # req[q].ref
       /\ \A r \in Request : req[r].pc = "create" /\ req[r].ref = req[q].ref => r = q

\* The row of a connect under way is its own: registered, it is neither swept
\* nor disconnected.
OpeningAlone ==
  \A q \in Request :
    /\ req[q].pc = "create" => req[q].ref \in secret
    /\ req[q].pc \in Opening =>
         /\ Open(req[q].id) /\ account[req[q].id].status = "registered"
         /\ req[q].ref \in secret
         /\ \A r \in Request : req[r].id = req[q].id => r = q
         /\ \A s \in Sweep : sweep[s].id # req[q].id

\* Closed rows have no secret left but one whose deletion failed.
ClosedForgotten ==
  /\ \A a \in Ids : ~Open(a) => account[a].ref \notin secret \/ account[a].ref \in torn
  /\ \A q \in Request : req[q].pc = "close" => req[q].ref \notin secret \/ req[q].ref \in torn

SecretsInv == RefsDistinct /\ OpeningAlone /\ ClosedForgotten /\ SecretsMatchAccounts

WebhookInv == webhook # 0 /\ ~stale => ~Closing(webhook)

LinksInv ==
  AccountsTypeOK /\ RequestsTypeOK /\ SweepsTypeOK /\ CursorInv /\ SecretsInv /\ WebhookInv

\* At the start there is nothing.
LEMMA LinksInitially == Init => LinksInv
<1> SUFFICES ASSUME Init PROVE LinksInv
  OBVIOUS
<1>1. account = <<>> /\ Len(account) = 0 /\ account \in Seq(AccountRecord) /\ Ids = {}
  BY EmptySeq DEF Init, Ids
<1>2. /\ \A q \in Request : req[q] = Idle
      /\ \A s \in Sweep : sweep[s] = Resting
      /\ secret = {} /\ nextRef = 0 /\ webhook = 0 /\ arrived = 0 /\ pending = {}
  BY DEF Init
<1>3. /\ Idle \in RequestRecord /\ Idle.pc = "idle" /\ Idle.id = 0 /\ Idle.ref = 0
      /\ Resting \in SweepRecord /\ Resting.pc = "idle" /\ Resting.id = 0 /\ Resting.url = 0
      /\ Resting.batch = {} /\ Resting.high = 0
  BY DEF Idle, Resting, RequestRecord, SweepRecord
<1>4. AccountsTypeOK
  BY <1>1, <1>2 DEF AccountsTypeOK
<1>5. RequestsTypeOK
  BY <1>2, <1>3 DEF RequestsTypeOK, Init, Opening, Leaving
<1>6. SweepsTypeOK
  BY <1>1, <1>2, <1>3 DEF SweepsTypeOK, Init
<1>7. CursorInv
  BY <1>1, <1>2, <1>3 DEF CursorInv, NothingForgotten, SweepsCover, NothingSkipped
<1>8. SecretsInv
  BY <1>1, <1>2, <1>3 DEF SecretsInv, RefsDistinct, OpeningAlone, ClosedForgotten,
                          SecretsMatchAccounts, Opening
<1>9. WebhookInv
  BY <1>2 DEF WebhookInv
<1> QED
  BY <1>4, <1>5, <1>6, <1>7, <1>8, <1>9 DEF LinksInv

\* What the parts of the invariant say together.
LEMMA LinkFacts ==
  ASSUME LinksInv
  PROVE  /\ AccountsTypeOK /\ RequestsTypeOK /\ SweepsTypeOK
         /\ NothingForgotten /\ SweepsCover /\ NothingSkipped
         /\ RefsDistinct /\ OpeningAlone /\ ClosedForgotten /\ SecretsMatchAccounts
         /\ WebhookInv
         /\ Len(account) \in Nat /\ nextRef \in Nat /\ arrived \in Nat
         /\ \A a \in Ids : account[a] \in AccountRecord
  BY LenProperties, ElementOfSeq DEF LinksInv, CursorInv, SecretsInv, AccountsTypeOK, SweepsTypeOK, Ids

\* One row changes.
LEMMA RowSet ==
  ASSUME LinksInv, NEW a \in Ids, NEW new \in AccountRecord, account' = [account EXCEPT ![a] = new]
  PROVE  /\ account' \in Seq(AccountRecord) /\ Len(account') = Len(account) /\ Ids' = Ids
         /\ \A b \in Ids : account'[b] = IF b = a THEN new ELSE account[b]
<1>1. account \in Seq(AccountRecord) /\ Len(account) \in Nat
  BY LinkFacts DEF AccountsTypeOK
<1>2. account \in [1..Len(account) -> AccountRecord]
  BY <1>1, LenProperties
<1>3. /\ account' \in [1..Len(account) -> AccountRecord]
      /\ \A b \in 1..Len(account) : account'[b] = IF b = a THEN new ELSE account[b]
  BY <1>2
<1>4. account' \in Seq(AccountRecord) /\ Len(account') = Len(account)
  BY <1>1, <1>3
<1> QED
  BY <1>3, <1>4 DEF Ids

\* What every step but a new row does to the rows: a secret is for ever.
SameRows ==
  /\ account' \in Seq(AccountRecord) /\ Len(account') = Len(account) /\ Ids' = Ids
  /\ \A a \in Ids : account'[a].ref = account[a].ref

\* Rows that nothing touches.
LEMMA UnchangedRows == ASSUME LinksInv, UNCHANGED account PROVE SameRows
  BY LinkFacts DEF SameRows, AccountsTypeOK, Ids

\* The three parts of the type invariant after a step that leaves one alone.
LEMMA TypesKept ==
  ASSUME LinksInv, SameRows
  PROVE  /\ UNCHANGED nextRef /\ secret' \subseteq secret => AccountsTypeOK'
         /\ UNCHANGED <<nextRef, req>> => RequestsTypeOK'
         /\ UNCHANGED <<arrived, pending, webhook, sweep>> => SweepsTypeOK'
<1>1. AccountsTypeOK /\ RequestsTypeOK /\ SweepsTypeOK
  BY LinkFacts
<1>2. UNCHANGED nextRef /\ secret' \subseteq secret => AccountsTypeOK'
  BY <1>1 DEF AccountsTypeOK, SameRows
<1>3. UNCHANGED <<nextRef, req>> => RequestsTypeOK'
  BY <1>1 DEF RequestsTypeOK, SameRows
<1>4. UNCHANGED <<arrived, pending, webhook, sweep>> => SweepsTypeOK'
  BY <1>1 DEF SweepsTypeOK, SameRows
<1> QED
  BY <1>2, <1>3, <1>4

\* A request that takes a step.
LEMMA RequestTyped ==
  ASSUME LinksInv, SameRows, UNCHANGED nextRef, NEW q \in Request, NEW new \in RequestRecord,
         req' = [req EXCEPT ![q] = new],
         new.pc = "idle" => new.ref = 0,
         new.pc \in {"idle", "create"} => new.id = 0,
         new.pc = "create" => new.ref \in 1..nextRef,
         new.pc \in Opening \cup Leaving => new.id \in Ids /\ account[new.id].ref = new.ref
  PROVE  RequestsTypeOK' /\ \A r \in Request : req'[r] = IF r = q THEN new ELSE req[r]
<1>1. RequestsTypeOK
  BY LinkFacts
<1>2. /\ req' \in [Request -> RequestRecord]
      /\ \A r \in Request : req'[r] = IF r = q THEN new ELSE req[r]
  BY <1>1 DEF RequestsTypeOK
<1> QED
  BY <1>1, <1>2 DEF RequestsTypeOK, SameRows

\* A request that ends.
LEMMA EndFacts ==
  ASSUME LinksInv, SameRows, UNCHANGED nextRef, NEW q \in Request, req' = [req EXCEPT ![q] = Idle]
  PROVE  RequestsTypeOK' /\ \A r \in Request : req'[r] = IF r = q THEN Idle ELSE req[r]
<1>1. Idle \in RequestRecord /\ Idle.pc = "idle" /\ Idle.ref = 0 /\ Idle.id = 0
  BY DEF Idle, RequestRecord
<1> HIDE DEF Idle
<1> QED
  BY <1>1, RequestTyped DEF Opening, Leaving

\* A request that goes on.
LEMMA GoFacts ==
  ASSUME LinksInv, SameRows, UNCHANGED nextRef, NEW q \in Request,
         NEW to \in Opening \cup Leaving,
         req[q].pc \in Opening \cup Leaving, req' = [req EXCEPT ![q].pc = to]
  PROVE  /\ RequestsTypeOK'
         /\ \A r \in Request :
              /\ req'[r].pc = IF r = q THEN to ELSE req[r].pc
              /\ req'[r].id = req[r].id /\ req'[r].ref = req[r].ref
<1> DEFINE new == [req[q] EXCEPT !.pc = to]
<1>1. /\ req[q] \in RequestRecord /\ req[q].id \in Ids /\ account[req[q].id].ref = req[q].ref
  BY LinkFacts DEF RequestsTypeOK
<1>2. /\ new \in RequestRecord /\ new.pc = to /\ new.id = req[q].id /\ new.ref = req[q].ref
  BY <1>1 DEF RequestRecord, Opening, Leaving
<1>3. req' = [req EXCEPT ![q] = new]
  OBVIOUS
<1>4. to # "idle" /\ to # "create"
  BY DEF Opening, Leaving
<1> HIDE DEF new
<1>5. RequestsTypeOK' /\ \A r \in Request : req'[r] = IF r = q THEN new ELSE req[r]
  <2>1. /\ new \in RequestRecord /\ new.pc # "idle" /\ new.pc # "create"
        /\ new.id \in Ids /\ account[new.id].ref = new.ref
    BY <1>1, <1>2, <1>4
  <2> QED
    BY <1>3, <2>1, RequestTyped
<1> QED
  BY <1>2, <1>5

\* A step that neither publishes nor saves a cursor.
LEMMA CursorFrame ==
  ASSUME LinksInv, SameRows, UNCHANGED <<arrived, pending, published, dropped, sweep>>,
         \A a \in Ids : account'[a].cursor = account[a].cursor
  PROVE  CursorInv'
  BY LinkFacts DEF CursorInv, NothingForgotten, SweepsCover, NothingSkipped, SameRows

\* A step of a sweep, for the secrets: it may give a status to the row it
\* sweeps, which no connect is still opening.
LEMMA SecretsFrame ==
  ASSUME LinksInv, SameRows, UNCHANGED <<secret, nextRef, req, torn>>,
         \A a \in Ids : account'[a].deleted = account[a].deleted,
         \A a \in Ids : account'[a].status = account[a].status \/ \E s \in Sweep : sweep[s].id = a,
         \A s \in Sweep : \/ sweep'[s].id = sweep[s].id
                          \/ sweep'[s].id \notin Ids
                          \/ account[sweep'[s].id].status # "registered"
  PROVE  SecretsInv'
<1>1. /\ RefsDistinct /\ OpeningAlone /\ ClosedForgotten /\ SecretsMatchAccounts /\ RequestsTypeOK
  BY LinkFacts
<1>2. RefsDistinct'
  BY <1>1 DEF RefsDistinct, SameRows
<1>3. OpeningAlone'
  <2> SUFFICES ASSUME NEW q \in Request
               PROVE  /\ req[q].pc = "create" => req[q].ref \in secret
                      /\ req[q].pc \in Opening =>
                           /\ ~account'[req[q].id].deleted /\ account'[req[q].id].status = "registered"
                           /\ req[q].ref \in secret
                           /\ \A r \in Request : req[r].id = req[q].id => r = q
                           /\ \A s \in Sweep : sweep'[s].id # req[q].id
    BY DEF OpeningAlone, Open
  <2>1. req[q].pc = "create" => req[q].ref \in secret
    BY <1>1 DEF OpeningAlone
  <2>2. ASSUME req[q].pc \in Opening
        PROVE  /\ ~account'[req[q].id].deleted /\ account'[req[q].id].status = "registered"
               /\ req[q].ref \in secret
               /\ \A r \in Request : req[r].id = req[q].id => r = q
               /\ \A s \in Sweep : sweep'[s].id # req[q].id
    <3>1. req[q].id \in Ids
      BY <1>1, <2>2 DEF RequestsTypeOK
    <3>2. /\ ~account[req[q].id].deleted /\ account[req[q].id].status = "registered"
          /\ req[q].ref \in secret
          /\ \A r \in Request : req[r].id = req[q].id => r = q
          /\ \A s \in Sweep : sweep[s].id # req[q].id
      BY <1>1, <2>2 DEF OpeningAlone, Open
    <3>3. \A s \in Sweep : sweep'[s].id # req[q].id
      BY <3>1, <3>2
    <3> QED
      BY <3>1, <3>2, <3>3
  <2> QED
    BY <2>1, <2>2
<1>4. ClosedForgotten'
  BY <1>1 DEF ClosedForgotten, SameRows, Open
<1>5. SecretsMatchAccounts'
  BY <1>1 DEF SecretsMatchAccounts, SameRows, Open, Owned
<1> QED
  BY <1>2, <1>3, <1>4, <1>5 DEF SecretsInv

\* A step that closes nothing and puts no webhook.
LEMMA WebhookFrame ==
  ASSUME LinksInv, SameRows, UNCHANGED stale, webhook' = webhook \/ webhook' = 0,
         \A a \in Ids : account'[a].deleted = account[a].deleted,
         \A q \in Request : req'[q].pc \in {"deleteSecret", "close"} =>
           req[q].pc \in {"deleteSecret", "close"} /\ req'[q].id = req[q].id
  PROVE  WebhookInv'
<1>1. WebhookInv /\ webhook \in 0..Len(account) /\ Len(account) \in Nat
  BY LinkFacts DEF SweepsTypeOK
<1>2. SUFFICES ASSUME webhook' # 0, ~stale' PROVE ~Closing(webhook)'
  BY DEF WebhookInv
<1>3. webhook' = webhook /\ webhook \in Ids /\ ~Closing(webhook)
  BY <1>1, <1>2 DEF WebhookInv, Ids
<1> QED
  BY <1>3 DEF Closing, Open

\* A set of messages that have arrived has a highest one.
LEMMA HighestFacts ==
  ASSUME NEW n \in Nat, NEW S, S \subseteq 1..n, NEW c \in Nat
  PROVE  /\ Highest(S, c) \in Nat
         /\ S = {} => Highest(S, c) = c
         /\ S # {} => Highest(S, c) \in S
<1>1. CASE S = {}
  BY <1>1 DEF Highest
<1>2. CASE S # {}
  <2> DEFINE T == {n - m : m \in S}
  <2>1. T \subseteq Nat /\ T # {}
    <3>1. \A m \in S : n - m \in Nat
      OBVIOUS
    <3>2. PICK m \in S : TRUE
      BY <1>2
    <3>3. n - m \in T
      OBVIOUS
    <3> QED
      BY <3>1, <3>3
  <2>2. IsWellFoundedOn(OpToRel(<, Nat), Nat)
    BY NatLessThanWellFounded
  <2> HIDE DEF T
  <2>3. PICK t \in T : \A u \in T : ~(<<u, t>> \in OpToRel(<, Nat))
    BY <2>1, <2>2, WFMin
  <2>4. \A u \in T : ~(u < t)
    BY <2>1, <2>3 DEF OpToRel
  <2>5. PICK m \in S : t = n - m
    BY DEF T
  <2>6. \A k \in S : n - k \in T
    BY DEF T
  <2>7. ASSUME NEW k \in S PROVE k <= m
    BY <2>4, <2>5, <2>6
  <2>8. Highest(S, c) = CHOOSE h \in S : \A k \in S : k <= h
    BY <1>2 DEF Highest
  <2>9. Highest(S, c) \in S
    BY <2>7, <2>8
  <2>10. \A k \in S : k \in Nat
    OBVIOUS
  <2> QED
    BY <1>2, <2>9, <2>10
<1> QED
  BY <1>1, <1>2

\* A sweep that goes on.
LEMMA SweepFacts ==
  ASSUME LinksInv, NEW s \in Sweep, NEW new \in SweepRecord, sweep' = [sweep EXCEPT ![s] = new]
  PROVE  \A r \in Sweep : sweep'[r] = IF r = s THEN new ELSE sweep[r]
  BY LinkFacts DEF SweepsTypeOK

\* Types after a step of a sweep.
LEMMA SweepStepTyped ==
  ASSUME LinksInv, SameRows, NEW s \in Sweep, NEW new \in SweepRecord, sweep' = [sweep EXCEPT ![s] = new],
         arrived' \in Nat, pending' \subseteq 1..arrived', webhook' \in 0..Len(account),
         new.id \in 0..Len(account), new.url \in 0..Len(account),
         new.pc # "idle" => new.id \in Ids,
         new.pc \notin {"restore", "publish"} => new.batch = {}
  PROVE  SweepsTypeOK'
<1>1. SweepsTypeOK
  BY LinkFacts
<1>2. sweep' \in [Sweep -> SweepRecord]
  BY <1>1 DEF SweepsTypeOK
<1>3. \A r \in Sweep : sweep'[r] = IF r = s THEN new ELSE sweep[r]
  BY SweepFacts
<1> QED
  BY <1>1, <1>2, <1>3 DEF SweepsTypeOK, SameRows

\* A sweep begins at the cursor.
LEMMA BeginSweepHolds ==
  ASSUME LinksInv, NEW s \in Sweep, NEW a \in Ids, BeginSweep(s, a)
  PROVE  LinksInv'
<1> DEFINE new == [Resting EXCEPT !.pc = "secret", !.id = a, !.high = account[a].cursor]
<1>1. /\ UNCHANGED <<account, secret, nextRef, webhook, arrived, pending, published, dropped,
                     req, torn, stale>>
      /\ sweep' = [sweep EXCEPT ![s] = new] /\ account[a].status \in Swept
  BY DEF BeginSweep, providerVars
<1>2. SameRows
  BY <1>1, UnchangedRows
<1>3. /\ account[a].cursor \in Nat /\ a \in Nat /\ Len(account) \in Nat /\ a \in 0..Len(account)
      /\ SweepsTypeOK /\ NothingForgotten /\ SweepsCover /\ NothingSkipped
  BY LinkFacts DEF AccountRecord, Ids
<1>4. /\ new \in SweepRecord /\ new.pc = "secret" /\ new.id = a /\ new.url = 0
      /\ new.high = account[a].cursor /\ new.batch = {}
  BY <1>3 DEF Resting, SweepRecord
<1> HIDE DEF new
<1>5. AccountsTypeOK' /\ RequestsTypeOK'
  BY <1>1, <1>2, TypesKept
<1>6. SweepsTypeOK'
  <2>1. /\ arrived' \in Nat /\ pending' \subseteq 1..arrived' /\ webhook' \in 0..Len(account)
        /\ 0 \in 0..Len(account)
    BY <1>1, <1>3 DEF SweepsTypeOK
  <2> QED
    BY <1>1, <1>2, <1>3, <1>4, <2>1, SweepStepTyped
<1>7. \A r \in Sweep : sweep'[r] = IF r = s THEN new ELSE sweep[r]
  BY <1>1, <1>4, SweepFacts
<1>8. CursorInv'
  BY <1>1, <1>3, <1>4, <1>7 DEF CursorInv, NothingForgotten, SweepsCover, NothingSkipped, Ids
<1>9. "registered" \notin Swept
  BY DEF Swept
<1>10. SecretsInv'
  BY <1>1, <1>2, <1>4, <1>7, <1>9, SecretsFrame
<1>11. WebhookInv'
  BY <1>1, <1>2, WebhookFrame
<1> QED
  BY <1>5, <1>6, <1>8, <1>10, <1>11 DEF LinksInv

\* A sweep that goes on with the messages and the cursor it has, past calls
\* that at most take the webhook away.
LEMMA SweepGoesOn ==
  ASSUME LinksInv, NEW s \in Sweep, sweep[s].pc # "idle",
         UNCHANGED <<account, secret, nextRef, arrived, published, dropped, req, torn, stale>>,
         webhook' \in {webhook, 0},
         pending' \subseteq pending, NothingForgotten',
         NEW pc \in {"info", "remove", "updates", "publish", "putBack"},
         NEW url \in 0..Len(account),
         sweep' = [sweep EXCEPT ![s] = [sweep[s] EXCEPT !.pc = pc, !.url = url]],
         pc # "publish" => sweep[s].batch = {}
  PROVE  LinksInv'
<1> DEFINE new == [sweep[s] EXCEPT !.pc = pc, !.url = url]
<1>1. SameRows
  BY UnchangedRows
<1>2. /\ Len(account) \in Nat /\ arrived \in Nat
      /\ SweepsTypeOK /\ NothingForgotten /\ SweepsCover /\ NothingSkipped
  BY LinkFacts
<1>3. /\ sweep[s] \in SweepRecord /\ url \in Nat
      /\ sweep[s].id \in Ids /\ sweep[s].id \in 0..Len(account)
      /\ 0 \in 0..Len(account) /\ webhook \in 0..Len(account) /\ pending \subseteq 1..arrived
  BY <1>2 DEF SweepsTypeOK
<1>4. /\ new \in SweepRecord /\ new.pc = pc /\ new.id = sweep[s].id
      /\ new.url = url /\ new.high = sweep[s].high /\ new.batch = sweep[s].batch
  BY <1>3 DEF SweepRecord
<1>5. sweep' = [sweep EXCEPT ![s] = new]
  OBVIOUS
<1> HIDE DEF new
<1>6. AccountsTypeOK' /\ RequestsTypeOK'
  BY <1>1, TypesKept
<1>7. SweepsTypeOK'
  <2>1. /\ arrived' \in Nat /\ pending' \subseteq 1..arrived' /\ webhook' \in 0..Len(account)
    BY <1>2, <1>3
  <2>2. /\ new.id \in 0..Len(account) /\ new.url \in 0..Len(account)
        /\ new.pc # "idle" => new.id \in Ids
        /\ new.pc \notin {"restore", "publish"} => new.batch = {}
    BY <1>3, <1>4
  <2> QED
    BY <1>1, <1>4, <1>5, <2>1, <2>2, SweepStepTyped
<1>8. \A r \in Sweep : sweep'[r] = IF r = s THEN new ELSE sweep[r]
  BY <1>4, <1>5, SweepFacts
<1>9. CursorInv'
  BY <1>2, <1>4, <1>8 DEF CursorInv, SweepsCover, NothingSkipped, Ids
<1>10. SecretsInv'
  BY <1>1, <1>4, <1>8, SecretsFrame
<1>11. WebhookInv'
  BY <1>1, WebhookFrame
<1> QED
  BY <1>6, <1>7, <1>9, <1>10, <1>11 DEF LinksInv

\* What there is before the updates.
LEMMA AskHolds ==
  ASSUME LinksInv, NEW s \in Sweep, GetSecret(s) \/ CheckWebhook(s) \/ RemoveWebhook(s)
  PROVE  LinksInv'
<1>1. /\ UNCHANGED <<account, secret, nextRef, arrived, pending, published, dropped, req, torn, stale>>
      /\ webhook' \in {webhook, 0}
      /\ sweep[s].pc \in {"secret", "info", "remove"}
  BY DEF GetSecret, CheckWebhook, RemoveWebhook, Continue, providerVars
<1>2. /\ SweepsTypeOK /\ NothingForgotten
  BY LinkFacts
<1>3. /\ sweep[s] \in SweepRecord /\ sweep[s].url \in 0..Len(account) /\ sweep[s].batch = {}
      /\ webhook \in 0..Len(account)
  BY <1>1, <1>2 DEF SweepsTypeOK
<1>4. PICK pc \in {"info", "remove", "updates", "publish", "putBack"}, url \in 0..Len(account) :
        sweep' = [sweep EXCEPT ![s] = [sweep[s] EXCEPT !.pc = pc, !.url = url]]
  <2>1. ASSUME NEW from, NEW to \in {"info", "remove", "updates", "publish", "putBack"},
               Continue(s, from, to)
        PROVE  sweep' = [sweep EXCEPT ![s] = [sweep[s] EXCEPT !.pc = to, !.url = sweep[s].url]]
    <3>1. [sweep[s] EXCEPT !.pc = to] = [sweep[s] EXCEPT !.pc = to, !.url = sweep[s].url]
      BY <1>3 DEF SweepRecord
    <3>2. sweep' = [sweep EXCEPT ![s] = [sweep[s] EXCEPT !.pc = to]]
      BY <2>1 DEF Continue
    <3> QED
      BY <3>1, <3>2
  <2>2. CASE GetSecret(s)
    BY <1>3, <2>1, <2>2 DEF GetSecret
  <2>3. CASE CheckWebhook(s)
    <3>1. CASE Continue(s, "info", "publish")
      BY <1>3, <2>1, <3>1
    <3>2. CASE sweep' = [sweep EXCEPT ![s].pc = "remove", ![s].url = webhook]
      <4>1. sweep' = [sweep EXCEPT ![s] = [sweep[s] EXCEPT !.pc = "remove", !.url = webhook]]
        BY <1>2, <3>2 DEF SweepsTypeOK
      <4> QED
        BY <1>3, <4>1
    <3> QED
      BY <2>3, <3>1, <3>2 DEF CheckWebhook
  <2>4. CASE RemoveWebhook(s)
    BY <1>3, <2>1, <2>4 DEF RemoveWebhook
  <2> QED
    BY <2>2, <2>3, <2>4
<1>5. NothingForgotten'
  BY <1>1, <1>2 DEF NothingForgotten
<1> QED
  BY <1>1, <1>3, <1>4, <1>5, SweepGoesOn

\* What a sweep reads is the oldest that was queued past the cursor.
LEMMA GetUpdatesHolds ==
  ASSUME LinksInv, NEW s \in Sweep, GetUpdates(s)
  PROVE  LinksInv'
<1> DEFINE fresh == {m \in pending : m > sweep[s].high}
<1>1. /\ UNCHANGED <<account, secret, nextRef, webhook, arrived, published, dropped, req, torn, stale>>
      /\ sweep[s].pc = "updates" /\ pending' \in {pending, fresh}
  BY DEF GetUpdates, Continue
<1>2. SameRows
  BY <1>1, UnchangedRows
<1>3. /\ Len(account) \in Nat /\ arrived \in Nat
      /\ SweepsTypeOK /\ NothingForgotten /\ SweepsCover /\ NothingSkipped
  BY LinkFacts
<1>4. /\ sweep[s] \in SweepRecord /\ sweep[s].high \in Nat
      /\ sweep[s].id \in Ids /\ sweep[s].id \in 0..Len(account) /\ sweep[s].url \in 0..Len(account)
      /\ sweep[s].batch = {} /\ webhook \in 0..Len(account)
      /\ pending \subseteq 1..arrived
  BY <1>1, <1>3 DEF SweepsTypeOK, SweepRecord
<1>5. fresh \subseteq pending /\ fresh \subseteq 1..arrived
  BY <1>4
<1>6. 1..sweep[s].high \subseteq published \cup dropped
  BY <1>3, <1>4 DEF SweepsCover
<1>7. \A m \in pending : m \notin fresh => m \in 1..sweep[s].high
  BY <1>3, <1>4
<1>u. \/ /\ sweep' = [sweep EXCEPT ![s].pc = "putBack"]
      \/ \E page \in Pages(fresh) :
           sweep' = [sweep EXCEPT ![s] = [sweep[s] EXCEPT
             !.pc = "restore", !.batch = page, !.high = Highest(page, sweep[s].high)]]
  BY DEF GetUpdates, Continue
<1> HIDE DEF fresh
<1>8. pending' \subseteq pending /\ NothingForgotten'
  BY <1>1, <1>3, <1>5, <1>6, <1>7 DEF NothingForgotten
<1>9. CASE sweep' = [sweep EXCEPT ![s].pc = "putBack"]
  <2>1. [sweep[s] EXCEPT !.pc = "putBack"] = [sweep[s] EXCEPT !.pc = "putBack", !.url = sweep[s].url]
    BY <1>4 DEF SweepRecord
  <2>2. sweep' = [sweep EXCEPT ![s] = [sweep[s] EXCEPT !.pc = "putBack", !.url = sweep[s].url]]
    BY <1>9, <2>1
  <2>3. /\ UNCHANGED <<account, secret, nextRef, arrived, published, dropped, req, torn, stale>>
        /\ sweep[s].pc # "idle" /\ webhook' \in {webhook, 0} /\ sweep[s].url \in 0..Len(account)
        /\ "putBack" \in {"info", "remove", "updates", "publish", "putBack"}
    BY <1>1, <1>4
  <2> QED
    BY <1>4, <1>8, <2>2, <2>3, SweepGoesOn
<1>10. ASSUME NEW page \in Pages(fresh),
              sweep' = [sweep EXCEPT ![s] = [sweep[s] EXCEPT
                !.pc = "restore", !.batch = page, !.high = Highest(page, sweep[s].high)]]
       PROVE  LinksInv'
  <2> DEFINE high == Highest(page, sweep[s].high)
             busy == [sweep[s] EXCEPT !.pc = "restore", !.batch = page, !.high = high]
  <2>1. /\ page \subseteq fresh /\ page \in SUBSET Nat
        /\ high \in Nat
        /\ page = {} => high = sweep[s].high
        /\ page # {} => high \in page
        /\ \A m \in fresh : m <= high => m \in page \/ m <= sweep[s].high
    <3>1. page \subseteq fresh /\ (page = {} => fresh = {}) /\ \A m \in page, k \in fresh \ page : m < k
      BY DEF Pages
    <3>2. page \subseteq 1..arrived /\ page \in SUBSET Nat /\ \A m \in fresh : m \in Nat
      BY <1>3, <1>5, <3>1
    <3>3. high \in Nat /\ (page = {} => high = sweep[s].high) /\ (page # {} => high \in page)
      <4>1. arrived \in Nat /\ sweep[s].high \in Nat
        BY <1>3, <1>4
      <4> QED
        BY ONLY <3>2, <4>1, HighestFacts
    <3> HIDE DEF high
    <3>4. ASSUME NEW m \in fresh, m <= high, m \notin page PROVE m <= sweep[s].high
      <4>1. page # {}
        BY <3>1
      <4>2. high < m
        BY <3>1, <3>3, <3>4, <4>1
      <4> QED
        BY <3>2, <3>3, <3>4, <4>2
    <3> QED
      BY <3>1, <3>2, <3>3, <3>4
  <2>2. sweep' = [sweep EXCEPT ![s] = busy]
    BY <1>10
  <2> HIDE DEF high
  <2>3. /\ busy \in SweepRecord /\ busy.pc = "restore" /\ busy.id = sweep[s].id
        /\ busy.url = sweep[s].url /\ busy.high = high /\ busy.batch = page
    BY <1>4, <2>1 DEF SweepRecord
  <2> HIDE DEF busy
  <2>4. AccountsTypeOK' /\ RequestsTypeOK'
    BY <1>1, <1>2, TypesKept
  <2>5. SweepsTypeOK'
    <3>1. /\ webhook' \in 0..Len(account) /\ arrived' \in Nat /\ pending' \subseteq 1..arrived'
      BY <1>1, <1>3, <1>4, <1>8
    <3> QED
      BY <1>2, <1>4, <2>2, <2>3, <3>1, SweepStepTyped
  <2>6. \A r \in Sweep : sweep'[r] = IF r = s THEN busy ELSE sweep[r]
    BY <2>2, <2>3, SweepFacts
  <2>7. ASSUME NEW m \in 1..high PROVE m \in published \cup dropped \cup page
    <3>1. CASE m \in 1..sweep[s].high
      BY <1>6, <3>1
    <3>2. CASE m \notin 1..sweep[s].high
      <4>1. ~(m <= sweep[s].high)
        BY <1>4, <2>1, <3>2
      <4>2. page # {}
        BY <1>4, <2>1, <4>1
      <4>3. m \in 1..arrived
        BY <1>3, <1>5, <2>1, <4>2
      <4>4. m \in pending => m \in page
        BY <1>7, <2>1, <3>2, <4>1
      <4> QED
        BY <1>3, <4>3, <4>4 DEF NothingForgotten
    <3> QED
      BY <3>1, <3>2
  <2>8. SweepsCover' /\ NothingSkipped'
    BY <1>1, <1>3, <2>3, <2>6, <2>7 DEF SweepsCover, NothingSkipped, Ids
  <2>9. SecretsInv'
    BY <1>1, <1>2, <2>3, <2>6, SecretsFrame
  <2>10. WebhookInv'
    BY <1>1, <1>2, WebhookFrame
  <2> QED
    BY <1>8, <2>4, <2>5, <2>8, <2>9, <2>10 DEF LinksInv, CursorInv
<1> QED
  BY <1>u, <1>9, <1>10

\* A webhook put back on an account that is closing, or closed, is stale.
LEMMA RestoreHolds ==
  ASSUME LinksInv, NEW s \in Sweep, RestoreWebhook(s)
  PROVE  LinksInv'
<1>0. PICK to \in {"publish", "failed"} :
        /\ sweep' = [sweep EXCEPT ![s].pc = to]
        /\ to = "failed" => sweep[s].pc = "putBack"
  BY DEF RestoreWebhook, Continue
<1> DEFINE new == [sweep[s] EXCEPT !.pc = to]
<1>1. /\ UNCHANGED <<account, secret, nextRef, arrived, pending, published, dropped, req, torn>>
      /\ sweep[s].pc # "idle" /\ sweep' = [sweep EXCEPT ![s] = new]
      /\ \/ UNCHANGED <<webhook, stale>>
         \/ /\ sweep[s].url # 0
            /\ webhook' = sweep[s].url
            /\ stale' = (stale \/ Closing(sweep[s].url))
  BY <1>0 DEF RestoreWebhook, Continue
<1>2. SameRows
  BY <1>1, UnchangedRows
<1>3. /\ Len(account) \in Nat /\ arrived \in Nat
      /\ SweepsTypeOK /\ NothingForgotten /\ SweepsCover /\ NothingSkipped
  BY LinkFacts
<1>4. /\ sweep[s] \in SweepRecord
      /\ sweep[s].id \in Ids /\ sweep[s].id \in 0..Len(account) /\ sweep[s].url \in 0..Len(account)
      /\ webhook' \in 0..Len(account) /\ pending' \subseteq 1..arrived' /\ arrived' \in Nat
  BY <1>1, <1>3 DEF SweepsTypeOK
<1>5. /\ new \in SweepRecord /\ new.pc = to /\ new.id = sweep[s].id
      /\ new.url = sweep[s].url /\ new.high = sweep[s].high /\ new.batch = sweep[s].batch
  BY <1>4 DEF SweepRecord
<1> HIDE DEF new
<1>6. AccountsTypeOK' /\ RequestsTypeOK'
  BY <1>1, <1>2, TypesKept
<1>7. SweepsTypeOK'
  <2>1. new.pc \notin {"restore", "publish"} => new.batch = {}
    BY <1>0, <1>3, <1>5 DEF SweepsTypeOK
  <2> QED
    BY <1>1, <1>2, <1>4, <1>5, <2>1, SweepStepTyped
<1>8. \A r \in Sweep : sweep'[r] = IF r = s THEN new ELSE sweep[r]
  BY <1>1, <1>5, SweepFacts
<1>9. CursorInv'
  BY <1>1, <1>3, <1>5, <1>8 DEF CursorInv, NothingForgotten, SweepsCover, NothingSkipped, Ids
<1>10. SecretsInv'
  BY <1>1, <1>2, <1>5, <1>8, SecretsFrame
<1>11. WebhookInv'
  <2>1. CASE UNCHANGED <<webhook, stale>>
    BY <1>1, <1>2, <2>1, WebhookFrame
  <2>2. CASE webhook' = sweep[s].url /\ stale' = (stale \/ Closing(sweep[s].url))
    BY <1>1, <2>2 DEF WebhookInv, Closing, Open
  <2> QED
    BY <1>1, <2>1, <2>2
<1> QED
  BY <1>6, <1>7, <1>9, <1>10, <1>11 DEF LinksInv

\* A message leaves the batch when it is published.
LEMMA PublishHolds ==
  ASSUME LinksInv, NEW s \in Sweep, Publish(s)
  PROVE  LinksInv'
<1>1. PICK m :
        /\ published' = published \cup {m}
        /\ sweep' = [sweep EXCEPT ![s].batch = @ \ {m}]
  BY DEF Publish
<1>2. /\ UNCHANGED <<account, secret, nextRef, webhook, arrived, pending, dropped, req, torn, stale>>
      /\ sweep[s].pc = "publish"
  BY DEF Publish
<1> DEFINE new == [sweep[s] EXCEPT !.batch = sweep[s].batch \ {m}]
<1>3. SameRows
  BY <1>2, UnchangedRows
<1>4. /\ Len(account) \in Nat
      /\ SweepsTypeOK /\ NothingForgotten /\ SweepsCover /\ NothingSkipped
  BY LinkFacts
<1>5. /\ sweep[s] \in SweepRecord
      /\ sweep[s].id \in Ids /\ sweep[s].id \in 0..Len(account) /\ sweep[s].url \in 0..Len(account)
      /\ webhook' \in 0..Len(account) /\ pending' \subseteq 1..arrived' /\ arrived' \in Nat
  BY <1>2, <1>4 DEF SweepsTypeOK
<1>6. /\ new \in SweepRecord /\ new.pc = "publish" /\ new.id = sweep[s].id
      /\ new.url = sweep[s].url /\ new.high = sweep[s].high /\ new.batch = sweep[s].batch \ {m}
  BY <1>2, <1>5 DEF SweepRecord
<1>7. sweep' = [sweep EXCEPT ![s] = new]
  BY <1>1
<1> HIDE DEF new
<1>8. AccountsTypeOK' /\ RequestsTypeOK'
  BY <1>2, <1>3, TypesKept
<1>9. SweepsTypeOK'
  BY <1>3, <1>5, <1>6, <1>7, SweepStepTyped
<1>10. \A r \in Sweep : sweep'[r] = IF r = s THEN new ELSE sweep[r]
  BY <1>6, <1>7, SweepFacts
<1>11. CursorInv'
  BY <1>1, <1>2, <1>4, <1>6, <1>10 DEF CursorInv, NothingForgotten, SweepsCover, NothingSkipped, Ids
<1>12. SecretsInv'
  BY <1>2, <1>3, <1>6, <1>10, SecretsFrame
<1>13. WebhookInv'
  BY <1>2, <1>3, WebhookFrame
<1> QED
  BY <1>8, <1>9, <1>11, <1>12, <1>13 DEF LinksInv

\* A sweep that rests again.
LEMMA RestingFacts ==
  /\ Resting \in SweepRecord /\ Resting.pc = "idle" /\ Resting.id = 0 /\ Resting.url = 0
  /\ Resting.high = 0 /\ Resting.batch = {}
  BY DEF Resting, SweepRecord

\* A cursor is saved, by id, when the batch is empty.
LEMMA SaveCursorHolds ==
  ASSUME LinksInv, NEW s \in Sweep, SaveCursor(s)
  PROVE  LinksInv'
<1> DEFINE a == sweep[s].id
           row == [account[a] EXCEPT !.cursor = sweep[s].high, !.status = "active"]
<1>1. /\ UNCHANGED <<secret, nextRef, webhook, arrived, pending, published, dropped, req, torn, stale>>
      /\ sweep[s].pc = "publish" /\ sweep[s].batch = {}
      /\ sweep' = [sweep EXCEPT ![s] = Resting]
      /\ account' = [account EXCEPT ![a] = row]
  BY DEF SaveCursor, MaySave, providerVars
<1>2. /\ Len(account) \in Nat
      /\ SweepsTypeOK /\ NothingForgotten /\ SweepsCover /\ NothingSkipped /\ AccountsTypeOK
      /\ \A b \in Ids : account[b] \in AccountRecord
  BY LinkFacts
<1>3. a \in Ids /\ sweep[s].high \in Nat
  BY <1>1, <1>2 DEF SweepsTypeOK, SweepRecord
<1>4. /\ row \in AccountRecord /\ row.ref = account[a].ref /\ row.deleted = account[a].deleted
      /\ row.cursor = sweep[s].high
  BY <1>2, <1>3 DEF AccountRecord, Transitions
<1>s. sweep[s].id = a
  OBVIOUS
<1> HIDE DEF row, a
<1>5. /\ account' \in Seq(AccountRecord) /\ Len(account') = Len(account) /\ Ids' = Ids
      /\ \A b \in Ids : account'[b] = IF b = a THEN row ELSE account[b]
  BY <1>1, <1>3, <1>4, RowSet
<1>6. SameRows
  BY <1>4, <1>5 DEF SameRows
<1>7. AccountsTypeOK' /\ RequestsTypeOK'
  BY <1>1, <1>6, TypesKept
<1>8. SweepsTypeOK'
  <2>1. /\ arrived' \in Nat /\ pending' \subseteq 1..arrived' /\ webhook' \in 0..Len(account)
        /\ 0 \in 0..Len(account)
    BY <1>1, <1>2 DEF SweepsTypeOK
  <2> QED
    BY <1>1, <1>6, <2>1, RestingFacts, SweepStepTyped
<1>9. \A r \in Sweep : sweep'[r] = IF r = s THEN Resting ELSE sweep[r]
  BY <1>1, RestingFacts, SweepFacts
<1>10. CursorInv'
  <2>1. 1..sweep[s].high \subseteq published \cup dropped
    BY <1>1, <1>2 DEF SweepsCover
  <2>2. NothingForgotten' /\ SweepsCover'
    BY <1>1, <1>2, <1>9, RestingFacts DEF NothingForgotten, SweepsCover
  <2>3. NothingSkipped'
    BY <1>1, <1>2, <1>4, <1>5, <2>1 DEF NothingSkipped
  <2> QED
    BY <2>2, <2>3 DEF CursorInv
<1>11. SecretsInv'
  <2>1. 0 \notin Ids
    BY <1>2 DEF Ids
  <2> QED
    BY <1>1, <1>4, <1>5, <1>6, <1>9, <1>s, <2>1, RestingFacts, SecretsFrame
<1>12. WebhookInv'
  BY <1>1, <1>4, <1>5, <1>6, WebhookFrame
<1> QED
  BY <1>7, <1>8, <1>10, <1>11, <1>12 DEF LinksInv

\* A sweep that fails leaves the cursor.
LEMMA SweepFailsHolds ==
  ASSUME LinksInv, NEW s \in Sweep, SweepFails(s)
  PROVE  LinksInv'
<1> DEFINE a == sweep[s].id
<1>0. PICK status \in {"degraded", "reauth_required"} :
        account' = [account EXCEPT ![a].status = status]
  BY DEF SweepFails
<1> DEFINE row == [account[a] EXCEPT !.status = status]
<1>1. /\ UNCHANGED <<secret, nextRef, arrived, pending, published, dropped, req, torn, stale>>
      /\ webhook' = webhook /\ sweep[s].pc # "idle"
      /\ sweep' = [sweep EXCEPT ![s] = Resting]
      /\ account' = [account EXCEPT ![a] = row]
  BY <1>0 DEF SweepFails, providerVars
<1>2. /\ Len(account) \in Nat
      /\ SweepsTypeOK /\ NothingForgotten /\ SweepsCover /\ NothingSkipped /\ AccountsTypeOK
      /\ \A b \in Ids : account[b] \in AccountRecord
  BY LinkFacts
<1>3. a \in Ids
  BY <1>1, <1>2 DEF SweepsTypeOK
<1>4. /\ row \in AccountRecord /\ row.ref = account[a].ref /\ row.deleted = account[a].deleted
      /\ row.cursor = account[a].cursor
  BY <1>2, <1>3 DEF AccountRecord, Transitions
<1>s. sweep[s].id = a
  OBVIOUS
<1> HIDE DEF row, a
<1>5. /\ account' \in Seq(AccountRecord) /\ Len(account') = Len(account) /\ Ids' = Ids
      /\ \A b \in Ids : account'[b] = IF b = a THEN row ELSE account[b]
  BY <1>1, <1>3, <1>4, RowSet
<1>6. SameRows
  BY <1>4, <1>5 DEF SameRows
<1>7. AccountsTypeOK' /\ RequestsTypeOK'
  BY <1>1, <1>6, TypesKept
<1>8. SweepsTypeOK'
  <2>1. /\ arrived' \in Nat /\ pending' \subseteq 1..arrived' /\ webhook' \in 0..Len(account)
        /\ 0 \in 0..Len(account)
    BY <1>1, <1>2 DEF SweepsTypeOK
  <2> QED
    BY <1>1, <1>6, <2>1, RestingFacts, SweepStepTyped
<1>9. \A r \in Sweep : sweep'[r] = IF r = s THEN Resting ELSE sweep[r]
  BY <1>1, RestingFacts, SweepFacts
<1>10. CursorInv'
  <2>1. NothingForgotten' /\ SweepsCover'
    BY <1>1, <1>2, <1>9, RestingFacts DEF NothingForgotten, SweepsCover
  <2>2. NothingSkipped'
    BY <1>1, <1>2, <1>4, <1>5 DEF NothingSkipped
  <2> QED
    BY <2>1, <2>2 DEF CursorInv
<1>11. SecretsInv'
  <2>1. 0 \notin Ids
    BY <1>2 DEF Ids
  <2> QED
    BY <1>1, <1>4, <1>5, <1>6, <1>9, <1>s, <2>1, RestingFacts, SecretsFrame
<1>12. WebhookInv'
  BY <1>1, <1>4, <1>5, <1>6, WebhookFrame
<1> QED
  BY <1>7, <1>8, <1>10, <1>11, <1>12 DEF LinksInv

\* The provider queues a message, or calls the webhook with one.
LEMMA ProviderHolds ==
  ASSUME LinksInv, Arrive \/ \E m \in pending : Deliver(m)
  PROVE  LinksInv'
<1>1. UNCHANGED <<account, secret, nextRef, webhook, req, sweep, torn, stale>>
  BY DEF Arrive, Deliver
<1>2. /\ Len(account) \in Nat /\ arrived \in Nat
      /\ SweepsTypeOK /\ NothingForgotten /\ SweepsCover /\ NothingSkipped
  BY LinkFacts
<1>3. SameRows
  BY <1>1, UnchangedRows
<1>4. AccountsTypeOK' /\ RequestsTypeOK'
  BY <1>1, <1>3, TypesKept
<1>5. SecretsInv' /\ WebhookInv'
  BY <1>1, <1>3, SecretsFrame, WebhookFrame
<1>6. CASE Arrive
  <2>1. /\ arrived' = arrived + 1 /\ pending' = pending \cup {arrived + 1}
        /\ UNCHANGED <<published, dropped>>
    BY <1>6 DEF Arrive
  <2>2. SweepsTypeOK'
    BY <1>1, <1>2, <2>1 DEF SweepsTypeOK, Ids
  <2>3. NothingForgotten'
    BY <1>2, <2>1 DEF NothingForgotten
  <2>4. SweepsCover' /\ NothingSkipped'
    BY <1>1, <1>2, <2>1 DEF SweepsCover, NothingSkipped, Ids
  <2> QED
    BY <1>4, <1>5, <2>2, <2>3, <2>4 DEF LinksInv, CursorInv
<1>7. ASSUME NEW m \in pending, Deliver(m) PROVE LinksInv'
  <2>1. /\ arrived' = arrived /\ pending' = pending \ {m}
        /\ published \subseteq published' /\ dropped \subseteq dropped'
        /\ m \in published' \cup dropped'
    BY <1>7 DEF Deliver
  <2>2. SweepsTypeOK'
    BY <1>1, <1>2, <2>1 DEF SweepsTypeOK, Ids
  <2>3. NothingForgotten'
    BY <1>2, <2>1 DEF NothingForgotten
  <2>4. SweepsCover' /\ NothingSkipped'
    BY <1>1, <1>2, <2>1 DEF SweepsCover, NothingSkipped, Ids
  <2> QED
    BY <1>4, <1>5, <2>2, <2>3, <2>4 DEF LinksInv, CursorInv
<1> QED
  BY <1>6, <1>7

\* What the steps of a request leave alone, for the cursors.
LEMMA RequestsKeepCursors ==
  ASSUME LinksInv, SameRows, UNCHANGED <<arrived, pending, published, dropped, sweep>>,
         webhook' \in 0..Len(account),
         \A a \in Ids : account'[a].cursor = account[a].cursor
  PROVE  SweepsTypeOK' /\ CursorInv'
<1>1. SweepsTypeOK'
  BY LinkFacts DEF SweepsTypeOK, SameRows
<1> QED
  BY <1>1, CursorFrame

\* A request that ends, with its pair of secret and row in order or counted
\* as torn.
LEMMA EndKeepsSecrets ==
  ASSUME LinksInv, SameRows, UNCHANGED <<secret, nextRef, sweep>>,
         NEW q \in Request, req' = [req EXCEPT ![q] = Idle],
         \A a \in Ids : a # req[q].id => account'[a] = account[a],
         \A a \in Ids : account'[a].deleted => account[a].ref \notin secret \/ account[a].ref \in torn',
         torn \subseteq torn',
         \/ req[q].ref \in torn'
         \/ req[q].ref \in secret <=> \E a \in Ids : ~account'[a].deleted /\ account[a].ref = req[q].ref
  PROVE  SecretsInv'
<1>1. /\ RefsDistinct /\ OpeningAlone /\ ClosedForgotten /\ SecretsMatchAccounts /\ RequestsTypeOK
      /\ Len(account) \in Nat
  BY LinkFacts
<1>2. \A r \in Request : req'[r] = IF r = q THEN Idle ELSE req[r]
  BY EndFacts
<1>3. Idle.pc = "idle" /\ Idle.id = 0 /\ Idle.ref = 0
  BY DEF Idle
<1> HIDE DEF Idle
<1>4. RefsDistinct'
  BY <1>1, <1>2, <1>3 DEF RefsDistinct, SameRows
<1>5. OpeningAlone'
  <2>1. \A r \in Request : req[r].pc \in Opening => req[r].id \in Ids /\ req[r].id # 0
    BY <1>1 DEF RequestsTypeOK, Ids
  <2>2. ASSUME NEW r \in Request, req'[r].pc \in Opening
        PROVE  /\ ~account'[req'[r].id].deleted /\ account'[req'[r].id].status = "registered"
               /\ req'[r].ref \in secret
               /\ \A p \in Request : req'[p].id = req'[r].id => p = r
               /\ \A s \in Sweep : sweep[s].id # req'[r].id
    <3>1. r # q /\ req'[r] = req[r]
      BY <1>2, <1>3, <2>2 DEF Opening
    <3>2. /\ ~account[req[r].id].deleted /\ account[req[r].id].status = "registered"
          /\ req[r].ref \in secret
          /\ \A p \in Request : req[p].id = req[r].id => p = r
          /\ \A s \in Sweep : sweep[s].id # req[r].id
          /\ req[r].id \in Ids /\ req[r].id # 0
      BY <1>1, <2>1, <2>2, <3>1 DEF OpeningAlone, Open
    <3>3. account'[req[r].id] = account[req[r].id]
      BY <3>1, <3>2
    <3>4. \A p \in Request : req'[p].id = req[r].id => p = r
      BY <1>2, <1>3, <3>2
    <3> QED
      BY <3>1, <3>2, <3>3, <3>4
  <2>3. \A r \in Request : req'[r].pc = "create" => req'[r].ref \in secret
    BY <1>1, <1>2, <1>3 DEF OpeningAlone
  <2> QED
    BY <2>2, <2>3 DEF OpeningAlone, Open
<1>6. ClosedForgotten'
  BY <1>1, <1>2, <1>3 DEF ClosedForgotten, SameRows, Open
<1>7. SecretsMatchAccounts'
  <2> SUFFICES ASSUME NEW ref \in 1..nextRef, ref \notin torn', ~\E r \in Request : req'[r].ref = ref
               PROVE  ref \in secret <=> \E a \in Ids : ~account'[a].deleted /\ account[a].ref = ref
    BY DEF SecretsMatchAccounts, Owned, Open, SameRows
  <2>1. CASE req[q].ref = ref
    BY <2>1
  <2>2. CASE req[q].ref # ref
    <3>1. ref \in secret <=> \E a \in Ids : ~account[a].deleted /\ account[a].ref = ref
      BY <1>1, <1>2, <2>2 DEF SecretsMatchAccounts, Owned, Open
    <3>2. req[q].id \in Ids => account[req[q].id].ref = req[q].ref
      <4>1. req[q].id \in Ids => req[q].pc \in Opening \cup Leaving
        BY <1>1 DEF RequestsTypeOK, RequestRecord, Ids, Opening, Leaving
      <4> QED
        BY <1>1, <4>1 DEF RequestsTypeOK
    <3>3. \A a \in Ids : account[a].ref = ref => account'[a] = account[a]
      BY <2>2, <3>2
    <3> QED
      BY <3>1, <3>3
  <2> QED
    BY <2>1, <2>2
<1> QED
  BY <1>4, <1>5, <1>6, <1>7 DEF SecretsInv

\* A request that goes on, without the secret.
LEMMA GoKeepsSecrets ==
  ASSUME LinksInv, UNCHANGED <<account, secret, nextRef, sweep, torn>>,
         NEW q \in Request, Go(q, "sync", "activate") \/ Go(q, "revoke", "deleteSecret")
  PROVE  /\ SecretsInv' /\ RequestsTypeOK' /\ SameRows
         /\ \A r \in Request :
              /\ req'[r].pc = IF r # q THEN req[r].pc
                              ELSE IF req[q].pc = "sync" THEN "activate" ELSE "deleteSecret"
              /\ req'[r].id = req[r].id /\ req'[r].ref = req[r].ref
<1>1. /\ RefsDistinct /\ OpeningAlone /\ ClosedForgotten /\ SecretsMatchAccounts
  BY LinkFacts
<1>2. SameRows
  BY UnchangedRows
<1>3. /\ "sync" \in Opening \cup Leaving /\ "activate" \in Opening \cup Leaving
      /\ "revoke" \in Opening \cup Leaving /\ "deleteSecret" \in Opening \cup Leaving
  BY DEF Opening, Leaving
<1>4. /\ RequestsTypeOK'
      /\ \A r \in Request :
           /\ req'[r].pc = IF r # q THEN req[r].pc
                           ELSE IF req[q].pc = "sync" THEN "activate" ELSE "deleteSecret"
           /\ req'[r].id = req[r].id /\ req'[r].ref = req[r].ref
  <2>1. CASE Go(q, "sync", "activate")
    <3>1. req[q].pc = "sync" /\ req' = [req EXCEPT ![q].pc = "activate"]
      BY <2>1 DEF Go
    <3>2. UNCHANGED nextRef /\ req[q].pc \in Opening \cup Leaving
      BY <1>3, <3>1
    <3>3. /\ RequestsTypeOK'
          /\ \A r \in Request :
               /\ req'[r].pc = IF r = q THEN "activate" ELSE req[r].pc
               /\ req'[r].id = req[r].id /\ req'[r].ref = req[r].ref
      BY <1>2, <1>3, <3>1, <3>2, GoFacts
    <3> QED
      BY <3>1, <3>3
  <2>2. CASE Go(q, "revoke", "deleteSecret")
    <3>1. req[q].pc = "revoke" /\ req' = [req EXCEPT ![q].pc = "deleteSecret"]
      BY <2>2 DEF Go
    <3>2. UNCHANGED nextRef /\ req[q].pc \in Opening \cup Leaving
      BY <1>3, <3>1
    <3>3. /\ RequestsTypeOK'
          /\ \A r \in Request :
               /\ req'[r].pc = IF r = q THEN "deleteSecret" ELSE req[r].pc
               /\ req'[r].id = req[r].id /\ req'[r].ref = req[r].ref
      BY <1>2, <1>3, <3>1, <3>2, GoFacts
    <3> QED
      BY <3>1, <3>3
  <2> QED
    BY <2>1, <2>2
<1>5. req[q].pc \in {"sync", "revoke"}
  BY DEF Go
<1>6. \A r \in Request :
        /\ req'[r].pc \in Opening => req[r].pc \in Opening
        /\ req'[r].pc = "create" => req[r].pc = "create"
        /\ req'[r].pc = "close" => req[r].pc = "close"
  BY <1>4, <1>5 DEF Opening
<1>7. RefsDistinct'
  BY <1>1, <1>2, <1>4, <1>6 DEF RefsDistinct, SameRows
<1>8. OpeningAlone'
  BY <1>1, <1>2, <1>4, <1>6 DEF OpeningAlone, Open, SameRows
<1>9. ClosedForgotten'
  BY <1>1, <1>2, <1>4, <1>6 DEF ClosedForgotten, Open, SameRows
<1>10. SecretsMatchAccounts'
  BY <1>1, <1>2, <1>4 DEF SecretsMatchAccounts, Owned, Open, SameRows
<1> QED
  BY <1>2, <1>4, <1>7, <1>8, <1>9, <1>10 DEF SecretsInv

\* A connect puts a secret that is new.
LEMMA ConnectHolds ==
  ASSUME LinksInv, NEW q \in Request, Connect(q)
  PROVE  LinksInv'
<1> DEFINE new == [Idle EXCEPT !.pc = "create", !.ref = nextRef + 1]
<1>1. /\ UNCHANGED <<account, webhook, arrived, pending, published, dropped, sweep, torn, stale>>
      /\ req[q].pc = "idle" /\ nextRef' = nextRef + 1 /\ secret' = secret \cup {nextRef + 1}
      /\ req' = [req EXCEPT ![q] = new]
  BY DEF Connect, providerVars
<1>2. /\ AccountsTypeOK /\ RequestsTypeOK /\ SweepsTypeOK /\ nextRef \in Nat
      /\ RefsDistinct /\ OpeningAlone /\ ClosedForgotten /\ SecretsMatchAccounts
  BY LinkFacts
<1>3. SameRows
  BY <1>1, UnchangedRows
<1>4. new \in RequestRecord /\ new.pc = "create" /\ new.id = 0 /\ new.ref = nextRef + 1
  <2>1. Idle \in RequestRecord /\ Idle.id = 0 /\ nextRef + 1 \in Nat
    BY <1>2 DEF Idle, RequestRecord
  <2> HIDE DEF Idle
  <2> QED
    BY <2>1 DEF RequestRecord
<1> HIDE DEF new
<1>5. /\ req' \in [Request -> RequestRecord]
      /\ \A r \in Request : req'[r] = IF r = q THEN new ELSE req[r]
  BY <1>1, <1>2, <1>4 DEF RequestsTypeOK
<1>6. 1..nextRef \subseteq 1..nextRef' /\ nextRef + 1 \in 1..nextRef' /\ nextRef + 1 \notin 1..nextRef
      /\ 1..nextRef' = (1..nextRef) \cup {nextRef + 1}
  BY <1>1, <1>2
<1>7. AccountsTypeOK'
  <2>1. account' \in Seq(AccountRecord) /\ Ids' = Ids /\ \A a \in Ids : account'[a].ref = account[a].ref
    BY <1>3 DEF SameRows
  <2>2. nextRef' \in Nat
    BY <1>1, <1>2
  <2>3. secret' \subseteq 1..nextRef'
    BY <1>1, <1>2, <1>6 DEF AccountsTypeOK
  <2>4. \A a \in Ids : account[a].ref \in 1..nextRef'
    BY <1>2, <1>6 DEF AccountsTypeOK
  <2> QED
    BY <2>1, <2>2, <2>3, <2>4 DEF AccountsTypeOK
<1>8. RequestsTypeOK'
  BY <1>1, <1>2, <1>3, <1>4, <1>5, <1>6 DEF RequestsTypeOK, SameRows, Opening, Leaving
<1>9. SweepsTypeOK' /\ CursorInv'
  BY <1>1, <1>2, <1>3, RequestsKeepCursors DEF SweepsTypeOK
<1>10. \A a \in Ids : account[a].ref # nextRef + 1
  BY <1>2, <1>6 DEF AccountsTypeOK
<1>11. RefsDistinct'
  BY <1>1, <1>2, <1>3, <1>4, <1>5, <1>6, <1>10 DEF RefsDistinct, RequestsTypeOK, SameRows
<1>12. OpeningAlone'
  <2>1. \A r \in Request : req[r].pc \in Opening => req[r].id # 0
    BY <1>2 DEF RequestsTypeOK, Ids
  <2> QED
    BY <1>1, <1>2, <1>3, <1>4, <1>5, <2>1 DEF OpeningAlone, Open, Opening
<1>13. ClosedForgotten'
  <2>1. \A r \in Request : req[r].pc = "close" => req[r].ref # nextRef + 1
    BY <1>2, <1>10 DEF RequestsTypeOK, Leaving
  <2> QED
    BY <1>1, <1>2, <1>3, <1>4, <1>5, <1>10, <2>1 DEF ClosedForgotten, Open, SameRows
<1>14. SecretsMatchAccounts'
  <2> SUFFICES ASSUME NEW ref \in 1..nextRef'
               PROVE  \/ ref \in torn \/ \E r \in Request : req'[r].ref = ref
                      \/ ref \in secret' <=> Owned(ref)
    BY <1>1, <1>3 DEF SecretsMatchAccounts, Owned, Open, SameRows
  <2>1. CASE ref = nextRef + 1
    BY <1>4, <1>5, <2>1
  <2>2. CASE ref \in 1..nextRef
    <3>1. req[q].ref # ref
      BY <1>1, <1>2, <2>2 DEF RequestsTypeOK
    <3>2. \A r \in Request : req[r].ref = ref => req'[r].ref = ref
      BY <1>5, <3>1
    <3>3. ref \in secret' <=> ref \in secret
      BY <1>1, <1>6, <2>2
    <3> QED
      BY <1>2, <2>2, <3>2, <3>3 DEF SecretsMatchAccounts
  <2> QED
    BY <1>6, <2>1, <2>2
<1>15. WebhookInv'
  BY <1>1, <1>3, <1>4, <1>5, WebhookFrame
<1> QED
  BY <1>7, <1>8, <1>9, <1>11, <1>12, <1>13, <1>14, <1>15 DEF LinksInv, SecretsInv

\* The row of a connect is one that nobody knows yet.
LEMMA CreateHolds ==
  ASSUME LinksInv, NEW q \in Request, CreateAccount(q)
  PROVE  LinksInv'
<1>1. /\ UNCHANGED <<secret, nextRef, webhook, arrived, pending, published, dropped, sweep, stale>>
      /\ req[q].pc = "create"
  BY DEF CreateAccount, End, providerVars
<1>2. /\ AccountsTypeOK /\ RequestsTypeOK /\ SweepsTypeOK /\ nextRef \in Nat /\ Len(account) \in Nat
      /\ RefsDistinct /\ OpeningAlone /\ ClosedForgotten /\ SecretsMatchAccounts
      /\ NothingForgotten /\ SweepsCover /\ NothingSkipped /\ WebhookInv
  BY LinkFacts
<1>3. CASE /\ account' = Append(account, NewRow(req[q].ref))
           /\ req' = [req EXCEPT ![q].pc = "sync", ![q].id = Len(account) + 1]
           /\ UNCHANGED torn
  <2> DEFINE row == NewRow(req[q].ref)
             last == Len(account) + 1
             new == [req[q] EXCEPT !.pc = "sync", !.id = last]
  <2>1. /\ req[q] \in RequestRecord /\ req[q].ref \in 1..nextRef /\ req[q].ref \in Nat
        /\ last \in Nat
    BY <1>1, <1>2 DEF RequestsTypeOK, RequestRecord
  <2>2. /\ row \in AccountRecord /\ row.ref = req[q].ref /\ row.cursor = 0
        /\ row.status = "registered" /\ ~row.deleted
    BY <2>1 DEF NewRow, AccountRecord, Transitions
  <2>3. new \in RequestRecord /\ new.pc = "sync" /\ new.id = last /\ new.ref = req[q].ref
    BY <2>1 DEF RequestRecord
  <2>4. account' = Append(account, row) /\ req' = [req EXCEPT ![q] = new]
    BY <1>3
  <2> HIDE DEF row, new
  <2>5. /\ account' \in Seq(AccountRecord) /\ Len(account') = last
        /\ \A a \in 1..Len(account) : account'[a] = account[a]
        /\ account'[last] = row
    BY <1>2, <2>2, <2>4, AppendProperties DEF AccountsTypeOK
  <2>6. /\ Ids' = Ids \cup {last} /\ last \notin Ids /\ 0..Len(account) \subseteq 0..Len(account')
        /\ last \notin 0..Len(account) /\ last # 0 /\ Ids \subseteq 0..Len(account)
        /\ \A a \in Ids : account'[a] = account[a]
    BY <1>2, <2>5 DEF Ids
  <2> HIDE DEF last
  <2>7. /\ req' \in [Request -> RequestRecord]
        /\ \A r \in Request : req'[r] = IF r = q THEN new ELSE req[r]
    BY <1>2, <2>3, <2>4 DEF RequestsTypeOK
  <2>8. AccountsTypeOK'
    BY <1>1, <1>2, <2>1, <2>2, <2>5, <2>6 DEF AccountsTypeOK
  <2>9. RequestsTypeOK'
    <3>1. ASSUME NEW r \in Request
          PROVE  /\ req'[r].pc = "idle" => req'[r].ref = 0
                 /\ req'[r].pc \in {"idle", "create"} => req'[r].id = 0
                 /\ req'[r].pc = "create" => req'[r].ref \in 1..nextRef
                 /\ req'[r].pc \in Opening \cup Leaving =>
                      req'[r].id \in Ids' /\ account'[req'[r].id].ref = req'[r].ref
      <4>1. CASE r = q
        <5>1. req'[r] = new
          BY <2>7, <4>1
        <5>2. req'[r].pc = "sync" /\ req'[r].id = last /\ req'[r].ref = req[q].ref
          BY <2>3, <5>1
        <5>3. last \in Ids' /\ account'[last].ref = req[q].ref
          BY <2>2, <2>5, <2>6
        <5> QED
          BY <5>2, <5>3
      <4>2. CASE r # q
        <5>1. req'[r] = req[r]
          BY <2>7, <4>2
        <5>2. /\ req[r].pc = "idle" => req[r].ref = 0
              /\ req[r].pc \in {"idle", "create"} => req[r].id = 0
              /\ req[r].pc = "create" => req[r].ref \in 1..nextRef
              /\ req[r].pc \in Opening \cup Leaving =>
                   req[r].id \in Ids /\ account[req[r].id].ref = req[r].ref
          BY <1>2 DEF RequestsTypeOK
        <5>3. \A a \in Ids : a \in Ids' /\ account'[a] = account[a]
          BY <2>6
        <5> QED
          BY <5>1, <5>2, <5>3
      <4> QED
        BY <4>1, <4>2
    <3> QED
      BY <1>1, <2>7, <3>1 DEF RequestsTypeOK
  <2>10. SweepsTypeOK'
    BY <1>1, <1>2, <2>6 DEF SweepsTypeOK
  <2>11. CursorInv'
    BY <1>1, <1>2, <2>2, <2>5, <2>6 DEF CursorInv, NothingForgotten, SweepsCover, NothingSkipped
  <2>12. RefsDistinct'
    <3>1. \A a \in Ids : account[a].ref # row.ref
      BY <1>1, <1>2, <2>2 DEF RefsDistinct
    <3>2. \A a, b \in Ids' : account'[a].ref = account'[b].ref => a = b
      BY <1>2, <2>5, <2>6, <3>1 DEF RefsDistinct
    <3>3. \A r \in Request : req'[r].pc = "create" =>
            r # q /\ req'[r] = req[r] /\ req[r].pc = "create" /\ req[r].ref # row.ref
      BY <1>1, <1>2, <2>2, <2>3, <2>7 DEF RefsDistinct
    <3>4. \A r \in Request : req'[r].pc = "create" =>
            /\ \A a \in Ids' : account'[a].ref # req'[r].ref
            /\ \A p \in Request : req'[p].pc = "create" /\ req'[p].ref = req'[r].ref => p = r
      BY <1>2, <2>5, <2>6, <3>3 DEF RefsDistinct
    <3> QED
      BY <3>2, <3>4 DEF RefsDistinct
  <2>13. OpeningAlone'
    <3>1. \A r \in Request : req[r].id \in 0..Len(account)
      BY <1>2, <2>6 DEF RequestsTypeOK, RequestRecord, Opening, Leaving, Ids
    <3>2. \A s \in Sweep : sweep[s].id \in 0..Len(account)
      BY <1>2 DEF SweepsTypeOK
    <3>3. ASSUME NEW r \in Request, req'[r].pc \in Opening, r # q
          PROVE  /\ Open(req[r].id) /\ account[req[r].id].status = "registered"
                 /\ req[r].ref \in secret /\ req[r].id \in Ids
                 /\ \A p \in Request : req'[p].id = req[r].id => p = r
                 /\ \A s \in Sweep : sweep[s].id # req[r].id
      BY <1>2, <2>3, <2>6, <2>7, <3>3 DEF OpeningAlone, RequestsTypeOK
    <3>4. /\ ~account'[req'[q].id].deleted /\ account'[req'[q].id].status = "registered"
          /\ req'[q].ref \in secret
          /\ \A p \in Request : req'[p].id = req'[q].id => p = q
          /\ \A s \in Sweep : sweep[s].id # req'[q].id
      BY <1>1, <1>2, <2>2, <2>3, <2>5, <2>6, <2>7, <3>1, <3>2 DEF OpeningAlone
    <3>5. \A r \in Request : req'[r].pc = "create" => req'[r].ref \in secret
      BY <1>2, <2>3, <2>7 DEF OpeningAlone
    <3>6. ASSUME NEW r \in Request, req'[r].pc \in Opening
          PROVE  /\ ~account'[req'[r].id].deleted /\ account'[req'[r].id].status = "registered"
                 /\ req'[r].ref \in secret
                 /\ \A p \in Request : req'[p].id = req'[r].id => p = r
                 /\ \A s \in Sweep : sweep[s].id # req'[r].id
      <4>1. CASE r = q
        BY <3>4, <4>1
      <4>2. CASE r # q
        <5>1. req'[r] = req[r]
          BY <2>7, <4>2
        <5>2. /\ ~account[req[r].id].deleted /\ account[req[r].id].status = "registered"
              /\ req[r].ref \in secret /\ req[r].id \in Ids
              /\ \A p \in Request : req'[p].id = req[r].id => p = r
              /\ \A s \in Sweep : sweep[s].id # req[r].id
          BY <3>3, <3>6, <4>2 DEF Open
        <5>3. account'[req[r].id] = account[req[r].id]
          BY <2>6, <5>2
        <5> QED
          BY <5>1, <5>2, <5>3
      <4> QED
        BY <4>1, <4>2
    <3> QED
      BY <1>1, <3>5, <3>6 DEF OpeningAlone, Open
  <2>14. ClosedForgotten'
    <3>1. torn' = torn /\ secret' = secret
      BY <1>1, <1>3
    <3>2. ASSUME NEW b \in Ids', account'[b].deleted
          PROVE  account'[b].ref \notin secret \/ account'[b].ref \in torn
      BY <1>2, <2>2, <2>5, <2>6, <3>2 DEF ClosedForgotten, Open
    <3>3. ASSUME NEW r \in Request, req'[r].pc = "close"
          PROVE  req'[r].ref \notin secret \/ req'[r].ref \in torn
      BY <1>2, <2>3, <2>7, <3>3 DEF ClosedForgotten
    <3> QED
      BY <3>1, <3>2, <3>3 DEF ClosedForgotten, Open
  <2>15. SecretsMatchAccounts'
    <3> SUFFICES ASSUME NEW ref \in 1..nextRef, ref \notin torn, ~\E r \in Request : req'[r].ref = ref
                 PROVE  ref \in secret <=> \E a \in Ids' : ~account'[a].deleted /\ account'[a].ref = ref
      BY <1>1, <1>3 DEF SecretsMatchAccounts, Owned, Open
    <3>1. ref # row.ref /\ ~\E r \in Request : req[r].ref = ref
      BY <2>2, <2>3, <2>7
    <3> QED
      BY <1>2, <2>5, <2>6, <3>1 DEF SecretsMatchAccounts, Owned, Open
  <2>16. WebhookInv'
    <3>1. SUFFICES ASSUME webhook # 0, ~stale PROVE ~Closing(webhook)'
      BY <1>1 DEF WebhookInv
    <3>2. webhook \in Ids /\ ~Closing(webhook)
      BY <1>2, <3>1 DEF WebhookInv, SweepsTypeOK, Ids
    <3> QED
      BY <1>1, <2>3, <2>6, <2>7, <3>2 DEF Closing, Open
  <2> QED
    BY <2>8, <2>9, <2>10, <2>11, <2>12, <2>13, <2>14, <2>15, <2>16 DEF LinksInv, SecretsInv
<1>4. CASE End(q, "create") /\ torn' = torn \cup {req[q].ref} /\ UNCHANGED account
  <2>1. SameRows
    BY <1>4, UnchangedRows
  <2>2. AccountsTypeOK' /\ SweepsTypeOK' /\ CursorInv'
    BY <1>1, <1>2, <1>4, <2>1, TypesKept, RequestsKeepCursors DEF SweepsTypeOK
  <2>3. RequestsTypeOK' /\ \A r \in Request : req'[r] = IF r = q THEN Idle ELSE req[r]
    BY <1>1, <1>4, <2>1, EndFacts DEF End
  <2>4. Idle.pc = "idle" /\ Idle.id = 0 /\ Idle.ref = 0
    BY DEF Idle
  <2>5. SecretsInv'
    BY <1>1, <1>2, <1>4, <2>1, EndKeepsSecrets DEF End, ClosedForgotten, Open
  <2>6. WebhookInv'
    BY <1>1, <1>4, <2>1, <2>3, <2>4, WebhookFrame
  <2> QED
    BY <2>2, <2>3, <2>5, <2>6 DEF LinksInv
<1> QED
  BY <1>3, <1>4 DEF CreateAccount

\* The first sync puts a webhook on a row that is open and nobody else's.
LEMMA SyncHolds ==
  ASSUME LinksInv, NEW q \in Request, InitialSync(q)
  PROVE  LinksInv'
<1>1. /\ UNCHANGED <<account, secret, nextRef, arrived, pending, published, dropped, sweep, torn, stale>>
      /\ req[q].pc = "sync"
  BY DEF InitialSync, Go, End
<1>2. /\ RequestsTypeOK /\ SweepsTypeOK /\ OpeningAlone /\ ClosedForgotten /\ WebhookInv
      /\ Len(account) \in Nat
  BY LinkFacts
<1>3. /\ req[q].id \in Ids /\ req[q].ref = account[req[q].id].ref
      /\ req[q].pc \in Opening
  BY <1>1, <1>2 DEF RequestsTypeOK, Opening
<1>4. SameRows
  BY <1>1, UnchangedRows
<1>5. AccountsTypeOK'
  BY <1>1, <1>4, TypesKept
<1>6. CASE Go(q, "sync", "activate") /\ webhook' \in {webhook, req[q].id}
  <2>1. webhook' \in 0..Len(account)
    BY <1>2, <1>3, <1>6 DEF SweepsTypeOK, Ids
  <2>2. SweepsTypeOK' /\ CursorInv'
    BY <1>1, <1>4, <2>1, RequestsKeepCursors
  <2>3. /\ SecretsInv' /\ RequestsTypeOK'
        /\ \A r \in Request :
             /\ req'[r].pc = IF r # q THEN req[r].pc ELSE "activate"
             /\ req'[r].id = req[r].id /\ req'[r].ref = req[r].ref
    BY <1>1, <1>6, GoKeepsSecrets
  <2>4. WebhookInv'
    <3>1. CASE webhook' = webhook
      BY <1>1, <1>4, <2>3, <3>1, WebhookFrame
    <3>2. CASE webhook' = req[q].id
      <4>1. Open(req[q].id) /\ \A r \in Request : req[r].id = req[q].id => r = q
        BY <1>2, <1>3 DEF OpeningAlone
      <4> QED
        BY <1>1, <2>3, <3>2, <4>1 DEF WebhookInv, Closing, Open
    <3> QED
      BY <1>6, <3>1, <3>2
  <2> QED
    BY <1>5, <2>2, <2>3, <2>4 DEF LinksInv
<1>7. CASE End(q, "sync") /\ UNCHANGED webhook
  <2>1. SweepsTypeOK' /\ CursorInv'
    BY <1>1, <1>2, <1>4, <1>7, RequestsKeepCursors DEF SweepsTypeOK
  <2>2. RequestsTypeOK' /\ \A r \in Request : req'[r] = IF r = q THEN Idle ELSE req[r]
    BY <1>1, <1>4, <1>7, EndFacts DEF End
  <2>3. Idle.pc = "idle" /\ Idle.id = 0 /\ Idle.ref = 0
    BY DEF Idle
  <2>4. req[q].ref \in secret /\ ~account[req[q].id].deleted
    BY <1>2, <1>3 DEF OpeningAlone, Open
  <2>5. SecretsInv'
    BY <1>1, <1>2, <1>3, <1>4, <1>7, <2>4, EndKeepsSecrets DEF End, ClosedForgotten, Open
  <2>6. WebhookInv'
    BY <1>1, <1>4, <1>7, <2>2, <2>3, WebhookFrame
  <2> QED
    BY <1>5, <2>1, <2>2, <2>5, <2>6 DEF LinksInv
<1> QED
  BY <1>6, <1>7 DEF InitialSync

\* The row of the connect becomes active.
LEMMA ActivateHolds ==
  ASSUME LinksInv, NEW q \in Request, Activate(q)
  PROVE  LinksInv'
<1> DEFINE a == req[q].id
           row == [account[a] EXCEPT !.status = "active"]
<1>1. /\ UNCHANGED <<secret, nextRef, webhook, arrived, pending, published, dropped, sweep, torn, stale>>
      /\ req[q].pc = "activate" /\ req' = [req EXCEPT ![q] = Idle]
      /\ account' = [account EXCEPT ![a] = row]
  BY DEF Activate, End, providerVars
<1>2. /\ RequestsTypeOK /\ SweepsTypeOK /\ OpeningAlone /\ ClosedForgotten
      /\ \A b \in Ids : account[b] \in AccountRecord
  BY LinkFacts
<1>3. a \in Ids /\ account[a].ref = req[q].ref /\ req[q].pc \in Opening
  BY <1>1, <1>2 DEF RequestsTypeOK, Opening
<1>4. /\ row \in AccountRecord /\ row.ref = account[a].ref /\ row.deleted = account[a].deleted
      /\ row.cursor = account[a].cursor
  BY <1>2, <1>3 DEF AccountRecord, Transitions
<1>s. req[q].id = a
  OBVIOUS
<1> HIDE DEF row, a
<1>5. /\ account' \in Seq(AccountRecord) /\ Len(account') = Len(account) /\ Ids' = Ids
      /\ \A b \in Ids : account'[b] = IF b = a THEN row ELSE account[b]
  BY <1>1, <1>3, <1>4, RowSet
<1>6. SameRows
  BY <1>4, <1>5 DEF SameRows
<1>7. AccountsTypeOK'
  BY <1>1, <1>6, TypesKept
<1>8. RequestsTypeOK' /\ \A r \in Request : req'[r] = IF r = q THEN Idle ELSE req[r]
  BY <1>1, <1>6, EndFacts
<1>9. SweepsTypeOK' /\ CursorInv'
  BY <1>1, <1>2, <1>4, <1>5, <1>6, RequestsKeepCursors DEF SweepsTypeOK
<1>10. Idle.pc = "idle"
  BY DEF Idle
<1>11. req[q].ref \in secret /\ ~account[a].deleted
  BY <1>2, <1>3, <1>s DEF OpeningAlone, Open
<1>12. \A b \in Ids : account'[b].deleted = account[b].deleted
  BY <1>4, <1>5
<1>13. SecretsInv'
  <2>1. \E b \in Ids : ~account'[b].deleted /\ account[b].ref = req[q].ref
    BY <1>3, <1>11, <1>12
  <2>2. \A b \in Ids : account'[b].deleted => account[b].ref \notin secret \/ account[b].ref \in torn'
    BY <1>1, <1>2, <1>12 DEF ClosedForgotten, Open
  <2>3. \A b \in Ids : b # req[q].id => account'[b] = account[b]
    BY <1>5, <1>s
  <2> QED
    BY <1>1, <1>6, <1>11, <2>1, <2>2, <2>3, EndKeepsSecrets
<1>14. WebhookInv'
  BY <1>1, <1>6, <1>8, <1>10, <1>12, WebhookFrame
<1> QED
  BY <1>7, <1>8, <1>9, <1>13, <1>14 DEF LinksInv

\* A disconnect finds a row that no connect is still opening.
LEMMA DisconnectHolds ==
  ASSUME LinksInv, NEW q \in Request, NEW a \in Ids, Disconnect(q, a)
  PROVE  LinksInv'
<1> DEFINE new == [pc |-> "revoke", id |-> a, ref |-> account[a].ref]
<1>1. /\ UNCHANGED <<account, secret, nextRef, webhook, arrived, pending, published, dropped, sweep,
                     torn, stale>>
      /\ req[q].pc = "idle" /\ req' = [req EXCEPT ![q] = new]
      /\ Disconnectable(a)
  BY DEF Disconnect, providerVars
<1>2. /\ RequestsTypeOK /\ SweepsTypeOK /\ AccountsTypeOK
      /\ RefsDistinct /\ OpeningAlone /\ ClosedForgotten /\ SecretsMatchAccounts
      /\ Len(account) \in Nat /\ nextRef \in Nat
  BY LinkFacts
<1>3. SameRows
  BY <1>1, UnchangedRows
<1>4. new \in RequestRecord /\ new.pc = "revoke" /\ new.id = a /\ new.ref = account[a].ref
  BY <1>2 DEF RequestRecord, AccountsTypeOK, Ids
<1>5. account[a].status # "registered"
  BY <1>1 DEF Disconnectable, Transitions
<1> HIDE DEF new
<1>6. AccountsTypeOK'
  BY <1>1, <1>3, TypesKept
<1>7. SweepsTypeOK' /\ CursorInv'
  BY <1>1, <1>2, <1>3, RequestsKeepCursors DEF SweepsTypeOK
<1>8. RequestsTypeOK' /\ \A r \in Request : req'[r] = IF r = q THEN new ELSE req[r]
  <2>1. new.pc # "idle" /\ new.pc # "create" /\ new.id \in Ids /\ account[new.id].ref = new.ref
    BY <1>4
  <2> QED
    BY <1>1, <1>3, <1>4, <2>1, RequestTyped
<1>9. RefsDistinct' /\ ClosedForgotten'
  BY <1>1, <1>2, <1>3, <1>4, <1>8 DEF RefsDistinct, ClosedForgotten, Open, SameRows
<1>10. OpeningAlone'
  <2>1. ASSUME NEW r \in Request, req'[r].pc \in Opening
        PROVE  /\ r # q /\ req'[r] = req[r] /\ req[r].id # a
               /\ Open(req[r].id) /\ account[req[r].id].status = "registered"
               /\ req[r].ref \in secret
               /\ \A p \in Request : req[p].id = req[r].id => p = r
               /\ \A s \in Sweep : sweep[s].id # req[r].id
    BY <1>2, <1>4, <1>5, <1>8, <2>1 DEF OpeningAlone, Opening
  <2>2. \A r \in Request : req'[r].pc = "create" => req'[r].ref \in secret
    BY <1>2, <1>4, <1>8 DEF OpeningAlone
  <2> QED
    BY <1>1, <1>4, <1>8, <2>1, <2>2 DEF OpeningAlone, Open
<1>11. SecretsMatchAccounts'
  <2>1. \A ref \in 1..nextRef : \A r \in Request : req[r].ref = ref => req'[r].ref = ref
    BY <1>1, <1>2, <1>8 DEF RequestsTypeOK
  <2> QED
    BY <1>1, <1>2, <1>3, <2>1 DEF SecretsMatchAccounts, Owned, Open, SameRows
<1>12. WebhookInv'
  BY <1>1, <1>3, <1>4, <1>8, WebhookFrame
<1> QED
  BY <1>6, <1>7, <1>8, <1>9, <1>10, <1>11, <1>12 DEF LinksInv, SecretsInv

\* A webhook that a disconnect fails to delete is stale.
LEMMA RevokeHolds ==
  ASSUME LinksInv, NEW q \in Request, RevokeWebhook(q)
  PROVE  LinksInv'
<1>1. /\ UNCHANGED <<account, secret, nextRef, arrived, pending, published, dropped, sweep, torn>>
      /\ req[q].pc = "revoke" /\ Go(q, "revoke", "deleteSecret")
      /\ \/ webhook' = 0
         \/ UNCHANGED webhook /\ stale' = (stale \/ webhook = req[q].id)
      /\ webhook' # 0 => stale' = (stale \/ webhook = req[q].id)
  BY DEF RevokeWebhook, Go
<1>2. /\ SweepsTypeOK /\ WebhookInv /\ Len(account) \in Nat
  BY LinkFacts
<1>3. /\ SecretsInv' /\ RequestsTypeOK' /\ SameRows
      /\ \A r \in Request :
           /\ req'[r].pc = IF r # q THEN req[r].pc ELSE "deleteSecret"
           /\ req'[r].id = req[r].id /\ req'[r].ref = req[r].ref
  BY <1>1, GoKeepsSecrets
<1>4. AccountsTypeOK'
  BY <1>1, <1>3, TypesKept
<1>5. SweepsTypeOK' /\ CursorInv'
  <2>1. webhook' \in 0..Len(account)
    BY <1>1, <1>2 DEF SweepsTypeOK
  <2> QED
    BY <1>1, <1>3, <2>1, RequestsKeepCursors
<1>6. WebhookInv'
  <2> SUFFICES ASSUME webhook' # 0, ~stale' PROVE ~Closing(webhook)'
    BY DEF WebhookInv
  <2>1. webhook' = webhook /\ ~stale /\ webhook # req[q].id
    BY <1>1
  <2>2. ~Closing(webhook)
    BY <1>2, <2>1 DEF WebhookInv
  <2> QED
    BY <1>1, <1>3, <2>1, <2>2 DEF Closing, Open
<1> QED
  BY <1>3, <1>4, <1>5, <1>6 DEF LinksInv

\* A secret goes before its row, and at most once, unless its deletion fails.
LEMMA DeleteSecretHolds ==
  ASSUME LinksInv, NEW q \in Request, DeleteSecret(q)
  PROVE  LinksInv'
<1>1. /\ UNCHANGED <<account, nextRef, webhook, arrived, pending, published, dropped, sweep, stale>>
      /\ req[q].pc = "deleteSecret"
  BY DEF DeleteSecret, Go, End, providerVars
<1>2. /\ RequestsTypeOK /\ SweepsTypeOK /\ AccountsTypeOK
      /\ RefsDistinct /\ OpeningAlone /\ ClosedForgotten /\ SecretsMatchAccounts
  BY LinkFacts
<1>3. SameRows
  BY <1>1, UnchangedRows
<1>4. req[q].id \in Ids /\ account[req[q].id].ref = req[q].ref
  BY <1>1, <1>2 DEF RequestsTypeOK, Leaving
<1>5. SweepsTypeOK' /\ CursorInv'
  BY <1>1, <1>2, <1>3, RequestsKeepCursors DEF SweepsTypeOK
<1>6. CASE /\ req' = [req EXCEPT ![q].pc = "close"]
           /\ \/ secret' = secret \ {req[q].ref} /\ torn' = torn
              \/ secret' = secret /\ torn' = torn \cup {req[q].ref}
  <2>1. /\ RequestsTypeOK'
        /\ \A r \in Request :
             /\ req'[r].pc = IF r = q THEN "close" ELSE req[r].pc
             /\ req'[r].id = req[r].id /\ req'[r].ref = req[r].ref
    <3>1. "close" \in Opening \cup Leaving /\ req[q].pc \in Opening \cup Leaving
      BY <1>1 DEF Opening, Leaving
    <3> QED
      BY <1>1, <1>3, <1>6, <3>1, GoFacts
  <2>2. AccountsTypeOK'
    <3>1. UNCHANGED nextRef /\ secret' \subseteq secret
      BY <1>1, <1>6
    <3> QED
      BY <1>3, <3>1, TypesKept
  <2>3. RefsDistinct'
    BY <1>2, <1>3, <2>1 DEF RefsDistinct, SameRows
  <2>4. OpeningAlone'
    <3>1. ASSUME NEW r \in Request, req'[r].pc \in Opening \cup {"create"}
          PROVE  req[r].pc = req'[r].pc /\ req[r].ref # req[q].ref
      <4>1. req[r].pc = req'[r].pc /\ r # q
        BY <2>1, <3>1 DEF Opening
      <4>2. CASE req[r].pc = "create"
        BY <1>2, <1>4, <4>1, <4>2 DEF RefsDistinct
      <4>3. CASE req[r].pc \in Opening
        <5>1. /\ req[r].id \in Ids /\ account[req[r].id].ref = req[r].ref
              /\ req[r].id # req[q].id
          BY <1>2, <4>1, <4>3 DEF RequestsTypeOK, OpeningAlone
        <5> QED
          BY <1>2, <1>4, <4>1, <5>1 DEF RefsDistinct
      <4> QED
        BY <3>1, <4>1, <4>2, <4>3
    <3> QED
      BY <1>1, <1>2, <1>6, <2>1, <3>1 DEF OpeningAlone, Open
  <2>5. ClosedForgotten'
    BY <1>2, <1>3, <1>1, <1>6, <2>1 DEF ClosedForgotten, Open, SameRows
  <2>6. SecretsMatchAccounts'
    <3> SUFFICES ASSUME NEW ref \in 1..nextRef, ref \notin torn', ~\E r \in Request : req'[r].ref = ref
                 PROVE  ref \in secret' <=> Owned(ref)
      BY <1>1 DEF SecretsMatchAccounts, Owned, Open, Ids
    <3>1. ref # req[q].ref /\ ~\E r \in Request : req[r].ref = ref
      BY <2>1
    <3> QED
      BY <1>2, <1>6, <3>1 DEF SecretsMatchAccounts
  <2>7. WebhookInv'
    BY <1>1, <1>3, <2>1, WebhookFrame
  <2> QED
    BY <1>5, <2>1, <2>2, <2>3, <2>4, <2>5, <2>6, <2>7 DEF LinksInv, SecretsInv
<1>7. CASE req' = [req EXCEPT ![q] = Idle] /\ ~Owned(req[q].ref) /\ UNCHANGED <<secret, torn>>
  <2>1. AccountsTypeOK'
    BY <1>1, <1>3, <1>7, TypesKept
  <2>2. RequestsTypeOK' /\ \A r \in Request : req'[r] = IF r = q THEN Idle ELSE req[r]
    BY <1>1, <1>3, <1>7, EndFacts
  <2>3. Idle.pc = "idle"
    BY DEF Idle
  <2>4. req[q].ref \notin secret \/ req[q].ref \in torn
    BY <1>2, <1>4, <1>7 DEF Owned, ClosedForgotten
  <2>5. ~\E b \in Ids : ~account'[b].deleted /\ account[b].ref = req[q].ref
    BY <1>1, <1>7 DEF Owned, Open
  <2>6. SecretsInv'
    BY <1>1, <1>2, <1>3, <1>7, <2>4, <2>5, EndKeepsSecrets DEF ClosedForgotten, Open
  <2>7. WebhookInv'
    BY <1>1, <1>3, <2>2, <2>3, WebhookFrame
  <2> QED
    BY <1>5, <2>1, <2>2, <2>6, <2>7 DEF LinksInv
<1>8. \/ /\ req' = [req EXCEPT ![q].pc = "close"]
         /\ \/ secret' = secret \ {req[q].ref} /\ torn' = torn
            \/ secret' = secret /\ torn' = torn \cup {req[q].ref}
      \/ req' = [req EXCEPT ![q] = Idle] /\ ~Owned(req[q].ref) /\ UNCHANGED <<secret, torn>>
  BY DEF DeleteSecret, Go, End, Forgotten
<1> QED
  BY <1>6, <1>7, <1>8

\* A row that is closed has lost its secret, and its webhook unless stale.
LEMMA CloseHolds ==
  ASSUME LinksInv, NEW q \in Request, Close(q)
  PROVE  LinksInv'
<1> DEFINE a == req[q].id
           row == [account[a] EXCEPT !.status = "disconnected", !.deleted = TRUE]
<1>1. /\ UNCHANGED <<secret, nextRef, webhook, arrived, pending, published, dropped, sweep, torn, stale>>
      /\ req[q].pc = "close" /\ req' = [req EXCEPT ![q] = Idle]
      /\ account' = [account EXCEPT ![a] = row]
  BY DEF Close, End, providerVars
<1>2. /\ RequestsTypeOK /\ SweepsTypeOK /\ RefsDistinct /\ OpeningAlone /\ ClosedForgotten /\ WebhookInv
      /\ \A b \in Ids : account[b] \in AccountRecord
      /\ Len(account) \in Nat
  BY LinkFacts
<1>3. a \in Ids /\ account[a].ref = req[q].ref
  BY <1>1, <1>2 DEF RequestsTypeOK, Leaving
<1>4. /\ row \in AccountRecord /\ row.ref = account[a].ref /\ row.deleted
      /\ row.cursor = account[a].cursor
  BY <1>2, <1>3 DEF AccountRecord, Transitions
<1>s. req[q].id = a
  OBVIOUS
<1> HIDE DEF row, a
<1>5. /\ account' \in Seq(AccountRecord) /\ Len(account') = Len(account) /\ Ids' = Ids
      /\ \A b \in Ids : account'[b] = IF b = a THEN row ELSE account[b]
  BY <1>1, <1>3, <1>4, RowSet
<1>6. SameRows
  BY <1>4, <1>5 DEF SameRows
<1>7. AccountsTypeOK'
  BY <1>1, <1>6, TypesKept
<1>8. RequestsTypeOK' /\ \A r \in Request : req'[r] = IF r = q THEN Idle ELSE req[r]
  BY <1>1, <1>6, EndFacts
<1>9. SweepsTypeOK' /\ CursorInv'
  BY <1>1, <1>2, <1>4, <1>5, <1>6, RequestsKeepCursors DEF SweepsTypeOK
<1>10. SecretsInv'
  <2>1. req[q].ref \notin secret \/ req[q].ref \in torn
    BY <1>1, <1>2 DEF ClosedForgotten
  <2>2. ~\E b \in Ids : ~account'[b].deleted /\ account[b].ref = req[q].ref
    BY <1>2, <1>3, <1>4, <1>5 DEF RefsDistinct
  <2>3. \A b \in Ids : account'[b].deleted => account[b].ref \notin secret \/ account[b].ref \in torn'
    BY <1>1, <1>2, <1>3, <1>5, <2>1 DEF ClosedForgotten, Open
  <2>4. \A b \in Ids : b # req[q].id => account'[b] = account[b]
    BY <1>5, <1>s
  <2> QED
    BY <1>1, <1>6, <2>1, <2>2, <2>3, <2>4, EndKeepsSecrets
<1>11. WebhookInv'
  <2> SUFFICES ASSUME webhook # 0, ~stale PROVE ~Closing(webhook)'
    BY <1>1 DEF WebhookInv
  <2>1. webhook \in Ids /\ ~Closing(webhook)
    BY <1>2 DEF WebhookInv, SweepsTypeOK, Ids
  <2>2. webhook # a
    BY <1>1, <1>s, <2>1 DEF Closing
  <2>3. Idle.pc = "idle"
    BY DEF Idle
  <2> QED
    BY <1>1, <1>5, <1>8, <2>1, <2>2, <2>3 DEF Closing, Open
<1> QED
  BY <1>7, <1>8, <1>9, <1>10, <1>11 DEF LinksInv

\* A request that dies leaves a torn pair, a sweep nothing but its batch,
\* which is queued still.
LEMMA CrashHolds == ASSUME LinksInv, Crash PROVE LinksInv'
<1>1. UNCHANGED <<account, secret, nextRef, webhook, arrived, pending, published, dropped, stale>>
  BY DEF Crash, providerVars
<1>2. /\ RequestsTypeOK /\ SweepsTypeOK /\ ClosedForgotten
      /\ NothingForgotten /\ SweepsCover /\ NothingSkipped /\ Len(account) \in Nat
  BY LinkFacts
<1>3. SameRows
  BY <1>1, UnchangedRows
<1>4. AccountsTypeOK'
  BY <1>1, <1>3, TypesKept
<1>5. ASSUME NEW q \in Request, req' = [req EXCEPT ![q] = Idle], torn' = torn \cup {req[q].ref},
             UNCHANGED sweep
      PROVE  LinksInv'
  <2>1. SweepsTypeOK' /\ CursorInv'
    BY <1>1, <1>2, <1>3, <1>5, RequestsKeepCursors DEF SweepsTypeOK
  <2>2. RequestsTypeOK' /\ \A r \in Request : req'[r] = IF r = q THEN Idle ELSE req[r]
    BY <1>1, <1>3, <1>5, EndFacts
  <2>3. Idle.pc = "idle"
    BY DEF Idle
  <2>4. SecretsInv'
    BY <1>1, <1>2, <1>3, <1>5, EndKeepsSecrets DEF ClosedForgotten, Open
  <2>5. WebhookInv'
    BY <1>1, <1>3, <2>2, <2>3, WebhookFrame
  <2> QED
    BY <1>4, <2>1, <2>2, <2>4, <2>5 DEF LinksInv
<1>6. ASSUME NEW s \in Sweep, sweep' = [sweep EXCEPT ![s] = Resting], UNCHANGED <<req, torn>>
      PROVE  LinksInv'
  <2>1. /\ arrived' \in Nat /\ pending' \subseteq 1..arrived' /\ webhook' \in 0..Len(account)
        /\ 0 \in 0..Len(account)
    BY <1>1, <1>2 DEF SweepsTypeOK
  <2>2. SweepsTypeOK'
    BY <1>3, <1>6, <2>1, RestingFacts, SweepStepTyped
  <2>3. \A r \in Sweep : sweep'[r] = IF r = s THEN Resting ELSE sweep[r]
    BY <1>6, RestingFacts, SweepFacts
  <2>4. RequestsTypeOK'
    BY <1>1, <1>3, <1>6, TypesKept
  <2>5. CursorInv'
    BY <1>1, <1>2, <2>3, RestingFacts DEF CursorInv, NothingForgotten, SweepsCover, NothingSkipped, Ids
  <2>6. SecretsInv'
    <3>1. 0 \notin Ids
      BY <1>2 DEF Ids
    <3> QED
      BY <1>1, <1>3, <1>6, <2>3, <3>1, RestingFacts, SecretsFrame
  <2>7. WebhookInv'
    BY <1>1, <1>3, <1>6, WebhookFrame
  <2> QED
    BY <1>4, <2>2, <2>4, <2>5, <2>6, <2>7 DEF LinksInv
<1> QED
  BY <1>5, <1>6 DEF Crash

\* Every step preserves the invariant.
LEMMA LinksHold == LinksInv /\ [Next]_vars => LinksInv'
<1> SUFFICES ASSUME LinksInv, [Next]_vars PROVE LinksInv'
  OBVIOUS
<1>1. ASSUME NEW q \in Request,
             \/ Connect(q) \/ CreateAccount(q) \/ InitialSync(q) \/ Activate(q)
             \/ \E a \in Ids : Disconnect(q, a)
             \/ RevokeWebhook(q) \/ DeleteSecret(q) \/ Close(q)
      PROVE  LinksInv'
  BY <1>1, ConnectHolds, CreateHolds, SyncHolds, ActivateHolds, DisconnectHolds, RevokeHolds,
     DeleteSecretHolds, CloseHolds
<1>2. ASSUME NEW s \in Sweep, (\E a \in Ids : BeginSweep(s, a)) \/ SweepStep(s) PROVE LinksInv'
  BY <1>2, BeginSweepHolds, AskHolds, GetUpdatesHolds, RestoreHolds, PublishHolds, SaveCursorHolds, SweepFailsHolds
     DEF SweepStep
<1>3. ASSUME Arrive \/ \E m \in pending : Deliver(m) PROVE LinksInv'
  BY <1>3, ProviderHolds
<1>4. ASSUME Crash PROVE LinksInv'
  BY <1>4, CrashHolds
<1>5. ASSUME UNCHANGED vars PROVE LinksInv'
  <2>1. UNCHANGED <<account, secret, nextRef, webhook, arrived, pending, published, dropped,
                    req, sweep, torn, stale>>
    BY <1>5 DEF vars, providerVars
  <2>2. SameRows
    BY <2>1, UnchangedRows
  <2>3. AccountsTypeOK' /\ RequestsTypeOK' /\ SweepsTypeOK'
    BY <2>1, <2>2, TypesKept
  <2>4. CursorInv'
    BY <2>1, <2>2, CursorFrame
  <2>5. SecretsInv'
    BY <2>1, <2>2, SecretsFrame
  <2>6. WebhookInv'
    BY <2>1, <2>2, WebhookFrame
  <2> QED
    BY <2>3, <2>4, <2>5, <2>6 DEF LinksInv
<1> QED
  BY <1>1, <1>2, <1>3, <1>4, <1>5 DEF Next

\* For any number of connects, disconnects, sweeps and failures, and pages of
\* any size, the cursor of a Telegram or email account only passes messages
\* that were published, or thrown away by the webhook of an account that is
\* gone (runOnce publishes before it updates).
THEOREM CursorsSkipNothing == Spec => []NothingSkipped
<1>1. LinksInv => NothingSkipped
  BY DEF LinksInv, CursorInv
<1> QED
  BY LinksInitially, LinksHold, <1>1, PTL DEF Spec

\* However connects, disconnects and sweeps overlap or stop, a secret exists
\* exactly while an open account refers to it, but for requests in flight,
\* requests that stopped half way, and deletions that failed (connect,
\* disconnect, deleteSecret).
THEOREM SecretsStayMatched == Spec => []SecretsMatchAccounts
<1>1. LinksInv => SecretsMatchAccounts
  BY DEF LinksInv, SecretsInv
<1> QED
  BY LinksInitially, LinksHold, <1>1, PTL DEF Spec

\* Only a delivery drops a message, and only to a webhook that is stale.
LEMMA OnlyStaleDrops ==
  ASSUME LinksInv, [Next]_vars, dropped' # dropped
  PROVE  stale
<1>1. PICK m \in pending : Deliver(m)
  BY DEF Next, vars, providerVars, Connect, CreateAccount, InitialSync, Activate, Disconnect,
         RevokeWebhook, DeleteSecret, Close, BeginSweep, SweepStep, GetSecret, CheckWebhook,
         RemoveWebhook, GetUpdates, RestoreWebhook, Publish, SaveCursor, SweepFails, Arrive, Crash
<1>2. webhook # 0 /\ ~Open(webhook)
  BY <1>1 DEF Deliver, Accepts
<1>3. WebhookInv
  BY LinkFacts
<1> QED
  BY <1>2, <1>3 DEF WebhookInv, Closing

\* The webhook of an account that is gone takes a message only after a
\* deleteWebhook failed or a drain put it back (disconnect, reconcile).
THEOREM DropsAreStale == Spec => DropsNeedStaleWebhook
<1>1. LinksInv /\ [Next]_vars => [dropped' # dropped => stale]_vars
  BY OnlyStaleDrops
<1> QED
  BY LinksInitially, LinksHold, <1>1, PTL DEF Spec, DropsNeedStaleWebhook
=============================================================================
