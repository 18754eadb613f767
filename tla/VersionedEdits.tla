--------------------------- MODULE VersionedEdits ---------------------------
(***************************************************************************)
(* Optimistic locking with ETag and If-Match: RulesController and          *)
(* NotificationPreferencesController, for editors who load, edit and       *)
(* delete one record at the same time.                                     *)
(*                                                                         *)
(* The content of a field is the version that wrote it.  An If-Match of 0  *)
(* stands for "new" (and for what is no number: no version is 0).          *)
(***************************************************************************)
EXTENDS Naturals

CONSTANTS
  Editor, Field,
  MaxVersion     \* bound on the versions

ASSUME VersionedEditsAssumption == MaxVersion \in Nat

VARIABLES
  recordKind,  \* "rule" or "preferences", once and for all
  record,      \* the row; version 0 without one
  ruleDeleted, \* deletedAt of a rule
  editor       \* what each editor does next: the version it has seen, the
               \* fields it sends and the row its request has read

editVars == <<recordKind, record, ruleDeleted, editor>>

NoRecord == [version |-> 0, fields |-> [f \in Field |-> 0]]
NoEdit(seen) == [pc |-> "idle", seen |-> seen, named |-> {}, base |-> NoRecord]

Exists == record.version > 0
Found == Exists /\ ~ruleDeleted
Editing(e, pc) == editor[e].pc = pc
EditorGoes(e, pc) == editor' = [editor EXCEPT ![e].pc = pc]
EndsWith(e, seen) == editor' = [editor EXCEPT ![e] = NoEdit(seen)]
FirstRow(version) == [version |-> version, fields |-> [f \in Field |-> version]]

\* POST of a rule.
CreateRule(e) ==
  /\ recordKind = "rule" /\ ~Exists /\ Editing(e, "idle")
  /\ record' = FirstRow(1)
  /\ EndsWith(e, 1)
  /\ UNCHANGED <<recordKind, ruleDeleted>>

\* GET: a rule that is there, the preferences or their defaults.
Load(e) ==
  /\ Editing(e, "idle")
  /\ recordKind = "rule" => Found
  /\ EndsWith(e, record.version)
  /\ UNCHANGED <<recordKind, record, ruleDeleted>>

\* PATCH of some fields, with the version of the form as If-Match.
Edit(e, named) ==
  /\ Editing(e, "idle")
  /\ recordKind = "rule" => editor[e].seen > 0
  /\ editor' = [editor EXCEPT ![e].pc = "read", ![e].named = named]
  /\ UNCHANGED <<recordKind, record, ruleDeleted>>

\* The handler reads the row, or refuses without one.
ReadExisting(e) ==
  /\ Editing(e, "read")
  /\ \/ Found /\ editor' = [editor EXCEPT ![e].pc = "write", ![e].base = record]
     \/ /\ ~Found /\ recordKind = "preferences" /\ editor[e].seen = 0
        /\ EditorGoes(e, "insert")
     \/ /\ ~Found /\ (recordKind = "rule" \/ editor[e].seen > 0)
        /\ EndsWith(e, editor[e].seen)
  /\ UNCHANGED <<recordKind, record, ruleDeleted>>

\* The unique index refuses a second row of preferences.
Insert(e) ==
  /\ Editing(e, "insert")
  /\ \/ ~Exists /\ record' = FirstRow(1) /\ EndsWith(e, 1)
     \/ Exists /\ EndsWith(e, editor[e].seen) /\ UNCHANGED record
  /\ UNCHANGED <<recordKind, ruleDeleted>>

\* Mutant: the version compared is the one this request has read.
MatchesRead(e) == record.version = editor[e].base.version

\* where: { id, version }
Matches(e) == record.version = editor[e].seen

\* A rule is written whole, with the fields that were not sent taken from the
\* read; preferences only where they were sent.
Merged(e) ==
  [f \in Field |-> IF f \in editor[e].named THEN record.version + 1
                   ELSE IF recordKind = "rule" THEN editor[e].base.fields[f]
                   ELSE record.fields[f]]

\* updateMany does not ask for deletedAt.
UpdateMany(e) ==
  /\ Editing(e, "write")
  /\ \/ /\ Matches(e) /\ record.version < MaxVersion
        /\ record' = [version |-> record.version + 1, fields |-> Merged(e)]
        /\ EditorGoes(e, "reread")
     \/ /\ ~Matches(e)
        /\ UNCHANGED record
        \* 412: the page keeps its form.
        /\ EndsWith(e, editor[e].seen)
  /\ UNCHANGED <<recordKind, ruleDeleted>>

\* The response is the row of now, which may be a later one.
Reread(e) ==
  /\ Editing(e, "reread")
  /\ EndsWith(e, record.version)
  /\ UNCHANGED <<recordKind, record, ruleDeleted>>

\* DELETE of a rule, found before.
ReadDoomed(e) ==
  /\ recordKind = "rule" /\ Editing(e, "idle") /\ Found
  /\ EditorGoes(e, "delete")
  /\ UNCHANGED <<recordKind, record, ruleDeleted>>

DeleteRule(e) ==
  /\ Editing(e, "delete")
  /\ ruleDeleted' = TRUE
  /\ EditorGoes(e, "idle")
  /\ UNCHANGED <<recordKind, record>>

\* The request or its response is lost, at any step.
EditLost(e) ==
  /\ ~Editing(e, "idle")
  /\ EndsWith(e, editor[e].seen)
  /\ UNCHANGED <<recordKind, record, ruleDeleted>>

EditsInit ==
  /\ recordKind \in {"rule", "preferences"}
  /\ record = NoRecord /\ ruleDeleted = FALSE
  /\ editor = [e \in Editor |-> NoEdit(0)]

EditsNext ==
  \E e \in Editor :
    \/ CreateRule(e) \/ Load(e) \/ ReadExisting(e) \/ Insert(e) \/ UpdateMany(e)
    \/ Reread(e) \/ ReadDoomed(e) \/ DeleteRule(e) \/ EditLost(e)
    \/ \E named \in SUBSET Field \ {{}} : Edit(e, named)

EditsSpec == EditsInit /\ [][EditsNext]_editVars

----------------------------------------------------------------------------
\* An accepted edit was made on the version it replaces, which its editor had
\* seen, and leaves every field it did not send as that version had it, though
\* a rule is written whole from an earlier read (If-Match, updateMany).
NoLostEdit ==
  [][\A e \in Editor :
       Editing(e, "write") /\ record'.version > record.version /\ editor'[e] # editor[e] =>
         /\ editor[e].seen = record.version
         /\ \A f \in Field \ editor[e].named : record'.fields[f] = record.fields[f]]_editVars
=============================================================================
