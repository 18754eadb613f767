--------------------------- MODULE IdentityGraph ---------------------------
(***************************************************************************)
(* Contacts and their provider identities: the matching sweep and its      *)
(* suggestions, approve (a merge), reject, split, and the messages that    *)
(* are filed under the contact of their sender while all that goes on.     *)
(*                                                                         *)
(* Transactions run READ COMMITTED.  A merge updates rows, which it locks, *)
(* and commits; but its tx.contact.delete is redirected by the soft-delete *)
(* extension to the client outside the transaction, and is visible, and    *)
(* stays, whatever becomes of the transaction.                             *)
(***************************************************************************)
EXTENDS Naturals, Sequences, FiniteSets

CONSTANTS
  Identity,       \* provider identities, each of another provider
  Reviewer, Filer, Matcher,  \* requests, event handlers, sweeps
  MaxContacts, MaxSuggestions, MaxFiled \* bounds on the rows ever created

ASSUME IdentityGraphAssumption ==
  /\ IsFiniteSet(Identity)
  /\ {MaxContacts, MaxSuggestions, MaxFiled} \subseteq Nat

VARIABLES
  retired,     \* contacts, by id: is deletedAt set?
  owner,       \* the contact of an identity
  filed,       \* new messages: the identity they came from and their contact
  suggestion,  \* identity_merge_suggestions rows
  review, filer, matcher,
  halfMerged,  \* history: contacts retired by a merge that rolled back
  reused,      \* history: survivors of a merge that were being merged or retired themselves
  crossed,     \* history: identities that moved while a message of theirs was being
               \* filed, or that a split moved though they had moved already
  raced        \* history: pairs that two sweeps looked up at once, or one of whose
               \* suggestions was rejected when it was not pending any more

graph == <<retired, owner, filed, suggestion>>
history == <<halfMerged, reused, crossed, raced>>
identityVars == <<graph, review, filer, matcher, history>>

Contacts == 1..Len(retired)
NoReview == [pc |-> "idle", s |-> 0, contact |-> 0, to |-> 0, ids |-> {}, msgs |-> {}]
NoFiling == [pc |-> "idle", from |-> 0, contact |-> 0]
NoPair == <<0, 0>>
NoMatching == [pair |-> NoPair, looked |-> FALSE]

\* Rows that a transaction under way has updated.
RowLocks == UNION {review[q].ids : q \in {q \in Reviewer : review[q].pc \in {"retire", "commit"}}}

Held(c) == {i \in Identity : owner[i] = c}
SentBy(c) == {m \in 1..Len(filed) : filed[m].contact = c}

----------------------------------------------------------------------------
\* IdentityMatchingService.runOnce, one candidate pair at a time.

\* findMergeCandidates: any two contacts may have similar names.
BeginMatching(x) ==
  /\ matcher[x].pair = NoPair
  /\ \E a, b \in Contacts :
       /\ a < b /\ ~retired[a] /\ ~retired[b]
       /\ matcher' = [matcher EXCEPT ![x].pair = <<a, b>>]
  /\ UNCHANGED <<graph, review, filer, history>>

WithStatus(p, statuses) ==
  \E n \in 1..Len(suggestion) : suggestion[n].pair = p /\ suggestion[n].status \in statuses

\* Mutant: a rejection does not stand.
PendingOnly(p) == WithStatus(p, {"pending"})

AlreadyDecidedOrPending(p) == WithStatus(p, {"pending", "rejected"})

\* Sweeps, of several processes, that have found nothing about the pair.
Looked(p) == {x \in Matcher : matcher[x].pair = p /\ matcher[x].looked}

\* findFirst.  The pair's contacts may be retired by now, which nobody checks.
LookUp(x) ==
  LET p == matcher[x].pair
  IN /\ p # NoPair /\ ~matcher[x].looked
     /\ matcher' = [matcher EXCEPT ![x] = IF AlreadyDecidedOrPending(p) THEN NoMatching
                                          ELSE [@ EXCEPT !.looked = TRUE]]
     /\ raced' = IF Looked(p) = {} THEN raced ELSE raced \cup {p}
     /\ UNCHANGED <<graph, review, filer, halfMerged, reused, crossed>>

\* identityMergeSuggestion.create, whatever has become of the pair since.
Suggest(x) ==
  /\ matcher[x].looked /\ Len(suggestion) < MaxSuggestions
  /\ suggestion' = Append(suggestion, [pair |-> matcher[x].pair, status |-> "pending"])
  /\ matcher' = [matcher EXCEPT ![x] = NoMatching]
  /\ UNCHANGED <<retired, owner, filed, review, filer, history>>

\* The sweep's last statement, once the suggestion is a week old.
Expire(n) ==
  /\ suggestion[n].status = "pending"
  /\ suggestion' = [suggestion EXCEPT ![n].status = "expired"]
  /\ UNCHANGED <<retired, owner, filed, review, filer, matcher, history>>

----------------------------------------------------------------------------
\* approveMergeSuggestion.

Survivor(n) == suggestion[n].pair[1]
Absorbed(n) == suggestion[n].pair[2]

Review(q, n, decision) ==
  /\ review[q].pc = "idle" /\ suggestion[n].status = "pending"
  /\ review' = [review EXCEPT ![q] = [NoReview EXCEPT !.pc = decision, !.s = n]]
  /\ UNCHANGED <<graph, filer, matcher, history>>

\* Mutant: the identities stay.
MessagesOnly(q) == [ids |-> {}, msgs |-> SentBy(Absorbed(review[q].s))]

\* Mutant: the messages stay.
IdentitiesOnly(q) == [ids |-> Held(Absorbed(review[q].s)), msgs |-> {}]

Moves(q) == [ids |-> Held(Absorbed(review[q].s)), msgs |-> SentBy(Absorbed(review[q].s))]

\* The two updateMany; rows that another transaction has locked are waited for.
Reassign(q) ==
  /\ review[q].pc = "approve"
  /\ Held(Absorbed(review[q].s)) \cap RowLocks = {}
  /\ review' = [review EXCEPT ![q] = [@ EXCEPT !.pc = "retire", !.to = Survivor(review[q].s),
                                               !.ids = Moves(q).ids, !.msgs = Moves(q).msgs]]
  /\ UNCHANGED <<graph, filer, matcher, history>>

\* contact.delete, outside the transaction.
Retire(q) ==
  /\ review[q].pc = "retire"
  /\ retired' = [retired EXCEPT ![Absorbed(review[q].s)] = TRUE]
  /\ review' = [review EXCEPT ![q].pc = "commit"]
  /\ UNCHANGED <<owner, filed, suggestion, filer, matcher, history>>

\* What a committing transaction does to identities and messages.  (It also
\* writes a log that nothing here reads.)
Move(ids, msgs, to) ==
  /\ owner' = [i \in Identity |-> IF i \in ids THEN to ELSE owner[i]]
  /\ filed' = [m \in 1..Len(filed) |-> IF m \in msgs THEN [filed[m] EXCEPT !.contact = to]
                                       ELSE filed[m]]

Filing == {filer[f].from : f \in {f \in Filer : filer[f].pc = "create"}}

\* Retired, or about to be by a merge under way.
Vanishing(c) ==
  retired[c] \/ \E q \in Reviewer : review[q].pc \in {"retire", "commit"} /\ Absorbed(review[q].s) = c

CommitMerge(q) ==
  /\ review[q].pc = "commit"
  /\ Move(review[q].ids, review[q].msgs, review[q].to)
  /\ suggestion' = [suggestion EXCEPT ![review[q].s].status = "approved"]
  /\ review' = [review EXCEPT ![q] = NoReview]
  /\ crossed' = crossed \cup Filing
  /\ reused' = IF Vanishing(review[q].to) THEN reused \cup {review[q].to} ELSE reused
  /\ UNCHANGED <<retired, filer, matcher, halfMerged, raced>>

\* The process dies or a statement fails: the transaction is undone, the
\* contact's deletion is not.
RollBack(q) ==
  /\ review[q].pc \in {"approve", "retire", "commit"}
  /\ review' = [review EXCEPT ![q] = NoReview]
  /\ halfMerged' = IF review[q].pc = "commit" THEN halfMerged \cup {Absorbed(review[q].s)}
                   ELSE halfMerged
  /\ UNCHANGED <<graph, filer, matcher, reused, crossed, raced>>

\* rejectMergeSuggestion: by id, whatever the status is by now.
Reject(q) ==
  /\ review[q].pc = "reject"
  /\ suggestion' = [suggestion EXCEPT ![review[q].s].status = "rejected"]
  /\ review' = [review EXCEPT ![q] = NoReview]
  /\ raced' = IF suggestion[review[q].s].status = "pending" THEN raced
              ELSE raced \cup {suggestion[review[q].s].pair}
  /\ UNCHANGED <<retired, owner, filed, filer, matcher, halfMerged, reused, crossed>>

----------------------------------------------------------------------------
\* splitContact.

\* The contact is found among those not retired; the identities to move are
\* those asked for that it has at this moment.
BeginSplit(q, c) ==
  /\ review[q].pc = "idle" /\ ~retired[c]
  /\ \E ids \in SUBSET Held(c) :
       /\ ids # {}
       /\ review' = [review EXCEPT ![q] = [NoReview EXCEPT !.pc = "split", !.contact = c, !.ids = ids]]
  /\ UNCHANGED <<graph, filer, matcher, history>>

\* Identities by id, messages by contact and provider.
CommitSplit(q) ==
  LET c == review[q].contact
      ids == review[q].ids
  IN /\ review[q].pc = "split" /\ ids \cap RowLocks = {} /\ Len(retired) < MaxContacts
     /\ retired' = Append(retired, FALSE)
     /\ Move(ids, {m \in SentBy(c) : filed[m].from \in ids}, Len(retired) + 1)
     /\ review' = [review EXCEPT ![q] = NoReview]
     /\ crossed' = crossed \cup Filing \cup {i \in ids : owner[i] # c}
     /\ UNCHANGED <<suggestion, filer, matcher, halfMerged, reused, raced>>

----------------------------------------------------------------------------
\* handleMessageReceived, from a known sender: resolveIdentity, and later
\* message.create.

Resolve(f, i) ==
  /\ filer[f].pc = "idle" /\ Len(filed) < MaxFiled
  /\ filer' = [filer EXCEPT ![f] = [pc |-> "create", from |-> i, contact |-> owner[i]]]
  /\ UNCHANGED <<graph, review, matcher, history>>

FileMessage(f) ==
  /\ filer[f].pc = "create"
  /\ filed' = Append(filed, [from |-> filer[f].from, contact |-> filer[f].contact])
  /\ filer' = [filer EXCEPT ![f] = NoFiling]
  /\ crossed' = crossed \cup ({filer[f].from} \cap RowLocks)
  /\ UNCHANGED <<retired, owner, suggestion, review, matcher, halfMerged, reused, raced>>

----------------------------------------------------------------------------
\* Every identity has written before, which made it a contact of its own.
IdentityInit ==
  /\ retired = [c \in 1..Cardinality(Identity) |-> FALSE]
  /\ owner \in {o \in [Identity -> Contacts] : \A i, j \in Identity : o[i] = o[j] => i = j}
  /\ filed = <<>>
  /\ suggestion = <<>>
  /\ review = [q \in Reviewer |-> NoReview] /\ filer = [f \in Filer |-> NoFiling]
  /\ matcher = [x \in Matcher |-> NoMatching]
  /\ halfMerged = {} /\ reused = {} /\ crossed = {} /\ raced = {}

IdentityNext ==
  \/ \E x \in Matcher : BeginMatching(x) \/ LookUp(x) \/ Suggest(x)
  \/ \E n \in 1..Len(suggestion) : Expire(n)
  \/ \E q \in Reviewer :
       \/ \E n \in 1..Len(suggestion), decision \in {"approve", "reject"} : Review(q, n, decision)
       \/ Reassign(q) \/ Retire(q) \/ CommitMerge(q) \/ RollBack(q) \/ Reject(q)
       \/ \E c \in Contacts : BeginSplit(q, c)
       \/ CommitSplit(q)
  \/ \E f \in Filer :
       \/ \E i \in Identity : Resolve(f, i)
       \/ FileMessage(f)

IdentitySpec == IdentityInit /\ [][IdentityNext]_identityVars

----------------------------------------------------------------------------
\* Properties.

\* An identity belongs to a contact that is there, except one whose merge is
\* between its delete and its commit or was undone in between, and one that
\* was absorbed, or being absorbed, when another merge made it the survivor:
\* approve never looks whether the suggestion's contacts are still there.
NobodyStranded ==
  \A i \in Identity :
    retired[owner[i]] =>
      \/ owner[i] \in halfMerged \cup reused
      \/ \E q \in Reviewer : review[q].pc = "commit" /\ Absorbed(review[q].s) = owner[i]

\* A message is filed under the contact that has its sender's identity, except
\* for identities that a merge or split moved while their message was being
\* filed, and those that a split took from a contact they had left already
\* (two splits of the same identity, say: the messages go with the first).
MessagesFollowTheirSender ==
  \A m \in 1..Len(filed) :
    filed[m].from \notin crossed => filed[m].contact = owner[filed[m].from]

\* A pair that a user rejected is not suggested again, though the sweep found
\* it long before and awaits between its look and its create, except a pair
\* that two sweeps looked up at once, or whose rejected suggestion had expired
\* (or was approved) under the reviewer (runOnce, rejectMergeSuggestion).
RejectionStands ==
  [][\A n \in 1..Len(suggestion') :
       n > Len(suggestion) /\ suggestion'[n].pair \notin raced =>
         ~WithStatus(suggestion'[n].pair, {"rejected"})]_identityVars
============================================================================
