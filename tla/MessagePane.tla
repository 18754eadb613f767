---------------------------- MODULE MessagePane ----------------------------
(***************************************************************************)
(* The open conversation of the web client (Inbox.tsx): the messages on    *)
(* display, for fetches that are answered and resolved in any order while  *)
(* messages arrive and the user opens other conversations.                 *)
(*                                                                         *)
(* A message is its conversation and its number there.  The pane is a      *)
(* sequence of stretches: the messages that one page added, shown in the   *)
(* order of their numbers.  A fetch ends when its function does; what it   *)
(* does after an await reads the state of then, and the conversation and   *)
(* generation of when it began.                                            *)
(***************************************************************************)
EXTENDS Naturals, Sequences, FiniteSets

CONSTANTS
  Conversation, Fetch, NoConversation,
  PageLimit,
  MaxMessages, MaxSelects  \* bounds on a conversation, on selections

ASSUME MessagePaneAssumption ==
  /\ NoConversation \notin Conversation
  /\ PageLimit \in Nat \ {0} /\ {MaxMessages, MaxSelects} \subseteq Nat

VARIABLES
  stored,     \* messages of each conversation in the database
  selected,   \* selectedId, selectedIdRef
  paneGen,    \* messagesRequestIdRef
  pane,       \* messages
  older,      \* messagesCursor: the rows before it are next, 0 for none
  hasOlder,   \* messagesHasMore
  loading,    \* loadingOlderMessages
  fetch,      \* calls under way
  torn,       \* history: a page was merged that does not touch the pane
  abandoned   \* history: a load of older messages outlived its conversation

display == <<selected, paneGen, pane, older, hasOlder, loading>>
paneVars == <<stored, display, fetch, torn, abandoned>>

NoFetch == [pc |-> "idle", kind |-> "none", conv |-> NoConversation, gen |-> 0,
            before |-> 0, first |-> 1, last |-> 0, more |-> FALSE]

Ask(f, kind, pc, conv, gen) ==
  /\ fetch[f].pc = "idle"
  /\ fetch' = [fetch EXCEPT ![f] = [NoFetch EXCEPT !.pc = pc, !.kind = kind, !.conv = conv,
                                      !.gen = gen, !.before = IF kind = "older" THEN older ELSE 0]]

Store(c) ==
  /\ stored[c] < MaxMessages
  /\ stored' = [stored EXCEPT ![c] = @ + 1]
  /\ UNCHANGED <<display, fetch, torn, abandoned>>

Current(f) == fetch[f].gen = paneGen

\* selectConversation, up to its fetch.  The flag of a load is left as it is.
SelectConversation(f, c) ==
  /\ paneGen < MaxSelects
  /\ Ask(f, "select", "asked", c, paneGen + 1)
  /\ selected' = c /\ paneGen' = paneGen + 1
  /\ pane' = <<>> /\ older' = 0 /\ hasOlder' = FALSE
  /\ torn' = FALSE
  /\ abandoned' = (abandoned \/ \E g \in Fetch : fetch[g].kind = "older" /\ Current(g))
  /\ UNCHANGED <<stored, loading>>

LoadOlderMessages(f) ==
  /\ hasOlder /\ ~loading /\ older > 0
  /\ Ask(f, "older", "asked", selected, paneGen)
  /\ loading' = TRUE
  /\ UNCHANGED <<stored, selected, paneGen, pane, older, hasOlder, torn, abandoned>>

\* onMessage: whatever message the event is about, or the socket missed.
Nudge(f) ==
  /\ selected # NoConversation
  /\ Ask(f, "nudge", "asked", selected, paneGen)
  /\ UNCHANGED <<stored, display, torn, abandoned>>

HandleReply(f) ==
  /\ selected # NoConversation
  /\ Ask(f, "reply", "sending", selected, paneGen)
  /\ UNCHANGED <<stored, display, torn, abandoned>>

\* The reply is stored and its conversation fetched again, or it fails, which
\* is for the outbox.
Sent(f) ==
  /\ fetch[f].pc = "sending"
  /\ \/ /\ stored[fetch[f].conv] < MaxMessages
        /\ stored' = [stored EXCEPT ![fetch[f].conv] = @ + 1]
        /\ fetch' = [fetch EXCEPT ![f].pc = "asked"]
     \/ fetch' = [fetch EXCEPT ![f] = NoFetch] /\ UNCHANGED stored
  /\ UNCHANGED <<display, torn, abandoned>>

\* The endpoint: the latest messages, or the latest before the cursor, in
\* order; or it fails.
Answer(f) ==
  /\ fetch[f].pc = "asked"
  /\ LET r == fetch[f]
         last == IF r.before = 0 THEN stored[r.conv] ELSE r.before - 1
         first == IF last > PageLimit THEN last - PageLimit + 1 ELSE 1
     IN \/ fetch' = [fetch EXCEPT ![f] = [r EXCEPT !.pc = "answered", !.more = first > 1,
                                            !.first = first, !.last = last]]
        \/ fetch' = [fetch EXCEPT ![f].pc = "failed"]
  /\ UNCHANGED <<stored, display, torn, abandoned>>

\* What has been fetched, and what of a conversation is on display.
Page(f) == fetch[f].first..fetch[f].last
ShownOf(c) == UNION {pane[i].rows : i \in {j \in 1..Len(pane) : pane[j].conv = c}}
New(f) == Page(f) \ ShownOf(fetch[f].conv)

Stretch(f, rows) == IF rows = {} THEN <<>> ELSE <<[conv |-> fetch[f].conv, rows |-> rows]>>
MergeNewest(f) == pane \o Stretch(f, New(f))
MergeOlder(f) == Stretch(f, New(f)) \o pane

\* A page that does not continue what is on display: more than a page has
\* arrived since, or it begins before the first message shown (answered before
\* the select, and resolved after it).
Tears(f) ==
  LET first == fetch[f].first
  IN /\ Page(f) # {} /\ fetch[f].conv = selected /\ first \notin ShownOf(selected)
     /\ \/ first > 1 /\ first - 1 \notin ShownOf(selected)
        \/ \E n \in ShownOf(selected) : first < n

\* Cursor of the page: its oldest row, if there are more.
NextOlder(f) == IF fetch[f].more THEN fetch[f].first ELSE 0

\* Mutant: the generation is not compared.
AppliesLate(f) == TRUE

\* After the await of a load: has the user moved on?
Applies(f) == Current(f)

\* loadingOlderMessages after a load of the current generation.
StillLoading(f) == FALSE

Ended(f) == fetch' = [fetch EXCEPT ![f] = NoFetch]

ResolveSelect(f) ==
  /\ fetch[f].kind = "select" /\ fetch[f].pc \in {"answered", "failed"}
  /\ Ended(f)
  /\ \/ /\ Applies(f)
        /\ pane' = Stretch(f, Page(f))
        /\ older' = NextOlder(f) /\ hasOlder' = fetch[f].more
        /\ torn' = (fetch[f].pc = "failed" /\ stored[selected] > 0)
     \/ ~Applies(f) /\ UNCHANGED <<pane, older, hasOlder, torn>>
  /\ UNCHANGED <<stored, selected, paneGen, loading, abandoned>>

\* A superseded load does not touch the flag either.
ResolveOlder(f) ==
  /\ fetch[f].kind = "older" /\ fetch[f].pc \in {"answered", "failed"}
  /\ Ended(f)
  /\ \/ /\ Applies(f) /\ fetch[f].pc = "answered"
        /\ pane' = MergeOlder(f)
        /\ older' = NextOlder(f) /\ hasOlder' = fetch[f].more
        /\ loading' = StillLoading(f)
     \/ /\ Applies(f) /\ fetch[f].pc = "failed"
        /\ loading' = StillLoading(f)
        /\ UNCHANGED <<pane, older, hasOlder>>
     \/ ~Applies(f) /\ UNCHANGED <<pane, older, hasOlder, loading>>
  /\ UNCHANGED <<stored, selected, paneGen, torn, abandoned>>

\* Only the nudge asks whether its conversation is still open.
Merges(f) == fetch[f].kind = "nudge" => fetch[f].conv = selected

ResolveNewest(f) ==
  /\ fetch[f].kind \in {"nudge", "reply"} /\ fetch[f].pc \in {"answered", "failed"}
  /\ Ended(f)
  /\ \/ /\ fetch[f].pc = "answered" /\ Merges(f)
        /\ pane' = MergeNewest(f)
        /\ torn' = (torn \/ Tears(f))
     \/ /\ fetch[f].pc = "failed" \/ ~Merges(f)
        /\ UNCHANGED <<pane, torn>>
  /\ UNCHANGED <<stored, selected, paneGen, older, hasOlder, loading, abandoned>>

PaneInit ==
  /\ stored = [c \in Conversation |-> 0]
  /\ selected = NoConversation /\ paneGen = 0
  /\ pane = <<>> /\ older = 0 /\ hasOlder = FALSE /\ loading = FALSE
  /\ fetch = [f \in Fetch |-> NoFetch]
  /\ torn = FALSE /\ abandoned = FALSE

PaneNext ==
  \/ \E c \in Conversation : Store(c) \/ \E f \in Fetch : SelectConversation(f, c)
  \/ \E f \in Fetch : \/ LoadOlderMessages(f) \/ Nudge(f) \/ HandleReply(f)
                      \/ Sent(f) \/ Answer(f)
                      \/ ResolveSelect(f) \/ ResolveOlder(f) \/ ResolveNewest(f)

PaneSpec == PaneInit /\ [][PaneNext]_paneVars

----------------------------------------------------------------------------
\* What is on display of the open conversation is an unbroken stretch of it,
\* in order, that goes on at the cursor or begins at the first message, through
\* loads, nudges, replies and switches in any order, unless the select failed
\* or more than a page arrived between two fetches
\* (mergeNewestMessagesPage, mergeOlderMessagesPage).
HistoryIsWhole ==
  ~torn =>
    /\ \E last \in 0..MaxMessages : ShownOf(selected) = (IF hasOlder THEN older ELSE 1)..last
    /\ \A i, j \in 1..Len(pane) :
         i < j /\ pane[i].conv = selected /\ pane[j].conv = selected =>
           \A m \in pane[i].rows, n \in pane[j].rows : m < n

\* The button for older messages works unless a load is under way, or one was
\* once overtaken by a switch of conversation, whose flag nothing lowers.
OlderStaysReachable ==
  loading => abandoned \/ \E f \in Fetch : fetch[f].kind = "older" /\ Current(f)

\* The open conversation is shown without gaps, and its history stays within
\* reach.
PaneIsWhole == HistoryIsWhole /\ OlderStaysReachable
=============================================================================
