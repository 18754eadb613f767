-------------------------- MODULE ConversationList --------------------------
(***************************************************************************)
(* The conversation list of the web client (Inbox.tsx) over the paginated  *)
(* endpoint (ConversationsController.list): pages are loaded by key while  *)
(* conversations move, and the filter changes while calls are under way.   *)
(*                                                                         *)
(* A key is the tuple the list is ordered by (priority, time, id).  The    *)
(* filter is the view, open or archived; a function reads the view of the  *)
(* rendering it was created in.  Pages and the list are sets of rows: what *)
(* matters is which conversations they have, not the order on the screen.  *)
(***************************************************************************)
EXTENDS Naturals, FiniteSets

CONSTANTS
  Thread, Query,
  ListLimit,
  MaxKey, MaxGen,  \* bounds on the keys, on fresh loads, and on the
  MaxMoved         \* conversations that change between two of them

ASSUME ConversationListAssumption ==
  IsFiniteSet(Thread) /\ ListLimit \in Nat \ {0} /\ {MaxKey, MaxGen, MaxMoved} \subseteq Nat

VARIABLES
  key,       \* of each conversation, no two the same
  archived,  \* conversations with isArchived
  view,      \* showArchived
  captured,  \* the view the socket's handler was created with
  listGen,   \* conversationsRequestIdRef
  conversations,  \* on display, each with the view it was fetched under
  boundary,  \* conversationsCursor, 0 for none
  hasMore,   \* conversationsHasMore
  loadingMore,
  query,     \* calls under way
  loaded,    \* history: the view they are a fresh load of, "none" without one
  moved,     \* history: conversations that have changed since that load
  dropped    \* history: a "Load more" outlived its list

serverVars == <<key, archived>>
shownVars == <<view, captured, listGen, conversations, boundary, hasMore, loadingMore>>
listVars == <<serverVars, shownVars, query, loaded, moved, dropped>>

Views == {"open", "archived"}
NoQuery == [pc |-> "idle", kind |-> "none", gen |-> 0, view |-> "open", from |-> 0,
            page |-> {}, more |-> FALSE, next |-> 0]
Keys == {key[r] : r \in Thread}
ViewOf(r) == IF r \in archived THEN "archived" ELSE "open"

----------------------------------------------------------------------------
\* The server.

MayMove(r) == r \notin moved /\ Cardinality(moved) < MaxMoved

\* A message, or the opening of a conversation on another device, moves it.
Touch(r) ==
  /\ MayMove(r)
  /\ \E k \in (1..MaxKey) \ Keys : key' = [key EXCEPT ![r] = k]
  /\ moved' = moved \cup {r}
  /\ UNCHANGED <<archived, shownVars, query, loaded, dropped>>

Archive(r) ==
  /\ MayMove(r)
  /\ archived' = IF r \in archived THEN archived \ {r} ELSE archived \cup {r}
  /\ moved' = moved \cup {r}
  /\ UNCHANGED <<key, shownVars, query, loaded, dropped>>

\* Conversations of the view past the cursor, and the first of them.
Matching(v, from) == {r \in Thread : ViewOf(r) = v /\ (from > 0 => key[r] < from)}
FirstOf(all) == {r \in all : Cardinality({s \in all : key[s] >= key[r]}) <= ListLimit}

\* No fresh load has superseded this call.
UpToDate(q) == query[q].gen = listGen

\* Mutant: the cursor is that of the row cut off.
NextOfCut(all) ==
  LET rest == all \ FirstOf(all) IN key[CHOOSE r \in rest : \A s \in rest : key[s] <= key[r]]

\* buildPage: the cursor of the last row that is returned.
NextOf(all) ==
  LET page == FirstOf(all) IN key[CHOOSE r \in page : \A s \in page : key[r] <= key[s]]

List(q) ==
  /\ query[q].pc = "asked"
  /\ LET all == Matching(query[q].view, query[q].from)
         more == Cardinality(all) > ListLimit
     IN \/ query' = [query EXCEPT ![q] =
             [query[q] EXCEPT !.pc = "answered", !.more = more, !.page = FirstOf(all),
                              !.next = IF more THEN NextOf(all) ELSE 0]]
        \/ query' = [query EXCEPT ![q].pc = "failed"]
  /\ moved' = IF query[q].kind = "fresh" /\ UpToDate(q) THEN {} ELSE moved
  /\ UNCHANGED <<serverVars, shownVars, loaded, dropped>>

----------------------------------------------------------------------------
\* The client.

Asks(q, kind, gen, v, from) ==
  /\ query[q].pc = "idle"
  /\ query' = [query EXCEPT ![q] = [NoQuery EXCEPT !.pc = "asked", !.kind = kind, !.gen = gen,
                                      !.view = v, !.from = from]]

Dropping == \E q \in Query : query[q].kind = "more" /\ UpToDate(q)

\* refreshConversations of the view v.
RefreshConversations(q, v) ==
  /\ listGen < MaxGen
  /\ listGen' = listGen + 1
  /\ Asks(q, "fresh", listGen + 1, v, 0)
  /\ boundary' = 0 /\ hasMore' = FALSE
  /\ loaded' = "none"
  /\ dropped' = (dropped \/ Dropping)

\* The user switches the view, and the effect refreshes.
SwitchView(q, v) ==
  /\ v # view
  /\ view' = v
  /\ RefreshConversations(q, v)
  /\ UNCHANGED <<serverVars, captured, conversations, loadingMore, moved>>

\* selectConversation, handleToggleArchive and their like refresh after an
\* await, with the view of the rendering they were called in.
RefreshAfterAwait(q, v) ==
  /\ RefreshConversations(q, v)
  /\ UNCHANGED <<serverVars, view, captured, conversations, loadingMore, moved>>

\* A new access token runs the effect again, with the handler of now.
NewToken(q) ==
  /\ captured' = view
  /\ RefreshConversations(q, view)
  /\ UNCHANGED <<serverVars, view, conversations, loadingMore, moved>>

\* mergeConversationsRealtime, called by the handler.
MergeConversationsRealtime(q) ==
  /\ Asks(q, "merge", listGen, captured, 0)
  /\ UNCHANGED <<serverVars, shownVars, loaded, moved, dropped>>

LoadMoreConversations(q) ==
  /\ hasMore /\ ~loadingMore /\ boundary > 0
  /\ Asks(q, "more", listGen, view, boundary)
  /\ loadingMore' = TRUE
  /\ UNCHANGED <<serverVars, view, captured, listGen, conversations, boundary, hasMore,
                 loaded, moved, dropped>>

Finishes(q) == query' = [query EXCEPT ![q] = NoQuery]
Under(v, page) == {[id |-> r, view |-> v] : r \in page}
IdsIn(rows) == {x.id : x \in rows}
Without(rows, ids) == {x \in rows : x.id \notin ids}

\* A result that another fresh load has superseded is discarded, and so is
\* what would have lowered the flag of a "Load more".
Discard(q) ==
  /\ query[q].pc \in {"answered", "failed"} /\ ~UpToDate(q)
  /\ Finishes(q)
  /\ UNCHANGED <<serverVars, shownVars, loaded, moved, dropped>>

Fail(q) ==
  /\ query[q].pc = "failed" /\ UpToDate(q)
  /\ Finishes(q)
  /\ loadingMore' = (loadingMore /\ query[q].kind # "more")
  /\ UNCHANGED <<serverVars, view, captured, listGen, conversations, boundary, hasMore,
                 loaded, moved, dropped>>

Replace(q) ==
  /\ query[q].pc = "answered" /\ query[q].kind = "fresh" /\ UpToDate(q)
  /\ Finishes(q)
  /\ conversations' = Under(query[q].view, query[q].page)
  /\ boundary' = query[q].next /\ hasMore' = query[q].more
  /\ loaded' = query[q].view
  /\ UNCHANGED <<serverVars, view, captured, listGen, loadingMore, moved, dropped>>

\* mergeFreshConversationsPage
Merge(q) ==
  /\ query[q].pc = "answered" /\ query[q].kind = "merge" /\ UpToDate(q)
  /\ Finishes(q)
  /\ LET page == Under(query[q].view, query[q].page)
     IN conversations' = page \cup Without(conversations, IdsIn(page))
  /\ UNCHANGED <<serverVars, view, captured, listGen, boundary, hasMore, loadingMore,
                 loaded, moved, dropped>>

\* appendConversationsPage
AppendPage(q) ==
  /\ query[q].pc = "answered" /\ query[q].kind = "more" /\ UpToDate(q)
  /\ Finishes(q)
  /\ LET page == Under(query[q].view, query[q].page)
     IN conversations' = conversations \cup Without(page, IdsIn(conversations))
  /\ boundary' = query[q].next /\ hasMore' = query[q].more /\ loadingMore' = FALSE
  /\ UNCHANGED <<serverVars, view, captured, listGen, loaded, moved, dropped>>

ListInit ==
  /\ key \in [Thread -> 1..Cardinality(Thread)]
  /\ \A r, s \in Thread : key[r] = key[s] => r = s
  /\ archived = {} /\ view = "open" /\ captured = "open"
  /\ listGen = 0 /\ conversations = {} /\ boundary = 0 /\ hasMore = FALSE
  /\ loadingMore = FALSE
  /\ query = [q \in Query |-> NoQuery]
  /\ loaded = "none" /\ moved = {} /\ dropped = FALSE

ListNext ==
  \/ \E r \in Thread : Touch(r) \/ Archive(r)
  \/ \E q \in Query :
       \/ List(q) \/ NewToken(q) \/ MergeConversationsRealtime(q) \/ LoadMoreConversations(q)
       \/ Discard(q) \/ Fail(q) \/ Replace(q) \/ Merge(q) \/ AppendPage(q)
       \/ \E v \in Views : SwitchView(q, v) \/ RefreshAfterAwait(q, v)

ListSpec == ListInit /\ [][ListNext]_listVars

----------------------------------------------------------------------------
\* Every conversation of the view that has not moved since the fresh load is
\* in the list or past its boundary, and "Load more" gets there unless one
\* was once overtaken by a fresh load, whose flag nothing lowers: merges,
\* appends and superseded calls in any order leave no gap
\* (mergeConversationsRealtime, loadMoreConversations, buildPage).
ListIsReachable ==
  /\ loaded = view =>
       \A r \in Thread \ moved :
         ViewOf(r) = view /\ (hasMore => key[r] >= boundary) => r \in IdsIn(conversations)
  /\ hasMore => boundary > 0
  /\ loadingMore => dropped \/ Dropping

\* No row of another view gets into a loaded list, unless the socket's handler
\* or the refresh that loaded it were created while that view was shown (they
\* keep the view of that rendering).
RowsOfTheView ==
  loaded = view /\ captured = view => \A x \in conversations : x.view = view

\* The list is all of the view that is to be had, and nothing else.
ListIsWhole == ListIsReachable /\ RowsOfTheView
=============================================================================
