------------------------------- MODULE Outbox -------------------------------
(***************************************************************************)
(* Replies written offline: Inbox.handleReply and offline-queue.ts put     *)
(* them in an IndexedDB outbox, the service worker replays the outbox on a *)
(* sync event and on the message the page sends when it is online again,   *)
(* which may overlap.  The browser may end the worker at any time.         *)
(***************************************************************************)
EXTENDS Naturals

CONSTANTS
  Reply,
  Flush,         \* concurrent runs of flushOutbox
  MaxSent        \* bound on the deliveries of one reply

ASSUME OutboxAssumption == MaxSent \in Nat

VARIABLES
  stage,     \* of a reply: "draft", "posting", "posted", or "filed" once queued
  outbox,    \* rows of the store
  expired,   \* replies whose Authorization header is not accepted any more
  sent,      \* how often the API has accepted each reply
  deleting,  \* rows whose deletion has begun
  flush,     \* runs of flushOutbox: the snapshot still to do, the reply posted
             \* and whether the API accepts it
  replayed   \* history: replies whose acceptance, or its deletion, was lost,
             \* or which a flush met while another had not finished with them

outboxVars == <<stage, outbox, expired, sent, deleting, flush, replayed>>

NoFlush == [pc |-> "idle", todo |-> {}, reply |-> {}, ok |-> FALSE]
InHand(f) == flush[f].todo \cup flush[f].reply
Accepted(f) == IF flush[f].ok THEN flush[f].reply ELSE {}

\* handleReply posts the reply, and queues it if the request fails as a
\* request, not as a response: the server may have accepted it.  (If the sync
\* cannot be registered after the put, the text stays in the box as well: what
\* is then sent again is another reply here.)
PostReply(i) ==
  /\ stage[i] = "draft"
  /\ stage' = [stage EXCEPT ![i] = "posting"]
  /\ UNCHANGED <<outbox, expired, sent, deleting, flush, replayed>>

Answered(i) ==
  /\ stage[i] = "posting"
  /\ \/ /\ stage' = [stage EXCEPT ![i] = "posted"]
        /\ sent' = [sent EXCEPT ![i] = @ + 1]
        /\ UNCHANGED <<outbox, replayed>>
     \/ \E accepted \in BOOLEAN :
          /\ stage' = [stage EXCEPT ![i] = "filed"]
          /\ sent' = [sent EXCEPT ![i] = IF accepted THEN @ + 1 ELSE @]
          /\ replayed' = IF accepted THEN replayed \cup {i} ELSE replayed
          /\ outbox' = outbox \cup {i}
  /\ UNCHANGED <<expired, deleting, flush>>

\* The access token in the queued headers outlives its quarter of an hour.
HeadersExpire(i) ==
  /\ i \in outbox
  /\ expired' = expired \cup {i}
  /\ UNCHANGED <<stage, outbox, sent, deleting, flush, replayed>>

\* getAll.  (The run ends at once if there is nothing.)
Snapshot(f) ==
  /\ flush[f].pc = "idle" /\ outbox # {}
  /\ flush' = [flush EXCEPT ![f] = [NoFlush EXCEPT !.pc = "next", !.todo = outbox]]
  /\ replayed' = replayed \cup
       (outbox \cap (deleting \cup UNION {InHand(g) : g \in Flush \ {f}}))
  /\ UNCHANGED <<stage, outbox, expired, sent, deleting>>

\* fetch.  A stale header is refused, and other replies may be.
Replay(f, i) ==
  /\ flush[f].pc = "next" /\ i \in flush[f].todo
  /\ \E ok \in BOOLEAN :
       /\ ok => i \notin expired /\ sent[i] < MaxSent
       /\ flush' = [flush EXCEPT ![f] =
            [pc |-> "posted", todo |-> @.todo \ {i}, reply |-> {i}, ok |-> ok]]
       /\ sent' = [sent EXCEPT ![i] = IF ok THEN @ + 1 ELSE @]
  /\ UNCHANGED <<stage, outbox, expired, deleting, replayed>>

\* Mutant: any response takes the reply out of the outbox.
DeletesAlways(f) == TRUE

\* res.ok
Deletes(f) == flush[f].ok

\* The response: the deletion is begun and not awaited, an error leaves the
\* reply where it is.
Respond(f) ==
  /\ flush[f].pc = "posted"
  /\ deleting' = IF Deletes(f) THEN deleting \cup flush[f].reply ELSE deleting
  /\ flush' = [flush EXCEPT ![f] =
       IF @.todo = {} THEN NoFlush ELSE [@ EXCEPT !.pc = "next", !.reply = {}, !.ok = FALSE]]
  /\ UNCHANGED <<stage, outbox, expired, sent, replayed>>

\* A request or its response is lost, which ends the run.
Offline(f) ==
  /\ flush[f].pc \in {"next", "posted"}
  /\ flush' = [flush EXCEPT ![f] = NoFlush]
  /\ replayed' = replayed \cup Accepted(f)
  /\ UNCHANGED <<stage, outbox, expired, sent, deleting>>

CommitDelete(i) ==
  /\ i \in deleting
  /\ outbox' = outbox \ {i}
  /\ deleting' = deleting \ {i}
  /\ UNCHANGED <<stage, expired, sent, flush, replayed>>

WorkerDies ==
  /\ flush' = [f \in Flush |-> NoFlush]
  /\ deleting' = {}
  /\ replayed' = replayed \cup deleting \cup UNION {Accepted(f) : f \in Flush}
  /\ UNCHANGED <<stage, outbox, expired, sent>>

OutboxInit ==
  /\ stage = [i \in Reply |-> "draft"]
  /\ outbox = {} /\ expired = {} /\ deleting = {} /\ replayed = {}
  /\ sent = [i \in Reply |-> 0]
  /\ flush = [f \in Flush |-> NoFlush]

OutboxNext ==
  \/ \E i \in Reply : \/ PostReply(i) \/ Answered(i) \/ HeadersExpire(i)
                      \/ CommitDelete(i)
                      \/ \E f \in Flush : Replay(f, i)
  \/ \E f \in Flush : Snapshot(f) \/ Respond(f) \/ Offline(f)
  \/ WorkerDies

OutboxSpec == OutboxInit /\ [][OutboxNext]_outboxVars

----------------------------------------------------------------------------
\* A reply that is neither being written nor in the outbox has been accepted:
\* no loss of a request, a response, the worker or the token drops it
\* (handleReply, flushOutbox).
NoReplyDropped ==
  \A i \in Reply : stage[i] \in {"posted", "filed"} => i \in outbox \/ sent[i] > 0

\* A reply is delivered twice only if an acceptance or its deletion was lost,
\* or two flushes overlapped on it: flushes in sequence deliver it once.
TwiceNeedsOverlap == \A i \in Reply : sent[i] > 1 => i \in replayed

\* A reply is delivered or waits, and is delivered twice only if a loss or an
\* overlap of flushes explains it.
RepliesDelivered == NoReplyDropped /\ TwiceNeedsOverlap
=============================================================================
