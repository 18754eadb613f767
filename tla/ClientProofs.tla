---------------------------- MODULE ClientProofs ----------------------------
(***************************************************************************)
(* The web client: a reply that was typed arrives or stays in the outbox,  *)
(* the refresh cookie that the tabs share stays live, and the open         *)
(* conversation and the list are shown whole, for any number of replies,   *)
(* tabs, calls, conversations, messages, fetches and losses.               *)
(***************************************************************************)
EXTENDS Outbox, ClientAuth, MessagePane, ConversationList,
        FiniteSetTheorems, NaturalsInduction, WellFoundedInduction, SequenceTheorems, TLAPS

-----------------------------------------------------------------------------
\* The outbox.

FlushRecord ==
  [pc : {"idle", "next", "posted"}, todo : SUBSET Reply, reply : SUBSET Reply, ok : BOOLEAN]

OutboxTypeOK ==
  /\ stage \in [Reply -> {"draft", "posting", "posted", "filed"}]
  /\ sent \in [Reply -> Nat]
  /\ outbox \subseteq Reply /\ deleting \subseteq Reply /\ replayed \subseteq Reply
  /\ flush \in [Flush -> FlushRecord]
  /\ \A f \in Flush : /\ flush[f].pc = "idle" => flush[f] = NoFlush
                      /\ flush[f].pc # "posted" => flush[f].reply = {} /\ flush[f].ok = FALSE

\* A reply is posted by the page once, or filed and then handled by flushes.
StagesInv ==
  /\ \A i \in Reply :
       /\ stage[i] \in {"draft", "posting"} => sent[i] = 0
       /\ stage[i] = "posted" => sent[i] = 1
  /\ \A i \in outbox : stage[i] = "filed"
  /\ \A f \in Flush : \A i \in InHand(f) : stage[i] = "filed"
  /\ \A i \in deleting : sent[i] > 0
  /\ \A f \in Flush : \A i \in Accepted(f) : sent[i] > 0

\* No two flushes work on a reply that nothing went wrong with, ...
AloneInv ==
  \A i \in Reply \ replayed : \A f, g \in Flush : i \in InHand(f) /\ i \in InHand(g) => f = g

\* ... and it is not posted again: once accepted it is on its way out.
LeavingInv ==
  \A i \in Reply \ replayed :
    /\ \A f \in Flush : i \in flush[f].todo => sent[i] = 0
    /\ sent[i] > 0 /\ i \in outbox => i \in deleting \/ \E f \in Flush : i \in Accepted(f)

OutboxInv == OutboxTypeOK /\ StagesInv /\ AloneInv /\ LeavingInv /\ RepliesDelivered

LEMMA OutboxInitially == OutboxInit => OutboxInv
  BY DEF OutboxInit, OutboxInv, OutboxTypeOK, StagesInv, AloneInv, LeavingInv, RepliesDelivered,
         NoReplyDropped, TwiceNeedsOverlap, NoFlush, FlushRecord, InHand, Accepted

\* What the answer to a reply does.
LEMMA AnswerFacts ==
  ASSUME OutboxInv, NEW i \in Reply, Answered(i)
  PROVE  /\ stage[i] = "posting" /\ sent[i] = 0 /\ UNCHANGED <<expired, deleting, flush>>
         /\ i \notin outbox
         /\ \A j \in Reply \ {i} : stage'[j] = stage[j] /\ sent'[j] = sent[j]
         /\ stage' \in [Reply -> {"draft", "posting", "posted", "filed"}]
         /\ sent' \in [Reply -> Nat]
         /\ \/ /\ stage'[i] = "posted" /\ sent'[i] = 1
               /\ UNCHANGED <<outbox, replayed>>
            \/ /\ stage'[i] = "filed" /\ outbox' = outbox \cup {i}
               /\ \/ sent'[i] = 1 /\ replayed' = replayed \cup {i}
                  \/ sent'[i] = 0 /\ replayed' = replayed
<1> USE DEF OutboxInv, OutboxTypeOK, StagesInv
<1>1. stage[i] = "posting" /\ sent[i] = 0 /\ i \notin outbox
  BY DEF Answered
<1>2. CASE /\ stage' = [stage EXCEPT ![i] = "posted"]
           /\ sent' = [sent EXCEPT ![i] = @ + 1]
           /\ UNCHANGED <<outbox, replayed>>
  BY <1>1, <1>2 DEF Answered
<1>3. ASSUME NEW accepted \in BOOLEAN,
             /\ stage' = [stage EXCEPT ![i] = "filed"]
             /\ sent' = [sent EXCEPT ![i] = IF accepted THEN @ + 1 ELSE @]
             /\ replayed' = IF accepted THEN replayed \cup {i} ELSE replayed
             /\ outbox' = outbox \cup {i}
      PROVE  /\ \A j \in Reply \ {i} : stage'[j] = stage[j] /\ sent'[j] = sent[j]
             /\ stage' \in [Reply -> {"draft", "posting", "posted", "filed"}]
             /\ sent' \in [Reply -> Nat]
             /\ stage'[i] = "filed" /\ outbox' = outbox \cup {i}
             /\ \/ sent'[i] = 1 /\ replayed' = replayed \cup {i}
                \/ sent'[i] = 0 /\ replayed' = replayed
  <2>1. CASE accepted
    BY <1>1, <1>3, <2>1
  <2>2. CASE ~accepted
    BY <1>1, <1>3, <2>2
  <2> QED
    BY <2>1, <2>2
<1>4. UNCHANGED <<expired, deleting, flush>>
  BY DEF Answered
<1> QED
  BY <1>1, <1>2, <1>3, <1>4 DEF Answered

\* Types, for every action.
LEMMA OutboxTyped == OutboxInv /\ [OutboxNext]_outboxVars => OutboxTypeOK'
<1> SUFFICES ASSUME OutboxInv, [OutboxNext]_outboxVars PROVE OutboxTypeOK'
  OBVIOUS
<1> USE DEF OutboxInv, OutboxTypeOK, FlushRecord, NoFlush
<1>1. ASSUME NEW i \in Reply, PostReply(i) \/ HeadersExpire(i) \/ CommitDelete(i)
      PROVE  OutboxTypeOK'
  BY <1>1 DEF PostReply, HeadersExpire, CommitDelete
<1>8. ASSUME NEW i \in Reply, Answered(i) PROVE OutboxTypeOK'
  <2>1. /\ UNCHANGED <<deleting, flush>>
        /\ stage' \in [Reply -> {"draft", "posting", "posted", "filed"}] /\ sent' \in [Reply -> Nat]
        /\ outbox' \in {outbox, outbox \cup {i}} /\ replayed' \in {replayed, replayed \cup {i}}
    BY <1>8, AnswerFacts
  <2> QED
    BY <2>1
<1>2. ASSUME NEW i \in Reply, NEW f \in Flush, Replay(f, i) PROVE OutboxTypeOK'
  BY <1>2 DEF Replay
<1>3. ASSUME NEW f \in Flush, Snapshot(f) PROVE OutboxTypeOK'
  BY <1>3 DEF Snapshot, InHand
<1>4. ASSUME NEW f \in Flush, Respond(f) PROVE OutboxTypeOK'
  <2>1. [flush[f] EXCEPT !.pc = "next", !.reply = {}, !.ok = FALSE] \in FlushRecord
    OBVIOUS
  <2> QED
    BY <1>4, <2>1 DEF Respond
<1>5. ASSUME NEW f \in Flush, Offline(f) PROVE OutboxTypeOK'
  BY <1>5 DEF Offline, Accepted
<1>6. ASSUME WorkerDies PROVE OutboxTypeOK'
  BY <1>6 DEF WorkerDies, Accepted
<1>7. ASSUME UNCHANGED outboxVars PROVE OutboxTypeOK'
  BY <1>7 DEF outboxVars
<1> QED
  BY <1>1, <1>2, <1>3, <1>4, <1>5, <1>6, <1>7, <1>8 DEF OutboxNext

LEMMA RepliesHold ==
  OutboxInv /\ [OutboxNext]_outboxVars =>
    StagesInv' /\ AloneInv' /\ LeavingInv' /\ RepliesDelivered'
<1> SUFFICES ASSUME OutboxInv, [OutboxNext]_outboxVars
             PROVE  StagesInv' /\ AloneInv' /\ LeavingInv' /\ RepliesDelivered'
  OBVIOUS
<1>t. OutboxTypeOK /\ OutboxTypeOK'
  BY OutboxTyped DEF OutboxInv
<1> USE DEF OutboxInv, StagesInv, AloneInv, LeavingInv, RepliesDelivered,
            NoReplyDropped, TwiceNeedsOverlap, InHand, Accepted, OutboxTypeOK
<1>1. ASSUME NEW i \in Reply, PostReply(i)
      PROVE  StagesInv' /\ AloneInv' /\ LeavingInv' /\ RepliesDelivered'
  BY <1>1, <1>t DEF PostReply
<1>2. ASSUME NEW i \in Reply, Answered(i)
      PROVE  StagesInv' /\ AloneInv' /\ LeavingInv' /\ RepliesDelivered'
  <2>0. /\ stage[i] = "posting" /\ sent[i] = 0 /\ UNCHANGED <<deleting, flush>>
        /\ i \notin outbox
        /\ \A j \in Reply \ {i} : stage'[j] = stage[j] /\ sent'[j] = sent[j]
    BY <1>2, AnswerFacts
  <2>h. \A f \in Flush : i \notin flush[f].todo /\ i \notin flush[f].reply
    BY <2>0
  <2>d. i \notin deleting
    BY <2>0
  <2>1. \/ /\ stage'[i] = "posted" /\ sent'[i] = 1
           /\ outbox' = outbox /\ replayed' = replayed
        \/ /\ stage'[i] = "filed" /\ outbox' = outbox \cup {i}
           /\ \/ sent'[i] = 1 /\ replayed' = replayed \cup {i}
              \/ sent'[i] = 0 /\ replayed' = replayed
    BY <1>2, AnswerFacts
  <2>2. StagesInv'
    <3>1. \A j \in Reply :
            /\ stage'[j] \in {"draft", "posting"} => sent'[j] = 0
            /\ stage'[j] = "posted" => sent'[j] = 1
      BY <2>0, <2>1
    <3>2. \A j \in outbox' : stage'[j] = "filed"
      BY <1>t, <2>0, <2>1
    <3>3. \A f \in Flush : \A j \in InHand(f) : stage'[j] = "filed"
      <4>1. ASSUME NEW f \in Flush, NEW j \in InHand(f) PROVE stage'[j] = "filed"
        <5>1. j \in Reply /\ j # i /\ stage[j] = "filed"
          BY <4>1, <1>t, <2>0, <2>h DEF FlushRecord
        <5> QED
          BY <5>1, <2>0
      <4> QED
        BY <4>1
    <3>4. \A j \in deleting' : sent'[j] > 0
      BY <1>t, <2>0, <2>d, <2>1
    <3>5. \A f \in Flush : \A j \in Accepted(f) : sent'[j] > 0
      <4>1. ASSUME NEW f \in Flush, NEW j \in Accepted(f) PROVE sent'[j] > 0
        <5>2. j \in Reply /\ j # i /\ sent[j] > 0
          BY <4>1, <1>t, <2>h DEF FlushRecord
        <5> QED
          BY <5>2, <2>0
      <4> QED
        BY <4>1
    <3> QED
      BY <2>0, <3>1, <3>2, <3>3, <3>4, <3>5
  <2>3. AloneInv'
    BY <1>t, <2>0, <2>1
  <2>4. LeavingInv'
    <3>1. ASSUME NEW j \in Reply \ replayed', j # i
          PROVE  /\ \A f \in Flush : j \in flush'[f].todo => sent'[j] = 0
                 /\ sent'[j] > 0 /\ j \in outbox' =>
                      j \in deleting' \/ \E f \in Flush : j \in Accepted(f)'
      BY <3>1, <1>t, <2>0, <2>1
    <3>2. i \notin replayed' => ~(sent'[i] > 0 /\ i \in outbox')
      BY <1>t, <2>0, <2>1
    <3> QED
      BY <2>0, <2>h, <3>1, <3>2
  <2>5. RepliesDelivered'
    BY <1>t, <2>0, <2>1
  <2> QED
    BY <2>2, <2>3, <2>4, <2>5
<1>3. ASSUME NEW i \in Reply, HeadersExpire(i) \/ CommitDelete(i)
      PROVE  StagesInv' /\ AloneInv' /\ LeavingInv' /\ RepliesDelivered'
  BY <1>3, <1>t DEF HeadersExpire, CommitDelete
<1>4. ASSUME NEW i \in Reply, NEW f \in Flush, Replay(f, i)
      PROVE  StagesInv' /\ AloneInv' /\ LeavingInv' /\ RepliesDelivered'
  BY <1>4, <1>t DEF Replay, FlushRecord
<1>5. ASSUME NEW f \in Flush, Snapshot(f)
      PROVE  StagesInv' /\ AloneInv' /\ LeavingInv' /\ RepliesDelivered'
  BY <1>5, <1>t DEF Snapshot, NoFlush, FlushRecord
<1>6. ASSUME NEW f \in Flush, Respond(f)
      PROVE  StagesInv' /\ AloneInv' /\ LeavingInv' /\ RepliesDelivered'
  BY <1>6, <1>t DEF Respond, Deletes, NoFlush, FlushRecord
<1>7. ASSUME NEW f \in Flush, Offline(f)
      PROVE  StagesInv' /\ AloneInv' /\ LeavingInv' /\ RepliesDelivered'
  BY <1>7, <1>t DEF Offline, NoFlush, FlushRecord
<1>8. ASSUME WorkerDies
      PROVE  StagesInv' /\ AloneInv' /\ LeavingInv' /\ RepliesDelivered'
  BY <1>8, <1>t DEF WorkerDies, NoFlush
<1>9. ASSUME UNCHANGED outboxVars
      PROVE  StagesInv' /\ AloneInv' /\ LeavingInv' /\ RepliesDelivered'
  BY <1>9 DEF outboxVars
<1> QED
  BY <1>1, <1>2, <1>3, <1>4, <1>5, <1>6, <1>7, <1>8, <1>9 DEF OutboxNext

\* No reply is dropped, and none delivered twice without a loss or an overlap
\* to explain it (handleReply, flushOutbox).
THEOREM RepliesAreDelivered == OutboxSpec => []RepliesDelivered
<1>1. OutboxInv /\ [OutboxNext]_outboxVars => OutboxInv'
  BY OutboxTyped, RepliesHold DEF OutboxInv
<1>2. OutboxInv => RepliesDelivered
  BY DEF OutboxInv
<1> QED
  BY <1>1, <1>2, OutboxInitially, PTL DEF OutboxSpec

-----------------------------------------------------------------------------
\* The refresh cookie.

Cookied == {"refresh", "boot", "login", "switch", "join"}

TokenRecord == [space : Space, family : Nat, revoked : BOOLEAN]

OpRecord ==
  [pc : {"idle", "sent", "served", "me"}, kind : Cookied \cup {"create", "none"},
   tab : Tab \cup {NoTab}, space : Space \cup {NoSpace}, presented : Nat, got : Nat]

\* Cookies, and tokens presented and got, exist.
AuthTypeOK ==
  /\ tokens \in Seq(TokenRecord)
  /\ cookie \in 0..Len(tokens)
  /\ excused \in BOOLEAN /\ ended \subseteq Nat
  /\ op \in [Op -> OpRecord]
  /\ \A o \in Op :
       /\ op[o].presented <= Len(tokens) /\ op[o].got <= Len(tokens)
       /\ op[o].pc = "idle" <=> op[o].kind = "none"
       /\ op[o].kind \in {"login", "switch", "join", "create"} => op[o].space \in Space
       /\ op[o].kind \in {"create", "none"} => op[o].presented = 0

Using(o) == op[o].pc \in {"sent", "served"} /\ op[o].kind \in Cookied

\* Unless something excuses it, one request at a time uses the cookie; what it
\* presented is the cookie of now, and what it got is live or was taken away,
\* if not nothing, for no cookie or one that was taken away.
SingleFlight ==
  ~excused =>
    /\ \A o, x \in Op : Using(o) /\ Using(x) => o = x
    /\ \A o \in Op : Using(o) => op[o].presented = cookie
    /\ \A o \in Op : op[o].pc = "served" /\ op[o].kind \in Cookied =>
         IF op[o].got > 0 THEN ~tokens[op[o].got].revoked \/ op[o].got \in ended
                          ELSE cookie = 0 \/ cookie \in ended

AuthInv == AuthTypeOK /\ SingleFlight /\ CookieIsLive

LEMMA AuthInitially == AuthInit => AuthInv
<1> SUFFICES ASSUME AuthInit PROVE AuthInv
  OBVIOUS
<1>1. <<>> \in Seq(TokenRecord) /\ Len(<<>>) = 0
  BY EmptySeq
<1>2. /\ tokens \in Seq(TokenRecord) /\ Len(tokens) = 0 /\ cookie = 0 /\ excused = FALSE
      /\ ended = {}
  BY <1>1 DEF AuthInit
<1>3. NoOp \in OpRecord /\ \A o \in Op : op[o] = NoOp
  BY DEF AuthInit, NoOp, OpRecord, Cookied
<1>4. op \in [Op -> OpRecord]
  BY <1>3 DEF AuthInit
<1>6. \A o \in Op :
        /\ op[o].pc = "idle" /\ op[o].kind = "none"
        /\ op[o].presented = 0 /\ op[o].got = 0
  BY <1>3 DEF NoOp
<1>7. excused \in BOOLEAN
  BY <1>2, Zenon
<1>5. AuthTypeOK
  BY <1>2, <1>4, <1>6, <1>7 DEF AuthTypeOK
<1> QED
  BY <1>2, <1>3, <1>5 DEF AuthInv, SingleFlight, CookieIsLive, NoOp, Using

\* Revoking tokens changes nothing else about them.
LEMMA RevokeFacts ==
  ASSUME AuthTypeOK, NEW S
  PROVE  /\ RevokeTokens(S) \in Seq(TokenRecord) /\ Len(RevokeTokens(S)) = Len(tokens)
         /\ Len(tokens) \in Nat
         /\ \A i \in 1..Len(tokens) :
              /\ tokens[i] \in TokenRecord
              /\ RevokeTokens(S)[i].revoked <=> tokens[i].revoked \/ i \in S
<1>1. tokens \in Seq(TokenRecord) /\ Len(tokens) \in Nat
  BY LenProperties DEF AuthTypeOK
<1>2. ASSUME NEW i \in 1..Len(tokens)
      PROVE  /\ tokens[i] \in TokenRecord
             /\ RevokeTokens(S)[i] \in TokenRecord
             /\ RevokeTokens(S)[i].revoked <=> tokens[i].revoked \/ i \in S
  <2>1. tokens[i] \in TokenRecord
    BY <1>1, ElementOfSeq
  <2>2. RevokeTokens(S)[i] = IF i \in S THEN [tokens[i] EXCEPT !.revoked = TRUE] ELSE tokens[i]
    BY DEF RevokeTokens
  <2> QED
    BY <2>1, <2>2 DEF TokenRecord
<1>3. RevokeTokens(S) \in [1..Len(tokens) -> TokenRecord]
  BY <1>2 DEF RevokeTokens
<1>4. RevokeTokens(S) \in Seq(TokenRecord) /\ Len(RevokeTokens(S)) = Len(tokens)
  BY <1>1, <1>3
<1> QED
  BY <1>1, <1>2, <1>4

\* One more token at the end.
LEMMA IssueFacts ==
  ASSUME NEW s \in Seq(TokenRecord), NEW t \in TokenRecord
  PROVE  /\ Append(s, t) \in Seq(TokenRecord) /\ Len(s) \in Nat
         /\ Len(Append(s, t)) = Len(s) + 1
         /\ Append(s, t)[Len(s) + 1] = t
         /\ \A i \in 1..Len(s) : Append(s, t)[i] = s[i]
  BY AppendProperties, LenProperties

\* A request goes out.
LEMMA SendHolds ==
  ASSUME AuthInv, NEW o \in Op, NEW t \in Tab, NEW kind \in Cookied \cup {"create"},
         NEW w \in Space \cup {NoSpace}, Send(o, t, kind, w),
         kind \in {"login", "switch", "join", "create"} => w \in Space,
         kind = "refresh" => MayRefresh(t)
  PROVE  AuthInv'
<1> DEFINE new == [NoOp EXCEPT !.pc = "sent", !.kind = kind, !.tab = t, !.space = w,
                               !.presented = IF WithCookie(kind) THEN cookie ELSE 0]
<1>1. /\ op[o].pc = "idle" /\ op' = [op EXCEPT ![o] = new]
      /\ UNCHANGED <<tokens, cookie, access, shown, ended>>
      /\ excused' = (excused \/ Overlaps(t, kind))
  BY DEF Send
<1>2. AuthTypeOK /\ SingleFlight /\ CookieIsLive /\ Len(tokens) \in Nat
  BY LenProperties DEF AuthInv, AuthTypeOK
<1>3. /\ new \in OpRecord /\ new.pc = "sent" /\ new.kind = kind /\ new.tab = t /\ new.space = w
      /\ new.presented = (IF kind \in Cookied THEN cookie ELSE 0) /\ new.got = 0
  <2>1. WithCookie(kind) = (kind \in Cookied)
    BY DEF WithCookie, Cookied
  <2>2. cookie \in Nat /\ NoOp \in OpRecord
    BY <1>2 DEF AuthTypeOK, NoOp, OpRecord, Cookied
  <2>3. new \in OpRecord
    BY <2>2 DEF OpRecord
  <2>4. /\ new.pc = "sent" /\ new.kind = kind /\ new.tab = t /\ new.space = w
        /\ new.presented = (IF WithCookie(kind) THEN cookie ELSE 0) /\ new.got = 0
    BY DEF NoOp
  <2> QED
    BY <2>1, <2>3, <2>4
<1> HIDE DEF new
<1>4. op' \in [Op -> OpRecord] /\ op'[o] = new /\ \A x \in Op \ {o} : op'[x] = op[x]
  BY <1>1, <1>2, <1>3 DEF AuthTypeOK
<1>5. AuthTypeOK'
  <2>1. excused' \in BOOLEAN
    BY <1>1
  <2>2. /\ new.presented <= Len(tokens) /\ new.got <= Len(tokens)
        /\ new.kind # "none"
        /\ new.kind \in {"login", "switch", "join", "create"} => new.space \in Space
        /\ new.kind = "create" => new.presented = 0
    BY <1>2, <1>3 DEF AuthTypeOK, Cookied
  <2> QED
    BY <1>1, <1>2, <1>3, <1>4, <2>1, <2>2 DEF AuthTypeOK
<1>6. ASSUME ~excused', kind \in Cookied, NEW x \in Op, x # o, Using(x) PROVE FALSE
  <2>1. WithCookie(kind) /\ WithCookie(op[x].kind)
    BY <1>6 DEF WithCookie, Using, Cookied
  <2>2. kind = "refresh" /\ op[x].kind = "refresh" /\ op[x].tab = t
    BY <1>1, <1>6, <2>1 DEF Overlaps, Using
  <2> QED
    BY <2>2 DEF MayRefresh, Refreshing
<1>7. SingleFlight'
  BY <1>1, <1>2, <1>3, <1>4, <1>6 DEF SingleFlight, Using
<1>8. CookieIsLive'
  BY <1>1, <1>2, <1>4 DEF CookieIsLive
<1> QED
  BY <1>5, <1>7, <1>8 DEF AuthInv

\* What the server does to a request: the cookie stays as it is.
LEMMA AnswerHolds ==
  ASSUME AuthInv, NEW o \in Op, op[o].pc = "sent", NEW got \in Nat, Answers(o, got),
         UNCHANGED <<cookie, access, shown, excused>>,
         tokens' \in Seq(TokenRecord), Len(tokens') \in Nat, Len(tokens) <= Len(tokens'),
         got <= Len(tokens'),
         \* Nothing is revoked without a token, none is given out revoked, and
         \* one that nothing takes away gets another.
         \A i \in 1..Len(tokens) :
           tokens'[i].revoked => tokens[i].revoked \/ op[o].presented # 0 \/ excused,
         got > 0 => ~tokens'[got].revoked,
         got = 0 => op[o].presented = 0 \/ excused \/ op[o].presented \in ended',
         ended \subseteq ended', ended' \subseteq Nat
  PROVE  AuthInv'
<1> DEFINE new == [op[o] EXCEPT !.pc = "served", !.got = got]
<1>1. AuthTypeOK /\ SingleFlight /\ CookieIsLive /\ Len(tokens) \in Nat
  BY LenProperties DEF AuthInv, AuthTypeOK
<1>2. op' = [op EXCEPT ![o] = new]
  BY DEF Answers
<1>3. /\ new \in OpRecord /\ new.pc = "served" /\ new.got = got /\ new.kind = op[o].kind
      /\ new.space = op[o].space /\ new.presented = op[o].presented
  BY <1>1 DEF AuthTypeOK, OpRecord
<1> HIDE DEF new
<1>4. op' \in [Op -> OpRecord] /\ op'[o] = new /\ \A x \in Op \ {o} : op'[x] = op[x]
  BY <1>1, <1>2, <1>3 DEF AuthTypeOK
<1>5. AuthTypeOK'
  <2>1. \A x \in Op : op[x].presented \in Nat /\ op[x].got \in Nat
    BY <1>1 DEF AuthTypeOK, OpRecord
  <2>2. \A x \in Op : op'[x].presented <= Len(tokens') /\ op'[x].got <= Len(tokens')
    BY <1>1, <1>3, <1>4, <2>1 DEF AuthTypeOK
  <2>3. cookie' \in 0..Len(tokens')
    BY <1>1 DEF AuthTypeOK
  <2> QED
    BY <1>1, <1>3, <1>4, <2>2, <2>3 DEF AuthTypeOK
<1>6. ASSUME ~excused, NEW x \in Op, Using(x)', NEW y \in Op, Using(y)' PROVE x = y
  BY <1>1, <1>3, <1>4, <1>6 DEF SingleFlight, Using
<1>7. ASSUME ~excused, NEW x \in Op, Using(x)' PROVE op'[x].presented = cookie'
  BY <1>1, <1>3, <1>4, <1>7 DEF SingleFlight, Using
<1>8. ASSUME ~excused, NEW x \in Op, op'[x].pc = "served", op'[x].kind \in Cookied
      PROVE  IF op'[x].got > 0 THEN ~tokens'[op'[x].got].revoked \/ op'[x].got \in ended'
                               ELSE cookie' = 0 \/ cookie' \in ended'
  <2>1. CASE x = o
    <3>1. op[o].presented = cookie
      BY <1>1, <1>3, <1>4, <1>8, <2>1 DEF SingleFlight, Using
    <3> QED
      BY <1>3, <1>4, <1>8, <2>1, <3>1
  <2>2. CASE x # o
    <3>1. op[x].pc = "served" /\ op[x].kind \in Cookied /\ op'[x].got = op[x].got
      BY <1>4, <1>8, <2>2
    <3>2. op[o].kind = "create"
      BY <1>1, <1>8, <2>2, <3>1 DEF SingleFlight, Using, AuthTypeOK, OpRecord
    <3>3. op[o].presented = 0
      BY <1>1, <3>2 DEF AuthTypeOK
    <3>4. op[x].got \in Nat /\ op[x].got <= Len(tokens)
      BY <1>1 DEF AuthTypeOK, OpRecord
    <3>5. IF op[x].got > 0 THEN ~tokens[op[x].got].revoked \/ op[x].got \in ended
                           ELSE cookie = 0 \/ cookie \in ended
      BY <1>1, <1>8, <3>1 DEF SingleFlight
    <3>6. op[x].got > 0 => op[x].got \in 1..Len(tokens)
      BY <1>1, <3>4
    <3> QED
      BY <1>8, <3>1, <3>3, <3>5, <3>6
  <2> QED
    BY <2>1, <2>2
<1>9. SingleFlight'
  BY <1>6, <1>7, <1>8 DEF SingleFlight
<1>10. CookieIsLive'
  <2> SUFFICES ASSUME cookie > 0, tokens'[cookie].revoked, ~excused, cookie \notin ended'
               PROVE  \E x \in Op : op'[x].pc = "served" /\ op'[x].presented = cookie
    BY DEF CookieIsLive
  <2>1. cookie \in 1..Len(tokens)
    BY <1>1 DEF AuthTypeOK
  <2>2. CASE op[o].presented = cookie
    BY <1>3, <1>4, <2>2
  <2>3. CASE tokens[cookie].revoked /\ op[o].presented # cookie
    <3>1. PICK x \in Op : op[x].pc = "served" /\ op[x].presented = cookie
      BY <1>1, <2>3 DEF CookieIsLive
    <3> QED
      BY <1>4, <3>1
  <2>4. op[o].presented # 0 => op[o].presented = cookie
    <3>1. op[o].presented # 0 => Using(o)
      BY <1>1 DEF Using, AuthTypeOK, OpRecord
    <3> QED
      BY <1>1, <3>1 DEF SingleFlight
  <2> QED
    BY <2>1, <2>2, <2>3, <2>4
<1> QED
  BY <1>5, <1>9, <1>10 DEF AuthInv

\* The server's part: a rotation, a refusal, or a session of its own.
LEMMA ServerHolds ==
  ASSUME AuthInv, NEW o \in Op, Rotate(o) \/ IssueSession(o)
  PROVE  AuthInv'
<1> DEFINE i == op[o].presented
<1>1. AuthTypeOK /\ SingleFlight /\ CookieIsLive /\ Len(tokens) \in Nat /\ op[o] \in OpRecord
  BY LenProperties DEF AuthInv, AuthTypeOK
<1>2. op[o].pc = "sent" /\ UNCHANGED <<cookie, access, shown, excused>> /\ i \in 0..Len(tokens)
  BY <1>1 DEF Rotate, IssueSession, AuthTypeOK, OpRecord
<1>3. CASE Rotate(o) /\ i > 0 /\ ~tokens[i].revoked
  <2> DEFINE next == IF op[o].kind = "switch" THEN op[o].space ELSE tokens[i].space
             old == RevokeTokens({i})  new == [tokens[i] EXCEPT !.space = next]
  <2>1. /\ tokens' = Append(old, new) /\ Len(tokens) < MaxTokens
        /\ \/ Answers(o, Fresh) /\ ended' = ended
           \/ Answers(o, 0) /\ ended' = ended \cup {i}
    <3>1. i # 0
      BY <1>3
    <3> QED
      BY <1>3, <3>1, Zenon DEF Rotate
  <2>2. /\ old \in Seq(TokenRecord) /\ Len(old) = Len(tokens)
        /\ \A j \in 1..Len(tokens) : old[j].revoked <=> tokens[j].revoked \/ j \in {i}
        /\ tokens[i] \in TokenRecord
    BY <1>1, <1>2, <1>3, RevokeFacts
  <2>3. new \in TokenRecord /\ new.revoked = FALSE
    BY <1>1, <1>3, <2>2 DEF TokenRecord, AuthTypeOK
  <2> HIDE DEF old, new, i
  <2>4. /\ tokens' \in Seq(TokenRecord) /\ Len(tokens') = Len(tokens) + 1
        /\ tokens'[Len(tokens) + 1] = new
        /\ \A j \in 1..Len(tokens) : tokens'[j] = old[j]
    BY <2>1, <2>2, <2>3, IssueFacts
  <2>5. \A j \in 1..Len(tokens) : tokens'[j].revoked => tokens[j].revoked \/ op[o].presented # 0
    BY <1>1, <1>3, <2>2, <2>4 DEF i
  <2>6. ended \subseteq Nat /\ i \in Nat
    BY <1>1, <1>2 DEF AuthTypeOK
  <2>7. CASE Answers(o, Fresh) /\ ended' = ended
    BY <1>1, <1>2, <2>3, <2>4, <2>5, <2>6, <2>7, AnswerHolds DEF Fresh
  <2>8. CASE Answers(o, 0) /\ ended' = ended \cup {i}
    <3>2. op[o].presented \in ended' /\ ended \subseteq ended' /\ ended' \subseteq Nat
      BY <2>6, <2>8 DEF i
    <3>1. /\ op[o].presented \in ended' /\ ended \subseteq ended' /\ ended' \subseteq Nat
          /\ 0 \in Nat /\ 0 <= Len(tokens') /\ Len(tokens) <= Len(tokens') /\ ~(0 > 0)
          /\ Len(tokens') \in Nat
      BY <1>1, <2>4, <3>2
    <3> QED
      BY <1>1, <1>2, <2>4, <2>5, <2>8, <3>1, AnswerHolds
  <2> QED
    BY <2>1, <2>7, <2>8
<1>4. CASE Rotate(o) /\ i > 0 /\ tokens[i].revoked
  <2>1. tokens' = RevokeTokens(FamilyOf(i)) /\ Answers(o, 0) /\ ended' = ended
    BY <1>4 DEF Rotate
  <2>2. /\ tokens' \in Seq(TokenRecord) /\ Len(tokens') = Len(tokens)
    BY <1>1, <2>1, RevokeFacts
  <2>3. excused \/ i \in ended
    <3>1. SUFFICES ASSUME ~excused, i \notin ended PROVE FALSE
      OBVIOUS
    <3>2. Using(o)
      BY <1>1, <1>2, <1>4 DEF Using, AuthTypeOK, OpRecord
    <3>3. i = cookie
      BY <1>1, <3>1, <3>2 DEF SingleFlight
    <3>4. PICK x \in Op : op[x].pc = "served" /\ op[x].presented = cookie
      BY <1>1, <1>4, <3>1, <3>3 DEF CookieIsLive
    <3>5. Using(x)
      BY <1>1, <1>4, <3>3, <3>4 DEF Using, AuthTypeOK, OpRecord
    <3> QED
      BY <1>1, <1>2, <3>1, <3>2, <3>4, <3>5 DEF SingleFlight
  <2>4. ended \subseteq Nat /\ i # 0
    BY <1>1, <1>4 DEF AuthTypeOK
  <2>5. /\ ended \subseteq ended' /\ ended' \subseteq Nat /\ (excused \/ op[o].presented \in ended')
        /\ 0 \in Nat /\ 0 <= Len(tokens') /\ Len(tokens) <= Len(tokens') /\ ~(0 > 0)
        /\ Len(tokens') \in Nat
    BY <1>1, <2>1, <2>2, <2>3, <2>4
  <2> QED
    BY <1>1, <1>2, <2>1, <2>2, <2>4, <2>5, AnswerHolds
<1>5. CASE Rotate(o) /\ i = 0
  <2>1. Answers(o, 0) /\ UNCHANGED <<tokens, ended>>
    BY <1>5 DEF Rotate
  <2> QED
    BY <1>1, <1>2, <1>5, <2>1, AnswerHolds DEF AuthTypeOK
<1>6. CASE IssueSession(o)
  <2> DEFINE new == [space |-> op[o].space, family |-> Fresh, revoked |-> FALSE]
  <2>1. /\ tokens' = Append(tokens, new) /\ Answers(o, Fresh) /\ Len(tokens) < MaxTokens
        /\ ended' = ended /\ ended \subseteq Nat
    BY <1>1, <1>6 DEF IssueSession, AuthTypeOK
  <2>2. new \in TokenRecord /\ new.revoked = FALSE /\ tokens \in Seq(TokenRecord)
    BY <1>1, <1>6 DEF IssueSession, AuthTypeOK, TokenRecord, Fresh
  <2> HIDE DEF new
  <2>3. /\ tokens' \in Seq(TokenRecord) /\ Len(tokens') = Len(tokens) + 1
        /\ tokens'[Len(tokens) + 1] = new
        /\ \A j \in 1..Len(tokens) : tokens'[j] = tokens[j]
    BY <2>1, <2>2, IssueFacts
  <2> QED
    BY <1>1, <1>2, <2>1, <2>2, <2>3, AnswerHolds DEF Fresh
<1> QED
  BY <1>2, <1>3, <1>4, <1>5, <1>6 DEF Rotate

\* A request ends, with or without a new cookie, or goes on without one.
LEMMA EndHolds ==
  ASSUME AuthInv, NEW o \in Op, UNCHANGED <<tokens, ended>>, excused' \in BOOLEAN, excused => excused',
         op'[o] = NoOp \/ (op'[o] = [op[o] EXCEPT !.pc = "me"] /\ op[o].pc # "idle"),
         op' = [op EXCEPT ![o] = op'[o]],
         \/ /\ op[o].pc = "served"
            /\ \/ op[o].got > 0 /\ op[o].kind \in Cookied /\ cookie' = op[o].got
               \/ (op[o].got = 0 \/ op[o].kind = "create") /\ cookie' = cookie
         \/ op[o].pc = "me" /\ cookie' = cookie
         \/ op[o].pc = "sent" /\ cookie' = cookie
         \/ op[o].pc = "served" /\ cookie' = cookie /\ (op[o].kind \in Cookied => excused')
  PROVE  AuthInv'
<1>1. AuthTypeOK /\ SingleFlight /\ CookieIsLive /\ Len(tokens) \in Nat /\ op[o] \in OpRecord
  BY LenProperties DEF AuthInv, AuthTypeOK
<1>2. /\ op'[o] \in OpRecord /\ op'[o].pc \notin {"sent", "served"}
      /\ op'[o].presented <= Len(tokens) /\ op'[o].got <= Len(tokens)
      /\ op'[o].pc = "idle" <=> op'[o].kind = "none"
      /\ op'[o].kind \in {"login", "switch", "join", "create"} => op'[o].space \in Space
      /\ op'[o].kind \in {"create", "none"} => op'[o].presented = 0
  <2>1. CASE op'[o] = NoOp
    BY <1>1, <2>1 DEF NoOp, OpRecord
  <2>2. CASE op'[o] = [op[o] EXCEPT !.pc = "me"] /\ op[o].pc # "idle"
    <3>1. /\ op'[o] \in OpRecord /\ op'[o].pc = "me" /\ op'[o].kind = op[o].kind
          /\ op'[o].space = op[o].space /\ op'[o].presented = op[o].presented
          /\ op'[o].got = op[o].got
      BY <1>1, <2>2 DEF OpRecord
    <3> QED
      BY <1>1, <2>2, <3>1 DEF AuthTypeOK
  <2> QED
    BY <2>1, <2>2
<1>3. op' \in [Op -> OpRecord] /\ \A x \in Op \ {o} : op'[x] = op[x]
  BY <1>1, <1>2 DEF AuthTypeOK
<1>4. cookie' \in 0..Len(tokens)
  BY <1>1 DEF AuthTypeOK, OpRecord
<1>5. AuthTypeOK'
  BY <1>1, <1>2, <1>3, <1>4 DEF AuthTypeOK
<1>6. ASSUME ~excused', cookie' # cookie, NEW x \in Op, Using(x)' PROVE FALSE
  BY <1>1, <1>2, <1>3, <1>6 DEF Using, SingleFlight
<1>7. SingleFlight'
  BY <1>1, <1>2, <1>3, <1>6 DEF Using, SingleFlight
<1>8. CookieIsLive'
  <2> SUFFICES ASSUME cookie' > 0, tokens[cookie'].revoked, ~excused', cookie' \notin ended
               PROVE  \E x \in Op : op'[x].pc = "served" /\ op'[x].presented = cookie'
    BY DEF CookieIsLive
  <2>1. cookie' = cookie
    BY <1>1 DEF SingleFlight
  <2>2. PICK x \in Op : op[x].pc = "served" /\ op[x].presented = cookie
    BY <1>1, <2>1 DEF CookieIsLive
  <2>3. op[x].kind \in Cookied
    BY <1>1, <2>1, <2>2 DEF AuthTypeOK, OpRecord
  <2>4. x # o
    BY <1>1, <2>1, <2>2, <2>3 DEF SingleFlight, Cookied
  <2> QED
    BY <1>3, <2>1, <2>2, <2>4
<1> QED
  BY <1>5, <1>7, <1>8 DEF AuthInv

\* Responses, their loss, and what follows them.
LEMMA ReturnHolds ==
  ASSUME AuthInv, NEW o \in Op, RefreshReturns(o) \/ Returns(o) \/ ApplyAuth(o) \/ Lost(o)
  PROVE  AuthInv'
<1>1. /\ op \in [Op -> OpRecord] /\ excused \in BOOLEAN /\ op[o] \in OpRecord
      /\ op[o].kind = "none" => op[o].pc = "idle"
  BY DEF AuthInv, AuthTypeOK
<1>2. WithCookie(op[o].kind) <=> op[o].kind \in Cookied \cup {"none"}
  BY <1>1 DEF WithCookie, Cookied, OpRecord
<1>3. CASE RefreshReturns(o)
  <2>1. /\ op' = [op EXCEPT ![o] = NoOp] /\ op'[o] = NoOp /\ op[o].pc = "served"
        /\ op[o].kind = "refresh" /\ UNCHANGED <<tokens, excused, ended>>
        /\ \/ op[o].got > 0 /\ cookie' = op[o].got
           \/ op[o].got = 0 /\ cookie' = cookie
    BY <1>1, <1>3 DEF RefreshReturns
  <2> QED
    BY <1>1, <2>1, EndHolds DEF Cookied
<1>4. CASE Returns(o)
  <2>1. /\ op[o].pc = "served" /\ UNCHANGED <<tokens, excused, ended>>
        /\ op' = [op EXCEPT ![o] = op'[o]]
        /\ op'[o] = NoOp \/ op'[o] = [op[o] EXCEPT !.pc = "me"]
    BY <1>1, <1>4 DEF Returns
  <2>2. \/ op[o].got > 0 /\ op[o].kind \in Cookied /\ cookie' = op[o].got
        \/ (op[o].got = 0 \/ op[o].kind = "create") /\ cookie' = cookie
    BY <1>1, <1>2, <1>4 DEF Returns, OpRecord
  <2> QED
    BY <1>1, <2>1, <2>2, EndHolds
<1>5. CASE ApplyAuth(o)
  <2>1. /\ op' = [op EXCEPT ![o] = NoOp] /\ op'[o] = NoOp /\ op[o].pc = "me"
        /\ UNCHANGED <<tokens, cookie, excused, ended>>
    BY <1>1, <1>5 DEF ApplyAuth
  <2> QED
    BY <1>1, <2>1, EndHolds
<1>6. CASE Lost(o)
  <2>1. /\ op' = [op EXCEPT ![o] = NoOp] /\ op'[o] = NoOp /\ op[o].pc \in {"sent", "served"}
        /\ excused' = (excused \/ (op[o].pc = "served" /\ WithCookie(op[o].kind)))
        /\ UNCHANGED <<tokens, cookie, ended>>
    BY <1>1, <1>6 DEF Lost
  <2>2. excused' \in BOOLEAN
    BY <2>1
  <2> QED
    BY <1>1, <1>2, <2>1, <2>2, EndHolds
<1> QED
  BY <1>3, <1>4, <1>5, <1>6

\* The last of the tab: no cookie is left.
LEMMA LogOutHolds ==
  ASSUME AuthInv, NEW t \in Tab, LogOut(t)
  PROVE  AuthInv'
<1>1. AuthTypeOK /\ SingleFlight /\ Len(tokens) \in Nat
  BY LenProperties DEF AuthInv, AuthTypeOK
<1>2. /\ tokens' \in Seq(TokenRecord) /\ Len(tokens') = Len(tokens) /\ cookie' = 0
      /\ UNCHANGED <<op, ended>>
      /\ excused' = (excused \/ \E o \in Op : op[o].pc \in {"sent", "served"})
  BY <1>1, RevokeFacts DEF LogOut, AuthTypeOK
<1>3. excused' \in BOOLEAN
  BY <1>2
<1>4. AuthTypeOK'
  BY <1>1, <1>2, <1>3 DEF AuthTypeOK
<1>5. SingleFlight'
  BY <1>1, <1>2 DEF SingleFlight, Using
<1> QED
  BY <1>2, <1>4, <1>5 DEF AuthInv, CookieIsLive

\* All sessions are revoked elsewhere: what the browser holds, or is about to
\* hold, is taken away.
LEMMA RevokeAllHolds ==
  ASSUME AuthInv, RevokeAll
  PROVE  AuthInv'
<1>1. AuthTypeOK /\ SingleFlight /\ CookieIsLive /\ Len(tokens) \in Nat
  BY LenProperties DEF AuthInv, AuthTypeOK
<1>2. /\ tokens' \in Seq(TokenRecord) /\ Len(tokens') = Len(tokens)
      /\ UNCHANGED <<cookie, access, shown, op, excused>>
      /\ ended' = ended \cup 1..Len(tokens)
  BY <1>1, RevokeFacts DEF RevokeAll
<1>3. /\ cookie \in 0..Len(tokens)
      /\ \A o \in Op : op[o].got \in Nat /\ op[o].got <= Len(tokens)
  BY <1>1 DEF AuthTypeOK, OpRecord
<1>0. \A n \in Nat : n > 0 /\ n <= Len(tokens) => n \in ended'
  BY <1>1, <1>2
<1>4. /\ cookie > 0 => cookie \in ended'
      /\ \A o \in Op : op[o].got > 0 => op[o].got \in ended'
  BY <1>0, <1>1, <1>3
<1>8. ended' \subseteq Nat
  <2>1. ended \subseteq Nat /\ \A n \in 1..Len(tokens) : n \in Nat
    BY <1>1 DEF AuthTypeOK
  <2>2. \A n \in ended' : n \in ended \/ n \in 1..Len(tokens)
    BY <1>2
  <2> QED
    BY <2>1, <2>2
<1>5. AuthTypeOK'
  <2>1. excused' \in BOOLEAN
    BY <1>1, <1>2 DEF AuthTypeOK
  <2> QED
    BY <1>1, <1>2, <1>8, <2>1 DEF AuthTypeOK
<1>6. SingleFlight'
  BY <1>1, <1>2, <1>3, <1>4 DEF SingleFlight, Using
<1>7. CookieIsLive'
  BY <1>2, <1>4 DEF CookieIsLive
<1> QED
  BY <1>5, <1>6, <1>7 DEF AuthInv

\* Every step preserves the invariant.
LEMMA AuthHolds == AuthInv /\ [AuthNext]_authVars => AuthInv'
<1> SUFFICES ASSUME AuthInv, [AuthNext]_authVars PROVE AuthInv'
  OBVIOUS
<1>1. ASSUME NEW o \in Op, NEW t \in Tab, StartRefresh(o, t) \/ Boot(o, t) PROVE AuthInv'
  BY <1>1, SendHolds DEF StartRefresh, Boot, Cookied
<1>2. ASSUME NEW o \in Op, NEW t \in Tab, LogIn(o, t) PROVE AuthInv'
  BY <1>2, ClientAuthAssumption, SendHolds DEF LogIn, Cookied
<1>3. ASSUME NEW o \in Op, NEW t \in Tab, NEW w \in Space, NEW kind \in {"switch", "join", "create"},
             Leave(o, t, kind, w)
      PROVE  AuthInv'
  BY <1>3, SendHolds DEF Leave, Cookied
<1>4. ASSUME NEW o \in Op, Rotate(o) \/ IssueSession(o) PROVE AuthInv'
  BY <1>4, ServerHolds
<1>5. ASSUME NEW o \in Op, RefreshReturns(o) \/ Returns(o) \/ ApplyAuth(o) \/ Lost(o) PROVE AuthInv'
  BY <1>5, ReturnHolds
<1>6. ASSUME NEW t \in Tab, LogOut(t) PROVE AuthInv'
  BY <1>6, LogOutHolds
<1>7. ASSUME UNCHANGED authVars PROVE AuthInv'
  BY <1>7 DEF authVars, AuthInv, AuthTypeOK, SingleFlight, CookieIsLive, Using
<1>8. ASSUME RevokeAll PROVE AuthInv'
  BY <1>8, RevokeAllHolds
<1> QED
  BY <1>1, <1>2, <1>3, <1>4, <1>5, <1>6, <1>7, <1>8 DEF AuthNext

\* However the requests of any number of tabs interleave, the browser never
\* holds a revoked cookie without a reason: its rotation is under way, the
\* server took it away (no membership, all sessions revoked), two requests
\* used it that share no refresh, or an answer was lost (getOrStartRefresh,
\* rotate, refresh).
THEOREM CookieStaysLive == AuthSpec => []CookieIsLive
<1>1. AuthInv => CookieIsLive
  BY DEF AuthInv
<1> QED
  BY <1>1, AuthInitially, AuthHolds, PTL DEF AuthSpec

-----------------------------------------------------------------------------
\* The open conversation.

StretchRecord == [conv : Conversation, rows : SUBSET Nat]
FetchRecord ==
  [pc : {"idle", "sending", "asked", "answered", "failed"},
   kind : {"none", "select", "older", "nudge", "reply"}, conv : Conversation \cup {NoConversation},
   gen : Nat, before : Nat, first : Nat, last : Nat, more : BOOLEAN]

PaneTypeOK ==
  /\ stored \in [Conversation -> 0..MaxMessages]
  /\ selected \in Conversation \cup {NoConversation}
  /\ pane \in Seq(StretchRecord)
  /\ paneGen \in Nat /\ older \in Nat
  /\ hasOlder \in BOOLEAN /\ loading \in BOOLEAN /\ torn \in BOOLEAN /\ abandoned \in BOOLEAN
  /\ fetch \in [Fetch -> FetchRecord]

\* What a fetch knows: who asks, of which conversation, and where the page is.
FetchesTypeOK ==
  \A f \in Fetch :
    /\ fetch[f].gen <= paneGen
    /\ fetch[f].pc = "idle" => fetch[f] = NoFetch
    /\ fetch[f].pc # "idle" => fetch[f].conv \in Conversation /\ fetch[f].kind # "none"
    /\ fetch[f].pc = "sending" => fetch[f].kind = "reply"
    /\ fetch[f].kind = "older" <=> fetch[f].before > 0
    /\ fetch[f].pc # "answered" => Page(f) = {} /\ ~fetch[f].more
    /\ fetch[f].pc = "answered" =>
         /\ fetch[f].first >= 1 /\ fetch[f].more = (fetch[f].first > 1)
         /\ fetch[f].more => Page(f) # {}
         /\ fetch[f].kind = "older" => fetch[f].last = fetch[f].before - 1
         /\ fetch[f].kind # "older" => fetch[f].last <= stored[fetch[f].conv]

\* Of the fetches of the current generation a select is the only one, and has
\* the cursor to come; a load of older messages is the only one, and goes on
\* at the cursor.
SelectAlone ==
  \A f \in Fetch : fetch[f].kind = "select" /\ Current(f) =>
    /\ fetch[f].conv = selected /\ ~hasOlder
    /\ \A g \in Fetch : fetch[g].kind = "select" /\ Current(g) => g = f
OlderAlone ==
  \A f \in Fetch : fetch[f].kind = "older" /\ Current(f) =>
    /\ fetch[f].conv = selected /\ hasOlder /\ loading
    /\ fetch[f].before = older
    /\ \A g \in Fetch : fetch[g].kind = "older" /\ Current(g) => g = f

\* The cursor is that of the first message on display.
CursorShown ==
  hasOlder => selected \in Conversation /\ older > 1 /\ (~torn => older \in ShownOf(selected))

PaneInv == PaneTypeOK /\ FetchesTypeOK /\ SelectAlone /\ OlderAlone /\ CursorShown /\ PaneIsWhole

\* What the parts of the invariant say together.
LEMMA PaneFacts ==
  ASSUME PaneInv
  PROVE  /\ PaneTypeOK /\ FetchesTypeOK /\ SelectAlone /\ OlderAlone /\ CursorShown
         /\ HistoryIsWhole /\ OlderStaysReachable
         /\ \A f \in Fetch : fetch[f] \in FetchRecord
         /\ pane \in Seq(StretchRecord) /\ Len(pane) \in Nat
         /\ paneGen \in Nat /\ older \in Nat
         /\ \A i \in 1..Len(pane) : pane[i] \in StretchRecord
         /\ MaxMessages \in Nat /\ PageLimit \in Nat \ {0}
  BY LenProperties, ElementOfSeq, MessagePaneAssumption DEF PaneInv, PaneIsWhole, PaneTypeOK

\* At the start nothing is selected.
LEMMA PaneInitially == PaneInit => PaneInv
<1> SUFFICES ASSUME PaneInit PROVE PaneInv
  OBVIOUS
<1>1. /\ NoFetch \in FetchRecord /\ NoFetch.kind = "none" /\ NoFetch.gen = 0 /\ NoFetch.before = 0
      /\ NoFetch.first = 1 /\ NoFetch.last = 0 /\ ~NoFetch.more /\ NoFetch.pc = "idle"
  BY DEF NoFetch, FetchRecord
<1>2. \A f \in Fetch : fetch[f] = NoFetch
  BY DEF PaneInit
<1>3. pane = <<>> /\ Len(pane) = 0 /\ pane \in Seq(StretchRecord)
  BY EmptySeq DEF PaneInit
<1>4. PaneTypeOK
  <2>3. 0 \in Nat /\ FALSE \in BOOLEAN
    OBVIOUS
  <2>1. stored \in [Conversation -> 0..MaxMessages]
    BY MessagePaneAssumption DEF PaneInit
  <2>2. fetch \in [Fetch -> FetchRecord]
    BY <1>1 DEF PaneInit
  <2> QED
    BY <1>3, <2>1, <2>2, <2>3 DEF PaneTypeOK, PaneInit
<1>5. FetchesTypeOK
  BY <1>1, <1>2 DEF FetchesTypeOK, Page, PaneInit
<1>6. SelectAlone /\ OlderAlone /\ CursorShown
  BY <1>1, <1>2 DEF SelectAlone, OlderAlone, CursorShown, PaneInit
<1>7. HistoryIsWhole
  <2>1. ShownOf(selected) = {}
    BY <1>3 DEF ShownOf
  <2>2. 0 \in 0..MaxMessages /\ 1..0 = {}
    BY MessagePaneAssumption
  <2>3. ~hasOlder
    BY DEF PaneInit
  <2> QED
    BY <1>3, <2>1, <2>2, <2>3 DEF HistoryIsWhole
<1>8. OlderStaysReachable
  BY DEF OlderStaysReachable, PaneInit
<1> QED
  BY <1>4, <1>5, <1>6, <1>7, <1>8 DEF PaneInv, PaneIsWhole

\* Stretches of the open conversation are in order.
InOrder ==
  \A i, j \in 1..Len(pane) :
    i < j /\ pane[i].conv = selected /\ pane[j].conv = selected =>
      \A m \in pane[i].rows, n \in pane[j].rows : m < n

\* A stretch of later messages goes to the end.
LEMMA NewestShown ==
  ASSUME PaneInv, NEW f \in Fetch, fetch[f].conv \in Conversation, NEW rows \in SUBSET Nat,
         pane' = pane \o Stretch(f, rows), UNCHANGED selected
  PROVE  /\ pane' \in Seq(StretchRecord)
         /\ \A c : ShownOf(c)' = IF c = fetch[f].conv THEN ShownOf(c) \cup rows ELSE ShownOf(c)
         /\ /\ InOrder
            /\ fetch[f].conv = selected => \A m \in ShownOf(selected), n \in rows : m < n
            => InOrder'
<1> DEFINE new == [conv |-> fetch[f].conv, rows |-> rows]
           len == Len(pane)
<1>1. /\ pane \in Seq(StretchRecord) /\ len \in Nat /\ new \in StretchRecord
      /\ new.conv = fetch[f].conv /\ new.rows = rows
  BY PaneFacts DEF StretchRecord
<1>2. CASE rows = {}
  <2>1. pane' = pane
    BY <1>1, <1>2, ConcatEmptySeq DEF Stretch
  <2> QED
    BY <1>1, <1>2, <2>1 DEF ShownOf, InOrder
<1>3. CASE rows # {}
  <2>1. pane' = Append(pane, new)
    <3>1. pane' = pane \o <<new>>
      BY <1>3 DEF Stretch
    <3> HIDE DEF new
    <3> QED
      BY <1>1, <3>1, AppendIsConcat
  <2> HIDE DEF new
  <2>2. /\ pane' \in Seq(StretchRecord) /\ Len(pane') = len + 1
        /\ \A i \in 1..len : pane'[i] = pane[i]
        /\ pane'[len + 1] = new
    BY <1>1, <2>1, AppendProperties
  <2> HIDE DEF len
  <2>3. 1..Len(pane') = (1..len) \cup {len + 1}
    BY <1>1, <2>2
  <2>4. ASSUME NEW c
        PROVE  ShownOf(c)' = IF c = fetch[f].conv THEN ShownOf(c) \cup rows ELSE ShownOf(c)
    <3> DEFINE Of == {j \in 1..len : pane[j].conv = c}
    <3>1. {j \in 1..Len(pane') : pane'[j].conv = c}
            = IF c = fetch[f].conv THEN Of \cup {len + 1} ELSE Of
      BY <1>1, <2>2, <2>3
    <3>2. UNION {pane'[i].rows : i \in Of} = UNION {pane[i].rows : i \in Of}
      BY <2>2
    <3>3. UNION {pane'[i].rows : i \in Of \cup {len + 1}}
            = (UNION {pane'[i].rows : i \in Of}) \cup rows
      BY <1>1, <2>2
    <3>4. ShownOf(c) = UNION {pane[i].rows : i \in Of}
      BY DEF ShownOf, len
    <3> HIDE DEF Of
    <3>5. ShownOf(c)' = UNION {pane'[i].rows : i \in IF c = fetch[f].conv THEN Of \cup {len + 1} ELSE Of}
      BY <3>1 DEF ShownOf
    <3>6. CASE c = fetch[f].conv
      BY <3>2, <3>3, <3>4, <3>5, <3>6
    <3>7. CASE c # fetch[f].conv
      BY <3>2, <3>4, <3>5, <3>7
    <3> QED
      BY <3>6, <3>7
  <2>5. ASSUME InOrder, fetch[f].conv = selected => \A m \in ShownOf(selected), n \in rows : m < n
        PROVE  InOrder'
    <3> SUFFICES ASSUME NEW i \in 1..Len(pane'), NEW j \in 1..Len(pane'),
                        i < j, pane'[i].conv = selected, pane'[j].conv = selected,
                        NEW m \in pane'[i].rows, NEW n \in pane'[j].rows
                 PROVE  m < n
      BY DEF InOrder
    <3>1. i \in 1..len
      BY <1>1, <2>2
    <3>2. m \in pane[i].rows /\ pane[i].conv = selected
      BY <2>2, <3>1
    <3>3. CASE j \in 1..len
      BY <2>2, <2>5, <3>1, <3>2, <3>3 DEF InOrder, len
    <3>4. CASE j = len + 1
      <4>1. n \in rows /\ fetch[f].conv = selected
        BY <1>1, <2>2, <3>4
      <4>2. m \in ShownOf(selected)
        BY <3>1, <3>2 DEF ShownOf, len
      <4> QED
        BY <2>5, <4>1, <4>2
    <3> QED
      BY <2>3, <3>3, <3>4
  <2> QED
    BY <2>2, <2>4, <2>5
<1> QED
  BY <1>2, <1>3

\* A stretch of earlier messages goes to the front.
LEMMA OlderShown ==
  ASSUME PaneInv, NEW f \in Fetch, fetch[f].conv \in Conversation, NEW rows \in SUBSET Nat,
         pane' = Stretch(f, rows) \o pane, UNCHANGED selected
  PROVE  /\ pane' \in Seq(StretchRecord)
         /\ \A c : ShownOf(c)' = IF c = fetch[f].conv THEN ShownOf(c) \cup rows ELSE ShownOf(c)
         /\ /\ InOrder
            /\ fetch[f].conv = selected => \A m \in rows, n \in ShownOf(selected) : m < n
            => InOrder'
<1> DEFINE new == [conv |-> fetch[f].conv, rows |-> rows]
           len == Len(pane)
<1>1. /\ pane \in Seq(StretchRecord) /\ len \in Nat /\ new \in StretchRecord
      /\ new.conv = fetch[f].conv /\ new.rows = rows
  BY PaneFacts DEF StretchRecord
<1>2. CASE rows = {}
  <2>1. pane' = pane
    BY <1>1, <1>2, ConcatEmptySeq DEF Stretch
  <2> QED
    BY <1>1, <1>2, <2>1 DEF ShownOf, InOrder
<1>3. CASE rows # {}
  <2>1. pane' = <<new>> \o pane
    BY <1>3 DEF Stretch
  <2> HIDE DEF new
  <2>2. <<new>> \in Seq(StretchRecord) /\ Len(<<new>>) = 1 /\ <<new>>[1] = new
    BY <1>1
  <2>3. /\ pane' \in Seq(StretchRecord) /\ Len(pane') = len + 1
        /\ \A i \in 1..Len(pane') : pane'[i] = IF i <= 1 THEN <<new>>[i] ELSE pane[i - 1]
    BY <1>1, <2>1, <2>2, ConcatProperties
  <2>4. pane'[1] = new /\ \A i \in 2..Len(pane') : i - 1 \in 1..len /\ pane'[i] = pane[i - 1]
    <3>1. pane'[1] = new
      BY <1>1, <2>2, <2>3
    <3>2. ASSUME NEW i \in 2..Len(pane') PROVE i - 1 \in 1..len /\ pane'[i] = pane[i - 1]
      BY <1>1, <2>3
    <3> QED
      BY <3>1, <3>2
  <2>5. \A i \in 1..len : i + 1 \in 2..Len(pane') /\ pane'[i + 1] = pane[i]
    BY <1>1, <2>3, <2>4
  <2> HIDE DEF len
  <2>6. 1..Len(pane') = {1} \cup (2..Len(pane'))
    BY <1>1, <2>3
  <2>7. ASSUME NEW c
        PROVE  ShownOf(c)' = IF c = fetch[f].conv THEN ShownOf(c) \cup rows ELSE ShownOf(c)
    <3>1. \A n : n \in ShownOf(c) <=> \E i \in 1..len : pane[i].conv = c /\ n \in pane[i].rows
      BY DEF ShownOf, len
    <3>2. \A n : n \in ShownOf(c)' <=> \E i \in 1..Len(pane') : pane'[i].conv = c /\ n \in pane'[i].rows
      BY DEF ShownOf
    <3>3. ASSUME NEW n, n \in ShownOf(c)'
          PROVE  n \in ShownOf(c) \/ (c = fetch[f].conv /\ n \in rows)
      <4>1. PICK i \in 1..Len(pane') : pane'[i].conv = c /\ n \in pane'[i].rows
        BY <3>2, <3>3
      <4>2. CASE i = 1
        BY <1>1, <2>4, <4>1, <4>2
      <4>3. CASE i \in 2..Len(pane')
        BY <2>4, <3>1, <4>1, <4>3
      <4> QED
        BY <2>6, <4>2, <4>3
    <3>4. ASSUME NEW n, n \in ShownOf(c) PROVE n \in ShownOf(c)'
      <4>1. PICK i \in 1..len : pane[i].conv = c /\ n \in pane[i].rows
        BY <3>1, <3>4
      <4> QED
        BY <2>5, <2>6, <3>2, <4>1
    <3>5. ASSUME c = fetch[f].conv, NEW n \in rows PROVE n \in ShownOf(c)'
      BY <1>1, <2>4, <2>6, <3>2, <3>5
    <3> QED
      BY <3>3, <3>4, <3>5
  <2>8. ASSUME InOrder, fetch[f].conv = selected => \A m \in rows, n \in ShownOf(selected) : m < n
        PROVE  InOrder'
    <3> SUFFICES ASSUME NEW i \in 1..Len(pane'), NEW j \in 1..Len(pane'),
                        i < j, pane'[i].conv = selected, pane'[j].conv = selected,
                        NEW m \in pane'[i].rows, NEW n \in pane'[j].rows
                 PROVE  m < n
      BY DEF InOrder
    <3>1. j \in 2..Len(pane')
      BY <2>6
    <3>2. j - 1 \in 1..len /\ pane[j - 1].conv = selected /\ n \in pane[j - 1].rows
      BY <2>4, <3>1
    <3>3. CASE i = 1
      <4>1. m \in rows /\ fetch[f].conv = selected
        BY <1>1, <2>4, <3>3
      <4>2. n \in ShownOf(selected)
        BY <3>2 DEF ShownOf, len
      <4> QED
        BY <2>8, <4>1, <4>2
    <3>4. CASE i \in 2..Len(pane')
      <4>1. i - 1 \in 1..len /\ pane[i - 1].conv = selected /\ m \in pane[i - 1].rows /\ i - 1 < j - 1
        BY <2>4, <3>1, <3>4
      <4> QED
        BY <2>8, <3>2, <4>1 DEF InOrder, len
    <3> QED
      BY <2>6, <3>3, <3>4
  <2> QED
    BY <2>3, <2>7, <2>8
<1> QED
  BY <1>2, <1>3

\* One fetch changes.
LEMMA FetchSet ==
  ASSUME PaneInv, NEW f \in Fetch, NEW new \in FetchRecord, fetch' = [fetch EXCEPT ![f] = new]
  PROVE  /\ fetch' \in [Fetch -> FetchRecord]
         /\ \A g \in Fetch : fetch'[g] = IF g = f THEN new ELSE fetch[g]
  BY PaneFacts DEF PaneTypeOK

\* What a fetch knows, of one fetch.
Knows(f) ==
  /\ fetch[f].gen <= paneGen
  /\ fetch[f].pc = "idle" => fetch[f] = NoFetch
  /\ fetch[f].pc # "idle" => fetch[f].conv \in Conversation /\ fetch[f].kind # "none"
  /\ fetch[f].pc = "sending" => fetch[f].kind = "reply"
  /\ fetch[f].kind = "older" <=> fetch[f].before > 0
  /\ fetch[f].pc # "answered" => Page(f) = {} /\ ~fetch[f].more
  /\ fetch[f].pc = "answered" =>
       /\ fetch[f].first >= 1 /\ fetch[f].more = (fetch[f].first > 1)
       /\ fetch[f].more => Page(f) # {}
       /\ fetch[f].kind = "older" => fetch[f].last = fetch[f].before - 1
       /\ fetch[f].kind # "older" => fetch[f].last <= stored[fetch[f].conv]

\* A fetch that does not change knows as much when messages arrive and
\* generations pass.
LEMMA KnowsKept ==
  ASSUME PaneInv, NEW f \in Fetch, fetch'[f] = fetch[f], paneGen' \in Nat, paneGen <= paneGen',
         \A c \in Conversation : stored'[c] \in Nat /\ stored[c] <= stored'[c]
  PROVE  Knows(f)'
<1>1. Knows(f)
  BY PaneFacts DEF FetchesTypeOK, Knows
<1>2. fetch[f].gen \in Nat /\ fetch[f].last \in Nat /\ paneGen \in Nat
  BY PaneFacts DEF FetchRecord
<1>3. \A c \in Conversation : stored[c] \in Nat
  BY PaneFacts DEF PaneTypeOK
<1>4. Page(f)' = Page(f)
  BY DEF Page
<1>5. fetch'[f].gen <= paneGen'
  BY <1>1, <1>2 DEF Knows
<1>6. fetch[f].pc = "answered" /\ fetch[f].kind # "older" => fetch[f].last <= stored'[fetch[f].conv]
  <2> SUFFICES ASSUME fetch[f].pc = "answered", fetch[f].kind # "older"
               PROVE  fetch[f].last <= stored'[fetch[f].conv]
    OBVIOUS
  <2>1. fetch[f].conv \in Conversation /\ fetch[f].last <= stored[fetch[f].conv]
    BY <1>1 DEF Knows
  <2> QED
    BY <1>2, <1>3, <2>1
<1> QED
  BY <1>1, <1>4, <1>5, <1>6 DEF Knows

\* An idle fetch knows nothing.
LEMMA NoFetchFacts ==
  /\ NoFetch \in FetchRecord /\ NoFetch.kind = "none" /\ NoFetch.gen = 0 /\ NoFetch.before = 0
  /\ NoFetch.first = 1 /\ NoFetch.last = 0 /\ NoFetch.more = FALSE /\ NoFetch.pc = "idle"
  BY DEF NoFetch, FetchRecord

\* Steps that leave the pane alone.
SamePane == UNCHANGED <<selected, pane, older, hasOlder, torn>>

LEMMA PaneKept ==
  ASSUME PaneInv, SamePane
  PROVE  CursorShown' /\ HistoryIsWhole'
<1>1. ShownOf(selected)' = ShownOf(selected)
  BY DEF SamePane, ShownOf
<1> QED
  BY <1>1, PaneFacts DEF SamePane, CursorShown, HistoryIsWhole

\* A message that arrives is shown by no one yet.
LEMMA StoreHolds ==
  ASSUME PaneInv, NEW c \in Conversation, Store(c)
  PROVE  PaneInv'
<1>1. /\ stored[c] < MaxMessages /\ stored' = [stored EXCEPT ![c] = stored[c] + 1]
      /\ UNCHANGED <<selected, paneGen, pane, older, hasOlder, loading, fetch, torn, abandoned>>
  BY DEF Store, display
<1>2. stored' \in [Conversation -> 0..MaxMessages] /\ \A d \in Conversation : stored[d] <= stored'[d]
  BY <1>1, PaneFacts DEF PaneTypeOK
<1>3. PaneTypeOK'
  BY <1>1, <1>2, PaneFacts DEF PaneTypeOK
<1>4. FetchesTypeOK'
  <2>1. \A d \in Conversation : stored'[d] \in Nat
    BY <1>2
  <2>2. paneGen' \in Nat /\ paneGen <= paneGen'
    BY <1>1, PaneFacts
  <2>3. \A f \in Fetch : Knows(f)'
    BY <1>1, <1>2, <2>1, <2>2, KnowsKept
  <2> QED
    BY <2>3 DEF Knows, FetchesTypeOK
<1>5. SelectAlone' /\ OlderAlone' /\ OlderStaysReachable'
  BY <1>1, PaneFacts DEF SelectAlone, OlderAlone, OlderStaysReachable, Current
<1>6. CursorShown' /\ HistoryIsWhole'
  BY <1>1, PaneKept DEF SamePane
<1> QED
  BY <1>3, <1>4, <1>5, <1>6 DEF PaneInv, PaneIsWhole

\* A fetch that begins.
LEMMA AskedFacts ==
  ASSUME PaneInv, NEW f \in Fetch, NEW kind \in {"select", "older", "nudge", "reply"},
         NEW pc \in {"sending", "asked"}, NEW c \in Conversation, NEW gen \in Nat,
         Ask(f, kind, pc, c, gen)
  PROVE  /\ fetch[f].kind = "none" /\ fetch' \in [Fetch -> FetchRecord]
         /\ \A g \in Fetch : g # f => fetch'[g] = fetch[g]
         /\ fetch'[f].kind = kind /\ fetch'[f].pc = pc /\ fetch'[f].conv = c /\ fetch'[f].gen = gen
         /\ fetch'[f].before = IF kind = "older" THEN older ELSE 0
         /\ fetch'[f].first = 1 /\ fetch'[f].last = 0 /\ fetch'[f].more = FALSE
<1> DEFINE before == IF kind = "older" THEN older ELSE 0
           new == [NoFetch EXCEPT !.pc = pc, !.kind = kind, !.conv = c, !.gen = gen, !.before = before]
<1>1. fetch[f].pc = "idle" /\ fetch' = [fetch EXCEPT ![f] = new]
  BY DEF Ask
<1>2. fetch[f].kind = "none"
  BY <1>1, NoFetchFacts, PaneFacts DEF FetchesTypeOK
<1>3. before \in Nat
  BY PaneFacts
<1> HIDE DEF before
<1>4. /\ new \in FetchRecord /\ new.kind = kind /\ new.pc = pc /\ new.conv = c /\ new.gen = gen
      /\ new.before = before /\ new.first = 1 /\ new.last = 0 /\ new.more = FALSE
  BY <1>3 DEF NoFetch, FetchRecord
<1> HIDE DEF new
<1>5. /\ fetch' \in [Fetch -> FetchRecord]
      /\ \A g \in Fetch : fetch'[g] = IF g = f THEN new ELSE fetch[g]
  BY <1>1, <1>4, FetchSet
<1> QED
  BY <1>2, <1>4, <1>5 DEF before

\* A fetch that begins knows its conversation and its cursor.
LEMMA AskedKnows ==
  ASSUME PaneInv, NEW f \in Fetch, UNCHANGED stored, paneGen' \in Nat, paneGen <= paneGen',
         \A g \in Fetch : g # f => fetch'[g] = fetch[g],
         fetch'[f].kind # "none", fetch'[f].pc \in {"sending", "asked"},
         fetch'[f].conv \in Conversation, fetch'[f].gen <= paneGen',
         fetch'[f].pc = "sending" => fetch'[f].kind = "reply",
         fetch'[f].kind = "older" <=> fetch'[f].before > 0,
         fetch'[f].first = 1, fetch'[f].last = 0, fetch'[f].more = FALSE
  PROVE  FetchesTypeOK'
<1>1. \A c \in Conversation : stored'[c] \in Nat /\ stored[c] <= stored'[c]
  BY PaneFacts DEF PaneTypeOK
<1>2. \A g \in Fetch : g # f => Knows(g)'
  BY <1>1, KnowsKept
<1>3. Page(f)' = {}
  BY DEF Page
<1>4. Knows(f)'
  BY <1>3 DEF Knows
<1> QED
  BY <1>2, <1>4 DEF Knows, FetchesTypeOK

\* A selection begins a generation, with an empty pane.
LEMMA SelectHolds ==
  ASSUME PaneInv, NEW f \in Fetch, NEW c \in Conversation, SelectConversation(f, c)
  PROVE  PaneInv'
<1>1. /\ Ask(f, "select", "asked", c, paneGen + 1)
      /\ selected' = c /\ paneGen' = paneGen + 1 /\ pane' = <<>> /\ older' = 0 /\ hasOlder' = FALSE
      /\ torn' = FALSE /\ UNCHANGED <<stored, loading>>
      /\ abandoned' = (abandoned \/ \E g \in Fetch : fetch[g].kind = "older" /\ Current(g))
  BY DEF SelectConversation
<1>2. paneGen + 1 \in Nat /\ paneGen \in Nat
  BY PaneFacts
<1>3. /\ fetch[f].kind = "none" /\ fetch' \in [Fetch -> FetchRecord]
      /\ \A g \in Fetch : g # f => fetch'[g] = fetch[g]
      /\ fetch'[f].kind = "select" /\ fetch'[f].pc = "asked" /\ fetch'[f].conv = c
      /\ fetch'[f].gen = paneGen + 1 /\ fetch'[f].before = 0
      /\ fetch'[f].first = 1 /\ fetch'[f].last = 0 /\ fetch'[f].more = FALSE
  BY <1>1, <1>2, AskedFacts
<1>4. \A g \in Fetch : fetch[g].gen <= paneGen /\ fetch[g].gen \in Nat
  BY PaneFacts DEF FetchesTypeOK, FetchRecord
<1>5. \A g \in Fetch : Current(g)' <=> g = f
  BY <1>1, <1>2, <1>3, <1>4 DEF Current
<1>6. pane' \in Seq(StretchRecord) /\ Len(pane') = 0
  BY <1>1, EmptySeq
<1>7. PaneTypeOK'
  <2>1. abandoned' \in BOOLEAN
    BY <1>1, PaneFacts DEF PaneTypeOK
  <2> QED
    BY <1>1, <1>2, <1>3, <1>6, <2>1, PaneFacts DEF PaneTypeOK
<1>8. FetchesTypeOK'
  <2>1. /\ UNCHANGED stored /\ paneGen' \in Nat /\ paneGen <= paneGen'
        /\ fetch'[f].gen <= paneGen' /\ fetch'[f].conv \in Conversation
        /\ fetch'[f].kind # "none" /\ fetch'[f].pc \in {"sending", "asked"}
        /\ fetch'[f].pc = "sending" => fetch'[f].kind = "reply"
        /\ fetch'[f].kind = "older" <=> fetch'[f].before > 0
    BY <1>1, <1>2, <1>3
  <2> QED
    BY <1>3, <2>1, AskedKnows
<1>9. SelectAlone' /\ OlderAlone' /\ CursorShown'
  BY <1>1, <1>3, <1>5 DEF SelectAlone, OlderAlone, CursorShown
<1>10. HistoryIsWhole'
  <2>1. ShownOf(selected)' = {}
    BY <1>6 DEF ShownOf
  <2>2. 0 \in 0..MaxMessages /\ 1..0 = {}
    BY MessagePaneAssumption
  <2> QED
    BY <1>1, <1>6, <2>1, <2>2 DEF HistoryIsWhole
<1>11. OlderStaysReachable'
  BY <1>1, PaneFacts DEF OlderStaysReachable
<1> QED
  BY <1>7, <1>8, <1>9, <1>10, <1>11 DEF PaneInv, PaneIsWhole

\* The cursor is nobody else's when older messages are asked for.
LEMMA LoadHolds ==
  ASSUME PaneInv, NEW f \in Fetch, LoadOlderMessages(f)
  PROVE  PaneInv'
<1>1. /\ hasOlder /\ ~loading /\ Ask(f, "older", "asked", selected, paneGen) /\ loading' = TRUE
      /\ UNCHANGED <<stored, selected, paneGen, pane, older, hasOlder, torn, abandoned>>
  BY DEF LoadOlderMessages
<1>2. paneGen \in Nat /\ selected \in Conversation
  BY <1>1, PaneFacts DEF CursorShown
<1>3. /\ fetch[f].kind = "none" /\ fetch' \in [Fetch -> FetchRecord]
      /\ \A g \in Fetch : g # f => fetch'[g] = fetch[g]
      /\ fetch'[f].kind = "older" /\ fetch'[f].pc = "asked" /\ fetch'[f].conv = selected
      /\ fetch'[f].gen = paneGen /\ fetch'[f].before = older
      /\ fetch'[f].first = 1 /\ fetch'[f].last = 0 /\ fetch'[f].more = FALSE
  BY <1>1, <1>2, AskedFacts
<1>4. \A g \in Fetch : g # f => Current(g)' = Current(g)
  BY <1>1, <1>3 DEF Current
<1>5. PaneTypeOK'
  BY <1>1, <1>3, PaneFacts DEF PaneTypeOK
<1>6. FetchesTypeOK'
  <2>1. older > 0
    BY <1>1, PaneFacts DEF CursorShown
  <2>2. /\ UNCHANGED stored /\ paneGen' \in Nat /\ paneGen <= paneGen'
        /\ fetch'[f].gen <= paneGen' /\ fetch'[f].conv \in Conversation
        /\ fetch'[f].kind # "none" /\ fetch'[f].pc \in {"sending", "asked"}
        /\ fetch'[f].pc = "sending" => fetch'[f].kind = "reply"
        /\ fetch'[f].kind = "older" <=> fetch'[f].before > 0
    BY <1>1, <1>2, <1>3, <2>1
  <2> QED
    BY <1>3, <2>2, AskedKnows
<1>7. SelectAlone'
  <2>1. \A g \in Fetch : ~(fetch[g].kind = "select" /\ Current(g))
    BY <1>1, PaneFacts DEF SelectAlone
  <2> QED
    BY <1>3, <1>4, <2>1 DEF SelectAlone
<1>8. OlderAlone'
  <2>1. \A g \in Fetch : ~(fetch[g].kind = "older" /\ Current(g))
    BY <1>1, PaneFacts DEF OlderAlone
  <2> QED
    BY <1>1, <1>3, <1>4, <2>1 DEF OlderAlone
<1>9. CursorShown' /\ HistoryIsWhole'
  BY <1>1, PaneKept DEF SamePane
<1>10. OlderStaysReachable'
  BY <1>1, <1>3 DEF OlderStaysReachable, Current
<1> QED
  BY <1>5, <1>6, <1>7, <1>8, <1>9, <1>10 DEF PaneInv, PaneIsWhole

\* Nudges and replies are neither selections nor loads.
LEMMA NudgeHolds ==
  ASSUME PaneInv, NEW f \in Fetch, Nudge(f) \/ HandleReply(f)
  PROVE  PaneInv'
<1>1. UNCHANGED <<stored, selected, paneGen, pane, older, hasOlder, loading, torn, abandoned>>
  BY DEF Nudge, HandleReply, display
<1>2. paneGen \in Nat /\ selected \in Conversation
  BY PaneFacts DEF PaneTypeOK, Nudge, HandleReply
<1>3. /\ fetch[f].kind = "none" /\ fetch' \in [Fetch -> FetchRecord]
      /\ \A g \in Fetch : g # f => fetch'[g] = fetch[g]
      /\ fetch'[f].kind \in {"nudge", "reply"} /\ fetch'[f].pc \in {"sending", "asked"}
      /\ (fetch'[f].pc = "sending" => fetch'[f].kind = "reply")
      /\ fetch'[f].conv = selected /\ fetch'[f].gen = paneGen /\ fetch'[f].before = 0
      /\ fetch'[f].first = 1 /\ fetch'[f].last = 0 /\ fetch'[f].more = FALSE
  <2>1. CASE Nudge(f)
    <3>1. Ask(f, "nudge", "asked", selected, paneGen)
      BY <2>1 DEF Nudge
    <3> QED
      BY <1>2, <3>1, AskedFacts
  <2>2. CASE HandleReply(f)
    <3>1. Ask(f, "reply", "sending", selected, paneGen)
      BY <2>2 DEF HandleReply
    <3> QED
      BY <1>2, <3>1, AskedFacts
  <2> QED
    BY <2>1, <2>2
<1>4. \A g \in Fetch : g # f => Current(g)' = Current(g)
  BY <1>1, <1>3 DEF Current
<1>5. PaneTypeOK'
  BY <1>1, <1>3, PaneFacts DEF PaneTypeOK
<1>6. FetchesTypeOK'
  <2>1. /\ UNCHANGED stored /\ paneGen' \in Nat /\ paneGen <= paneGen'
        /\ fetch'[f].gen <= paneGen' /\ fetch'[f].conv \in Conversation
        /\ fetch'[f].kind # "none" /\ fetch'[f].pc \in {"sending", "asked"}
        /\ fetch'[f].pc = "sending" => fetch'[f].kind = "reply"
        /\ fetch'[f].kind = "older" <=> fetch'[f].before > 0
    BY <1>1, <1>2, <1>3
  <2> QED
    BY <1>3, <2>1, AskedKnows
<1>7. fetch'[f].kind \notin {"select", "older"} /\ fetch[f].kind \notin {"select", "older"}
  BY <1>3
<1>8. SelectAlone'
  BY <1>1, <1>3, <1>4, <1>7, PaneFacts DEF SelectAlone
<1>9. OlderAlone'
  BY <1>1, <1>3, <1>4, <1>7, PaneFacts DEF OlderAlone
<1>10. CursorShown' /\ HistoryIsWhole'
  BY <1>1, PaneKept DEF SamePane
<1>11. OlderStaysReachable'
  BY <1>1, <1>3, <1>4, <1>7, PaneFacts DEF OlderStaysReachable
<1> QED
  BY <1>5, <1>6, <1>8, <1>9, <1>10, <1>11 DEF PaneInv, PaneIsWhole

\* A fetch that goes on, with what it was asked for.
LEMMA GoesOn ==
  ASSUME PaneInv, NEW f \in Fetch, fetch' \in [Fetch -> FetchRecord],
         \A g \in Fetch : g # f => fetch'[g] = fetch[g],
         /\ fetch'[f].kind = fetch[f].kind /\ fetch'[f].gen = fetch[f].gen
         /\ fetch'[f].conv = fetch[f].conv /\ fetch'[f].before = fetch[f].before,
         UNCHANGED <<selected, paneGen, pane, older, hasOlder, loading, torn, abandoned>>,
         stored' \in [Conversation -> 0..MaxMessages],
         \A c \in Conversation : stored[c] <= stored'[c],
         Knows(f)'
  PROVE  PaneInv'
<1>1. \A g \in Fetch : /\ fetch'[g].kind = fetch[g].kind /\ fetch'[g].conv = fetch[g].conv
                       /\ fetch'[g].before = fetch[g].before /\ Current(g)' = Current(g)
  BY DEF Current
<1>2. PaneTypeOK'
  BY PaneFacts DEF PaneTypeOK
<1>3. FetchesTypeOK'
  <2>1. \A c \in Conversation : stored'[c] \in Nat
    OBVIOUS
  <2>2. paneGen' \in Nat /\ paneGen <= paneGen'
    BY PaneFacts
  <2>3. \A g \in Fetch : g # f => Knows(g)'
    BY <2>1, <2>2, KnowsKept
  <2> QED
    BY <2>3 DEF Knows, FetchesTypeOK
<1>4. SelectAlone' /\ OlderAlone' /\ OlderStaysReachable'
  BY <1>1, PaneFacts DEF SelectAlone, OlderAlone, OlderStaysReachable
<1>5. CursorShown' /\ HistoryIsWhole'
  BY PaneKept DEF SamePane
<1> QED
  BY <1>2, <1>3, <1>4, <1>5 DEF PaneInv, PaneIsWhole

\* A page has the messages before its cursor, or the last that are stored.
LEMMA PageAnswered ==
  ASSUME PaneInv, NEW f \in Fetch, Answer(f)
  PROVE  PaneInv'
<1> DEFINE last == IF fetch[f].before = 0 THEN stored[fetch[f].conv] ELSE fetch[f].before - 1
           first == IF last > PageLimit THEN last - PageLimit + 1 ELSE 1
           answer == [fetch[f] EXCEPT !.pc = "answered", !.more = first > 1, !.first = first, !.last = last]
           failure == [fetch[f] EXCEPT !.pc = "failed"]
<1>1. /\ fetch[f].pc = "asked"
      /\ UNCHANGED <<stored, selected, paneGen, pane, older, hasOlder, loading, torn, abandoned>>
      /\ fetch' = [fetch EXCEPT ![f] = answer] \/ fetch' = [fetch EXCEPT ![f] = failure]
  BY DEF Answer, display
<1>2. fetch[f] \in FetchRecord /\ Knows(f) /\ fetch[f].conv \in Conversation
  BY <1>1, PaneFacts DEF FetchesTypeOK, Knows
<1>3. /\ fetch[f].first \in Nat /\ fetch[f].last \in Nat /\ fetch[f].before \in Nat
      /\ stored[fetch[f].conv] \in 0..MaxMessages /\ PageLimit \in Nat \ {0}
  BY <1>2, PaneFacts DEF FetchRecord, PaneTypeOK
<1>4. last \in Nat /\ first \in Nat /\ first >= 1 /\ (first > 1 => first <= last)
  BY <1>3
<1>5. fetch[f].before # 0 => last = fetch[f].before - 1
  OBVIOUS
<1>6. fetch[f].before = 0 => last = stored[fetch[f].conv]
  OBVIOUS
<1> HIDE DEF last, first
<1>7. /\ answer \in FetchRecord /\ answer.pc = "answered" /\ answer.more = (first > 1)
      /\ answer.first = first /\ answer.last = last
      /\ answer.kind = fetch[f].kind /\ answer.gen = fetch[f].gen
      /\ answer.conv = fetch[f].conv /\ answer.before = fetch[f].before
  <2>1. (first > 1) \in BOOLEAN
    OBVIOUS
  <2> QED
    BY <1>2, <1>4, <2>1 DEF FetchRecord
<1>8. /\ failure \in FetchRecord /\ failure.pc = "failed" /\ failure.more = fetch[f].more
      /\ failure.first = fetch[f].first /\ failure.last = fetch[f].last
      /\ failure.kind = fetch[f].kind /\ failure.gen = fetch[f].gen
      /\ failure.conv = fetch[f].conv /\ failure.before = fetch[f].before
  BY <1>2 DEF FetchRecord
<1> HIDE DEF answer, failure
<1>9. \A c \in Conversation : stored'[c] <= stored'[c] /\ stored'[c] = stored[c]
  BY <1>1, PaneFacts DEF PaneTypeOK
<1>10. CASE fetch' = [fetch EXCEPT ![f] = answer]
  <2>1. /\ fetch' \in [Fetch -> FetchRecord]
        /\ \A g \in Fetch : fetch'[g] = IF g = f THEN answer ELSE fetch[g]
    BY <1>7, <1>10, FetchSet
  <2>2. Knows(f)'
    <3>1. Page(f)' = first..last
      BY <1>7, <2>1 DEF Page
    <3>2. first > 1 => first..last # {}
      BY <1>4
    <3>3. fetch[f].kind = "older" => last = fetch[f].before - 1
      BY <1>1, <1>2, <1>5, PaneFacts DEF Knows
    <3>4. fetch[f].kind # "older" => last <= stored[fetch[f].conv]
      BY <1>2, <1>3, <1>6 DEF Knows
    <3> QED
      BY <1>1, <1>2, <1>4, <1>7, <2>1, <3>1, <3>2, <3>3, <3>4 DEF Knows
  <2> QED
    BY <1>1, <1>7, <1>9, <2>1, <2>2, GoesOn, PaneFacts DEF PaneTypeOK
<1>11. CASE fetch' = [fetch EXCEPT ![f] = failure]
  <2>1. /\ fetch' \in [Fetch -> FetchRecord]
        /\ \A g \in Fetch : fetch'[g] = IF g = f THEN failure ELSE fetch[g]
    BY <1>8, <1>11, FetchSet
  <2>2. Knows(f)'
    BY <1>1, <1>2, <1>8, <2>1 DEF Knows, Page
  <2> QED
    BY <1>1, <1>8, <1>9, <2>1, <2>2, GoesOn, PaneFacts DEF PaneTypeOK
<1> QED
  BY <1>1, <1>10, <1>11

\* A fetch that ends is of no kind.
LEMMA EndedFacts ==
  ASSUME PaneInv, NEW f \in Fetch, Ended(f), UNCHANGED <<stored, paneGen>>
  PROVE  /\ fetch' \in [Fetch -> FetchRecord] /\ fetch'[f].kind = "none"
         /\ \A g \in Fetch : g # f => fetch'[g] = fetch[g] /\ Current(g)' = Current(g)
         /\ FetchesTypeOK'
<1>1. /\ fetch' \in [Fetch -> FetchRecord]
      /\ \A g \in Fetch : fetch'[g] = IF g = f THEN NoFetch ELSE fetch[g]
  BY NoFetchFacts, FetchSet DEF Ended
<1>2. fetch'[f] = NoFetch /\ fetch'[f].kind = "none"
  BY <1>1, NoFetchFacts
<1>3. \A g \in Fetch : g # f => fetch'[g] = fetch[g] /\ Current(g)' = Current(g)
  BY <1>1 DEF Current
<1>4. FetchesTypeOK'
  <2>1. \A c \in Conversation : stored'[c] \in Nat /\ stored[c] <= stored'[c]
    BY PaneFacts DEF PaneTypeOK
  <2>2. paneGen' \in Nat /\ paneGen <= paneGen'
    BY PaneFacts
  <2>3. \A g \in Fetch : g # f => Knows(g)'
    BY <1>3, <2>1, <2>2, KnowsKept
  <2>4. Page(f)' = {}
    BY <1>2, NoFetchFacts DEF Page
  <2>5. Knows(f)'
    BY <1>2, <2>2, <2>4, NoFetchFacts DEF Knows
  <2> QED
    BY <2>3, <2>5 DEF Knows, FetchesTypeOK
<1> QED
  BY <1>1, <1>2, <1>3, <1>4

\* The reply is stored, and then fetched with the rest.
LEMMA SentHolds ==
  ASSUME PaneInv, NEW f \in Fetch, Sent(f)
  PROVE  PaneInv'
<1>1. /\ fetch[f].pc = "sending"
      /\ UNCHANGED <<selected, paneGen, pane, older, hasOlder, loading, torn, abandoned>>
  BY DEF Sent, display
<1>2. fetch[f] \in FetchRecord /\ Knows(f) /\ fetch[f].conv \in Conversation
  BY <1>1, PaneFacts DEF FetchesTypeOK, Knows
<1>3. CASE /\ stored[fetch[f].conv] < MaxMessages
           /\ stored' = [stored EXCEPT ![fetch[f].conv] = stored[fetch[f].conv] + 1]
           /\ fetch' = [fetch EXCEPT ![f].pc = "asked"]
  <2> DEFINE new == [fetch[f] EXCEPT !.pc = "asked"]
  <2>1. /\ new \in FetchRecord /\ new.pc = "asked" /\ new.more = fetch[f].more
        /\ new.first = fetch[f].first /\ new.last = fetch[f].last
        /\ new.kind = fetch[f].kind /\ new.gen = fetch[f].gen
        /\ new.conv = fetch[f].conv /\ new.before = fetch[f].before
    BY <1>2 DEF FetchRecord
  <2>2. fetch' = [fetch EXCEPT ![f] = new]
    BY <1>3
  <2> HIDE DEF new
  <2>3. /\ fetch' \in [Fetch -> FetchRecord]
        /\ \A g \in Fetch : fetch'[g] = IF g = f THEN new ELSE fetch[g]
    BY <2>1, <2>2, FetchSet
  <2>4. /\ stored' \in [Conversation -> 0..MaxMessages]
        /\ \A c \in Conversation : stored[c] <= stored'[c]
    BY <1>2, <1>3, PaneFacts DEF PaneTypeOK
  <2>5. Knows(f)'
    BY <1>1, <1>2, <2>1, <2>3 DEF Knows, Page
  <2> QED
    BY <1>1, <2>1, <2>3, <2>4, <2>5, GoesOn
<1>4. CASE Ended(f) /\ UNCHANGED stored
  <2>1. /\ fetch' \in [Fetch -> FetchRecord] /\ fetch'[f].kind = "none"
        /\ \A g \in Fetch : g # f => fetch'[g] = fetch[g] /\ Current(g)' = Current(g)
        /\ FetchesTypeOK'
    BY <1>1, <1>4, EndedFacts
  <2>2. fetch[f].kind \notin {"select", "older"}
    BY <1>1, <1>2 DEF Knows
  <2>3. PaneTypeOK'
    BY <1>1, <1>4, <2>1, PaneFacts DEF PaneTypeOK
  <2>4. SelectAlone' /\ OlderAlone' /\ OlderStaysReachable'
    BY <1>1, <2>1, <2>2, PaneFacts DEF SelectAlone, OlderAlone, OlderStaysReachable
  <2>5. CursorShown' /\ HistoryIsWhole'
    BY <1>1, PaneKept DEF SamePane
  <2> QED
    BY <2>1, <2>3, <2>4, <2>5 DEF PaneInv, PaneIsWhole
<1> QED
  BY <1>3, <1>4 DEF Sent, Ended

\* A select ends its wait: its page is the pane.
LEMMA ResolveSelectHolds ==
  ASSUME PaneInv, NEW f \in Fetch, ResolveSelect(f)
  PROVE  PaneInv'
<1>1. /\ fetch[f].kind = "select" /\ fetch[f].pc \in {"answered", "failed"} /\ Ended(f)
      /\ UNCHANGED <<stored, selected, paneGen, loading, abandoned>>
  BY DEF ResolveSelect
<1>2. /\ fetch' \in [Fetch -> FetchRecord] /\ fetch'[f].kind = "none"
      /\ \A g \in Fetch : g # f => fetch'[g] = fetch[g] /\ Current(g)' = Current(g)
      /\ FetchesTypeOK'
  BY <1>1, EndedFacts
<1>3. fetch[f] \in FetchRecord /\ Knows(f) /\ fetch[f].conv \in Conversation
  BY <1>1, PaneFacts DEF FetchesTypeOK, Knows
<1>4. OlderStaysReachable'
  BY <1>1, <1>2, PaneFacts DEF OlderStaysReachable
<1>5. CASE UNCHANGED <<pane, older, hasOlder, torn>>
  <2>1. PaneTypeOK'
    BY <1>1, <1>2, <1>5, PaneFacts DEF PaneTypeOK
  <2>2. SelectAlone' /\ OlderAlone'
    BY <1>1, <1>2, <1>5, PaneFacts DEF SelectAlone, OlderAlone
  <2>3. CursorShown' /\ HistoryIsWhole'
    BY <1>1, <1>5, PaneKept DEF SamePane
  <2> QED
    BY <1>2, <1>4, <2>1, <2>2, <2>3 DEF PaneInv, PaneIsWhole
<1>6. CASE /\ Current(f) /\ pane' = Stretch(f, Page(f))
           /\ older' = NextOlder(f) /\ hasOlder' = fetch[f].more
           /\ torn' = (fetch[f].pc = "failed" /\ stored[selected] > 0)
  <2> DEFINE new == [conv |-> fetch[f].conv, rows |-> Page(f)]
  <2>1. /\ fetch[f].conv = selected /\ ~hasOlder
        /\ \A g \in Fetch : fetch[g].kind = "select" /\ Current(g) => g = f
    BY <1>1, <1>6, PaneFacts DEF SelectAlone
  <2>2. /\ fetch[f].first \in Nat /\ fetch[f].last \in Nat /\ fetch[f].more \in BOOLEAN
        /\ Page(f) = fetch[f].first..fetch[f].last /\ Page(f) \subseteq Nat
    BY <1>3 DEF FetchRecord, Page
  <2>3. new \in StretchRecord /\ new.conv = selected /\ new.rows = Page(f)
    BY <1>3, <2>1, <2>2 DEF StretchRecord
  <2>4. pane' = IF Page(f) = {} THEN <<>> ELSE <<new>>
    BY <1>6 DEF Stretch
  <2> HIDE DEF new
  <2>5. /\ pane' \in Seq(StretchRecord) /\ Len(pane') <= 1 /\ Len(pane') \in Nat
        /\ ShownOf(selected)' = Page(f)
    <3>1. CASE Page(f) = {}
      <4>1. pane' = <<>> /\ Len(pane') = 0
        BY <2>4, <3>1
      <4>2. ShownOf(selected)' = {}
        BY <4>1 DEF ShownOf
      <4> QED
        BY <3>1, <4>1, <4>2
    <3>2. CASE Page(f) # {}
      <4>1. pane' = <<new>> /\ Len(pane') = 1 /\ pane'[1] = new
        BY <2>4, <3>2
      <4>2. \A i : i \in 1..Len(pane') <=> i = 1
        BY <4>1
      <4>3. ShownOf(selected)' = Page(f)
        BY <1>1, <2>3, <4>1, <4>2 DEF ShownOf
      <4> QED
        BY <2>3, <4>1, <4>3
    <3> QED
      BY <3>1, <3>2
  <2>6. older' \in Nat /\ hasOlder' \in BOOLEAN /\ torn' \in BOOLEAN
    BY <1>6, <2>2 DEF NextOlder
  <2>7. PaneTypeOK'
    BY <1>1, <1>2, <2>5, <2>6, PaneFacts DEF PaneTypeOK
  <2>8. SelectAlone' /\ OlderAlone'
    <3>1. \A g \in Fetch : ~(fetch[g].kind = "older" /\ Current(g))
      BY <2>1, PaneFacts DEF OlderAlone
    <3> QED
      BY <1>2, <2>1, <3>1 DEF SelectAlone, OlderAlone
  <2>9. CursorShown'
    <3> SUFFICES ASSUME hasOlder'
                 PROVE  selected' \in Conversation /\ older' > 1 /\ older' \in ShownOf(selected)'
      BY DEF CursorShown
    <3>1. fetch[f].more /\ fetch[f].pc = "answered"
      BY <1>3, <1>6 DEF Knows
    <3>2. fetch[f].first > 1 /\ Page(f) # {}
      BY <1>3, <3>1 DEF Knows
    <3>3. older' = fetch[f].first
      BY <1>6, <3>1 DEF NextOlder
    <3>4. fetch[f].first \in Page(f)
      BY <2>2, <3>2
    <3> QED
      BY <1>1, <1>3, <2>1, <2>5, <3>2, <3>3, <3>4
  <2>10. HistoryIsWhole'
    <3>1. \E last \in 0..MaxMessages : ShownOf(selected)' = (IF hasOlder' THEN older' ELSE 1)..last
      <4>1. CASE fetch[f].pc = "answered"
        <5>1. fetch[f].first = IF hasOlder' THEN older' ELSE 1
          BY <1>3, <1>6, <2>2, <4>1 DEF Knows, NextOlder
        <5>2. fetch[f].last \in 0..MaxMessages
          <6>1. fetch[f].last <= stored[fetch[f].conv]
            BY <1>1, <1>3, <4>1 DEF Knows
          <6>2. stored[fetch[f].conv] \in 0..MaxMessages /\ MaxMessages \in Nat
            BY <1>3, PaneFacts DEF PaneTypeOK
          <6> QED
            BY <2>2, <6>1, <6>2
        <5> QED
          BY <2>2, <2>5, <5>1, <5>2
      <4>2. CASE fetch[f].pc = "failed"
        <5>1. Page(f) = {} /\ ~fetch[f].more
          BY <1>3, <4>2 DEF Knows
        <5>2. 1..0 = {} /\ 0 \in 0..MaxMessages
          BY PaneFacts
        <5> QED
          BY <1>6, <2>5, <5>1, <5>2
      <4> QED
        BY <1>1, <4>1, <4>2
    <3>2. \A i, j \in 1..Len(pane') : ~(i < j)
      BY <2>5
    <3> QED
      BY <3>1, <3>2, PaneFacts DEF HistoryIsWhole
  <2> QED
    BY <1>2, <1>4, <2>7, <2>8, <2>9, <2>10 DEF PaneInv, PaneIsWhole
<1> QED
  BY <1>5, <1>6 DEF ResolveSelect, Applies

\* Older messages go before the first one on display.
LEMMA ResolveOlderHolds ==
  ASSUME PaneInv, NEW f \in Fetch, ResolveOlder(f)
  PROVE  PaneInv'
<1>1. /\ fetch[f].kind = "older" /\ fetch[f].pc \in {"answered", "failed"} /\ Ended(f)
      /\ UNCHANGED <<stored, selected, paneGen, torn, abandoned>>
  BY DEF ResolveOlder
<1>2. /\ fetch' \in [Fetch -> FetchRecord] /\ fetch'[f].kind = "none"
      /\ \A g \in Fetch : g # f => fetch'[g] = fetch[g] /\ Current(g)' = Current(g)
      /\ FetchesTypeOK'
  BY <1>1, EndedFacts
<1>3. fetch[f] \in FetchRecord /\ Knows(f) /\ fetch[f].conv \in Conversation
  BY <1>1, PaneFacts DEF FetchesTypeOK, Knows
<1>4. CASE ~Current(f) /\ UNCHANGED <<pane, older, hasOlder, loading>>
  <2>1. PaneTypeOK'
    BY <1>1, <1>2, <1>4, PaneFacts DEF PaneTypeOK
  <2>2. SelectAlone' /\ OlderAlone'
    BY <1>1, <1>2, <1>4, PaneFacts DEF SelectAlone, OlderAlone
  <2>3. CursorShown' /\ HistoryIsWhole'
    BY <1>1, <1>4, PaneKept DEF SamePane
  <2>4. OlderStaysReachable'
    BY <1>1, <1>2, <1>4, PaneFacts DEF OlderStaysReachable
  <2> QED
    BY <1>2, <2>1, <2>2, <2>3, <2>4 DEF PaneInv, PaneIsWhole
<1>5. ASSUME Current(f), loading' = FALSE
      PROVE  SelectAlone' /\ OlderAlone' /\ OlderStaysReachable'
  <2>1. hasOlder /\ \A g \in Fetch : fetch[g].kind = "older" /\ Current(g) => g = f
    BY <1>1, <1>5, PaneFacts DEF OlderAlone
  <2>2. \A g \in Fetch : ~(fetch[g].kind = "select" /\ Current(g))
    BY <2>1, PaneFacts DEF SelectAlone
  <2> QED
    BY <1>2, <1>5, <2>1, <2>2 DEF SelectAlone, OlderAlone, OlderStaysReachable
<1>6. CASE Current(f) /\ loading' = FALSE /\ UNCHANGED <<pane, older, hasOlder>>
  <2>1. PaneTypeOK'
    BY <1>1, <1>2, <1>6, PaneFacts DEF PaneTypeOK
  <2>2. CursorShown' /\ HistoryIsWhole'
    BY <1>1, <1>6, PaneKept DEF SamePane
  <2> QED
    BY <1>2, <1>5, <1>6, <2>1, <2>2 DEF PaneInv, PaneIsWhole
<1>7. CASE /\ Current(f) /\ fetch[f].pc = "answered" /\ loading' = FALSE
           /\ pane' = Stretch(f, New(f)) \o pane
           /\ older' = NextOlder(f) /\ hasOlder' = fetch[f].more
  <2> DEFINE first == fetch[f].first
             last == fetch[f].last
  <2>1. /\ fetch[f].conv = selected /\ hasOlder /\ fetch[f].before = older
    BY <1>1, <1>7, PaneFacts DEF OlderAlone
  <2>2. /\ older \in Nat /\ older > 1 /\ (~torn => older \in ShownOf(selected))
    BY <2>1, PaneFacts DEF CursorShown
  <2>3. /\ first \in Nat /\ last \in Nat /\ fetch[f].more \in BOOLEAN
        /\ Page(f) = first..last /\ last = older - 1 /\ first >= 1
        /\ (fetch[f].more <=> first > 1) /\ (fetch[f].more => Page(f) # {})
    BY <1>1, <1>3, <1>7, <2>1 DEF FetchRecord, Page, Knows
  <2>4. New(f) \in SUBSET Nat /\ New(f) \subseteq first..last
    BY <2>3 DEF New
  <2> HIDE DEF first, last
  <2>5. /\ pane' \in Seq(StretchRecord)
        /\ \A c : ShownOf(c)' = IF c = fetch[f].conv THEN ShownOf(c) \cup New(f) ELSE ShownOf(c)
        /\ /\ InOrder
           /\ fetch[f].conv = selected => \A m \in New(f), n \in ShownOf(selected) : m < n
           => InOrder'
    BY <1>1, <1>3, <1>7, <2>4, OlderShown
  <2>6. ShownOf(selected)' = ShownOf(selected) \cup New(f)
    BY <1>1, <2>1, <2>5
  <2>7. older' \in Nat /\ hasOlder' \in BOOLEAN
    BY <1>7, <2>3 DEF NextOlder, first
  <2>8. PaneTypeOK'
    BY <1>1, <1>2, <1>7, <2>5, <2>7, PaneFacts DEF PaneTypeOK
  <2>9. ASSUME ~torn
        PROVE  \E hi \in 0..MaxMessages : /\ ShownOf(selected) = older..hi
                                          /\ ShownOf(selected)' = first..hi
                                          /\ New(f) = first..last /\ older <= hi
    <3>1. PICK hi \in 0..MaxMessages : ShownOf(selected) = older..hi
      BY <2>1, <2>9, PaneFacts DEF HistoryIsWhole
    <3>2. older <= hi /\ hi \in Nat
      BY <2>2, <2>9, <3>1
    <3>3. New(f) = first..last
      BY <2>1, <2>2, <2>3, <3>1 DEF New
    <3>4. (older..hi) \cup (first..last) = first..hi
      <4>1. first <= older
        <5>1. CASE fetch[f].more
          BY <2>2, <2>3, <5>1
        <5>2. CASE ~fetch[f].more
          <6>1. ~(first > 1)
            BY <2>3, <5>2
          <6> QED
            BY <2>2, <2>3, <6>1
        <5> QED
          BY <5>1, <5>2
      <4> QED
        BY <2>2, <2>3, <3>2, <4>1
    <3> QED
      BY <2>6, <3>1, <3>2, <3>3, <3>4
  <2>10. CursorShown'
    <3> SUFFICES ASSUME hasOlder'
                 PROVE  /\ selected' \in Conversation /\ older' > 1
                        /\ ~torn' => older' \in ShownOf(selected)'
      BY DEF CursorShown
    <3>1. older' = first /\ first > 1
      BY <1>7, <2>3 DEF NextOlder, first
    <3>2. ASSUME ~torn PROVE first \in ShownOf(selected)'
      <4>1. PICK hi \in 0..MaxMessages : ShownOf(selected)' = first..hi /\ New(f) = first..last /\ older <= hi
        BY <2>9, <3>2
      <4>2. first <= last
        <5>1. fetch[f].more
          BY <1>7
        <5>2. first..last # {}
          BY <2>3, <5>1
        <5> QED
          BY <2>3, <5>2
      <4> QED
        BY <2>2, <2>3, <4>1, <4>2
    <3> QED
      BY <1>1, <1>3, <2>1, <3>1, <3>2
  <2>11. HistoryIsWhole'
    <3> SUFFICES ASSUME ~torn
                 PROVE  /\ \E hi \in 0..MaxMessages :
                             ShownOf(selected)' = (IF hasOlder' THEN older' ELSE 1)..hi
                        /\ InOrder'
      BY <1>1 DEF HistoryIsWhole, InOrder
    <3>1. PICK hi \in 0..MaxMessages : /\ ShownOf(selected) = older..hi
                                       /\ ShownOf(selected)' = first..hi
                                       /\ New(f) = first..last
      BY <2>9
    <3>2. first = IF hasOlder' THEN older' ELSE 1
      <4>1. CASE fetch[f].more
        BY <1>7, <4>1 DEF NextOlder, first
      <4>2. CASE ~fetch[f].more
        <5>1. ~(first > 1)
          BY <2>3, <4>2
        <5>2. first = 1
          BY <2>3, <5>1
        <5>3. ~hasOlder'
          BY <1>7, <4>2
        <5> QED
          BY <5>2, <5>3
      <4> QED
        BY <4>1, <4>2
    <3>3. \A m \in New(f), n \in ShownOf(selected) : m < n
      BY <2>2, <2>3, <3>1
    <3>4. InOrder
      BY PaneFacts DEF HistoryIsWhole, InOrder
    <3>5. InOrder'
      BY <2>5, <3>3, <3>4
    <3> QED
      BY <3>1, <3>2, <3>5
  <2> QED
    BY <1>2, <1>5, <1>7, <2>8, <2>10, <2>11 DEF PaneInv, PaneIsWhole
<1> QED
  BY <1>4, <1>6, <1>7 DEF ResolveOlder, Applies, StillLoading, MergeOlder

\* What comes after a stretch without a gap prolongs it.
LEMMA Prolonged ==
  ASSUME NEW lo \in Nat, NEW hi \in Nat, NEW first \in Nat, NEW last \in Nat, lo >= 1,
         lo <= first, first <= last, first <= hi + 1
  PROVE  LET top == IF last > hi THEN last ELSE hi
         IN /\ (lo..hi) \cup ((first..last) \ (lo..hi)) = lo..top
            /\ \A m \in lo..hi, n \in (first..last) \ (lo..hi) : m < n
  OBVIOUS

\* Newer messages go after the last one on display.
LEMMA ResolveNewestHolds ==
  ASSUME PaneInv, NEW f \in Fetch, ResolveNewest(f)
  PROVE  PaneInv'
<1>1. /\ fetch[f].kind \in {"nudge", "reply"} /\ fetch[f].pc \in {"answered", "failed"} /\ Ended(f)
      /\ UNCHANGED <<stored, selected, paneGen, older, hasOlder, loading, abandoned>>
  BY DEF ResolveNewest
<1>2. /\ fetch' \in [Fetch -> FetchRecord] /\ fetch'[f].kind = "none"
      /\ \A g \in Fetch : g # f => fetch'[g] = fetch[g] /\ Current(g)' = Current(g)
      /\ FetchesTypeOK'
  BY <1>1, EndedFacts
<1>3. fetch[f] \in FetchRecord /\ Knows(f) /\ fetch[f].conv \in Conversation
  BY <1>1, PaneFacts DEF FetchesTypeOK, Knows
<1>4. SelectAlone' /\ OlderAlone' /\ OlderStaysReachable'
  BY <1>1, <1>2, PaneFacts DEF SelectAlone, OlderAlone, OlderStaysReachable
<1>5. CASE UNCHANGED <<pane, torn>>
  <2>1. PaneTypeOK'
    BY <1>1, <1>2, <1>5, PaneFacts DEF PaneTypeOK
  <2>2. CursorShown' /\ HistoryIsWhole'
    BY <1>1, <1>5, PaneKept DEF SamePane
  <2> QED
    BY <1>2, <1>4, <2>1, <2>2 DEF PaneInv, PaneIsWhole
<1>6. CASE /\ fetch[f].pc = "answered" /\ pane' = pane \o Stretch(f, New(f))
           /\ torn' = (torn \/ Tears(f))
  <2> DEFINE first == fetch[f].first
             last == fetch[f].last
             lo == IF hasOlder THEN older ELSE 1
  <2>1. /\ first \in Nat /\ last \in Nat /\ first >= 1 /\ Page(f) = first..last
        /\ last <= stored[fetch[f].conv] /\ stored[fetch[f].conv] \in 0..MaxMessages
    BY <1>1, <1>3, <1>6, PaneFacts DEF FetchRecord, Page, Knows, PaneTypeOK
  <2>2. lo \in Nat /\ lo >= 1
    BY PaneFacts DEF CursorShown
  <2>3. New(f) = Page(f) \ ShownOf(fetch[f].conv) /\ New(f) \in SUBSET Nat
    BY <2>1 DEF New
  <2> HIDE DEF first, last, lo
  <2>4. /\ pane' \in Seq(StretchRecord)
        /\ \A c : ShownOf(c)' = IF c = fetch[f].conv THEN ShownOf(c) \cup New(f) ELSE ShownOf(c)
        /\ /\ InOrder
           /\ fetch[f].conv = selected => \A m \in ShownOf(selected), n \in New(f) : m < n
           => InOrder'
    BY <1>1, <1>3, <1>6, <2>3, NewestShown
  <2>5. ShownOf(selected)' = IF selected = fetch[f].conv THEN ShownOf(selected) \cup New(f)
                             ELSE ShownOf(selected)
    BY <1>1, <2>4
  <2>6. torn' \in BOOLEAN
    BY <1>6, PaneFacts DEF PaneTypeOK, Tears
  <2>7. PaneTypeOK'
    BY <1>1, <1>2, <2>4, <2>6, PaneFacts DEF PaneTypeOK
  <2>8. CursorShown'
    BY <1>1, <1>6, <2>5, PaneFacts DEF CursorShown
  <2>9. HistoryIsWhole'
    <3> SUFFICES ASSUME ~torn'
                 PROVE  (\E hi \in 0..MaxMessages : ShownOf(selected)' = lo..hi) /\ InOrder'
      BY <1>1 DEF HistoryIsWhole, InOrder, lo
    <3>1. ~torn /\ ~Tears(f)
      BY <1>6
    <3>2. PICK hi \in 0..MaxMessages : ShownOf(selected) = lo..hi
      BY <3>1, PaneFacts DEF HistoryIsWhole, lo
    <3>3. InOrder
      BY <3>1, PaneFacts DEF HistoryIsWhole, InOrder
    <3>4. hi \in Nat /\ MaxMessages \in Nat
      BY PaneFacts
    <3>5. CASE fetch[f].conv # selected \/ New(f) = {}
      <4>1. ShownOf(selected)' = lo..hi
        BY <2>5, <3>2, <3>5
      <4>2. fetch[f].conv = selected => \A m \in ShownOf(selected), n \in New(f) : m < n
        BY <3>5
      <4> QED
        BY <2>4, <3>3, <4>1, <4>2
    <3>6. CASE fetch[f].conv = selected /\ New(f) # {}
      <4>1. New(f) = (first..last) \ (lo..hi) /\ Page(f) # {}
        BY <2>1, <2>3, <3>2, <3>6
      <4>2. first <= last
        BY <2>1, <4>1
      <4>3. lo <= first /\ first <= hi + 1
        <5>1. CASE first \in lo..hi
          BY <2>1, <2>2, <3>4, <5>1
        <5>2. CASE first \notin lo..hi
          <6>1. ~(first > 1 /\ first - 1 \notin lo..hi) /\ ~(\E n \in lo..hi : first < n)
            BY <3>1, <3>2, <3>6, <4>1, <5>2 DEF Tears, first
          <6>2. CASE first > 1
            <7>1. first - 1 \in lo..hi
              BY <6>1, <6>2
            <7> QED
              BY <2>1, <2>2, <3>4, <7>1
          <6>3. CASE first = 1
            <7>1. lo..hi = {}
              <8>1. \A n \in lo..hi : n \in Nat /\ n >= 1 /\ n # 1
                BY <2>2, <5>2, <6>3
              <8>2. \A n \in lo..hi : first < n
                BY <6>3, <8>1
              <8> QED
                BY <6>1, <8>2
            <7>2. lo = 1
              <8>1. ~hasOlder
                BY <3>1, <3>2, <7>1, PaneFacts DEF CursorShown
              <8> QED
                BY <8>1 DEF lo
            <7> QED
              BY <3>4, <6>3, <7>2
          <6> QED
            BY <2>1, <6>2, <6>3
        <5> QED
          BY <5>1, <5>2
      <4> DEFINE top == IF last > hi THEN last ELSE hi
      <4>4. /\ (lo..hi) \cup ((first..last) \ (lo..hi)) = lo..top
            /\ \A m \in lo..hi, n \in (first..last) \ (lo..hi) : m < n
        BY <2>1, <2>2, <3>4, <4>2, <4>3, Prolonged
      <4>5. top \in 0..MaxMessages
        BY <2>1, <3>4 DEF last
      <4> HIDE DEF top
      <4>6. ShownOf(selected)' = lo..top
        BY <2>5, <3>2, <3>6, <4>1, <4>4
      <4>7. \A m \in ShownOf(selected), n \in New(f) : m < n
        BY <3>2, <4>1, <4>4
      <4> QED
        BY <2>4, <3>3, <4>5, <4>6, <4>7
    <3> QED
      BY <3>5, <3>6
  <2> QED
    BY <1>2, <1>4, <2>7, <2>8, <2>9 DEF PaneInv, PaneIsWhole
<1> QED
  BY <1>5, <1>6 DEF ResolveNewest, MergeNewest

\* Every step preserves the invariant.
LEMMA PanesHold == PaneInv /\ [PaneNext]_paneVars => PaneInv'
<1> SUFFICES ASSUME PaneInv, [PaneNext]_paneVars PROVE PaneInv'
  OBVIOUS
<1>1. ASSUME NEW c \in Conversation, Store(c) \/ \E f \in Fetch : SelectConversation(f, c)
      PROVE  PaneInv'
  BY <1>1, StoreHolds, SelectHolds
<1>2. ASSUME NEW f \in Fetch,
             \/ LoadOlderMessages(f) \/ Nudge(f) \/ HandleReply(f) \/ Sent(f) \/ Answer(f)
             \/ ResolveSelect(f) \/ ResolveOlder(f) \/ ResolveNewest(f)
      PROVE  PaneInv'
  BY <1>2, LoadHolds, NudgeHolds, SentHolds, PageAnswered, ResolveSelectHolds, ResolveOlderHolds,
     ResolveNewestHolds
<1>3. ASSUME UNCHANGED paneVars PROVE PaneInv'
  <2>1. UNCHANGED <<stored, selected, paneGen, pane, older, hasOlder, loading, fetch, torn, abandoned>>
    BY <1>3 DEF paneVars, display
  <2>2. PaneTypeOK'
    BY <2>1, PaneFacts DEF PaneTypeOK
  <2>3. FetchesTypeOK'
    BY <2>1, PaneFacts DEF FetchesTypeOK, Page
  <2>4. SelectAlone' /\ OlderAlone' /\ OlderStaysReachable'
    BY <2>1, PaneFacts DEF SelectAlone, OlderAlone, OlderStaysReachable, Current
  <2>5. CursorShown' /\ HistoryIsWhole'
    BY <2>1, PaneKept DEF SamePane
  <2> QED
    BY <2>2, <2>3, <2>4, <2>5 DEF PaneInv, PaneIsWhole
<1> QED
  BY <1>1, <1>2, <1>3 DEF PaneNext

\* For any number of conversations, messages, fetches and selections, and any
\* size of a page: what is shown of the open conversation is an unbroken
\* stretch of it in order, down to the cursor or to the first message, and the
\* button for older messages comes back, but for what the property names
\* (selectConversation, loadOlderMessages, mergeNewestMessagesPage,
\* mergeOlderMessagesPage).
THEOREM PaneStaysWhole == PaneSpec => []PaneIsWhole
<1>1. PaneInv => PaneIsWhole
  BY DEF PaneInv
<1> QED
  BY PaneInitially, PanesHold, <1>1, PTL DEF PaneSpec

-----------------------------------------------------------------------------
\* The conversation list.

QueryRecord ==
  [pc : {"idle", "asked", "answered", "failed"}, kind : {"none", "fresh", "merge", "more"},
   gen : Nat, view : Views, from : Nat, page : SUBSET Thread, more : BOOLEAN, next : Nat]

ListTypeOK ==
  /\ key \in [Thread -> Nat \ {0}] /\ \A r, s \in Thread : key[r] = key[s] => r = s
  /\ view \in Views /\ captured \in Views /\ loaded \in Views \cup {"none"}
  /\ listGen \in Nat /\ boundary \in Nat
  /\ hasMore \in BOOLEAN /\ loadingMore \in BOOLEAN /\ dropped \in BOOLEAN
  /\ query \in [Query -> QueryRecord]
  /\ \A q \in Query : /\ query[q].pc = "idle" => query[q] = NoQuery
                      /\ query[q].gen <= listGen

\* Of the calls that are up to date, a fresh load is the only one and has the
\* list to itself; a "Load more" is the only one and goes on at the boundary;
\* a merge has the view of the handler.
FreshAlone ==
  \A q \in Query : UpToDate(q) /\ query[q].kind = "fresh" =>
    /\ loaded = "none" /\ ~hasMore /\ query[q].from = 0
    /\ \A p \in Query : UpToDate(p) /\ query[p].kind = "fresh" => p = q
MoreAlone ==
  \A q \in Query : UpToDate(q) /\ query[q].kind = "more" =>
    /\ loadingMore /\ hasMore /\ query[q].view = view /\ query[q].from = boundary
    /\ \A p \in Query : UpToDate(p) /\ query[p].kind = "more" => p = q
MergesCaptured ==
  \A q \in Query : UpToDate(q) /\ query[q].kind = "merge" => query[q].view = captured

\* A page has all between its cursors that has not moved.
PagesComplete ==
  \A q \in Query : UpToDate(q) /\ query[q].kind \in {"fresh", "more"} /\ query[q].pc = "answered" =>
    /\ query[q].more => query[q].next > 0
    /\ \A r \in Matching(query[q].view, query[q].from) \ moved :
         (query[q].more => key[r] >= query[q].next) => r \in query[q].page

CallsInv == FreshAlone /\ MoreAlone /\ MergesCaptured /\ PagesComplete

ListInv == ListTypeOK /\ CallsInv /\ ListIsWhole

\* Numbers given to the elements of a set have a least one.
LEMMA LeastExists ==
  ASSUME NEW S, S # {}, NEW f, \A x \in S : f[x] \in Nat
  PROVE  \E x \in S : \A y \in S : f[x] <= f[y]
<1> DEFINE T == {f[x] : x \in S}
<1>1. T \subseteq Nat /\ T # {}
  OBVIOUS
<1>2. IsWellFoundedOn(OpToRel(<, Nat), Nat)
  BY NatLessThanWellFounded
<1> HIDE DEF T
<1>3. PICK t \in T : \A u \in T : ~(<<u, t>> \in OpToRel(<, Nat))
  BY <1>1, <1>2, WFMin
<1>4. \A u \in T : ~(u < t)
  BY <1>1, <1>3 DEF OpToRel
<1>5. PICK x \in S : t = f[x]
  BY DEF T
<1>6. \A y \in S : f[y] \in T
  BY DEF T
<1>7. \A y \in S : f[x] <= f[y]
  BY <1>4, <1>5, <1>6
<1> QED
  BY <1>7

\* A page is the beginning of what matches: all of it, or the rows down to the
\* cursor, which is a key.
LEMMA PageFacts ==
  ASSUME ListTypeOK, NEW all \in SUBSET Thread
  PROVE  /\ FirstOf(all) \subseteq all
         /\ ~(Cardinality(all) > ListLimit) => FirstOf(all) = all
         /\ Cardinality(all) > ListLimit =>
              /\ NextOf(all) \in Nat \ {0}
              /\ \A r \in all : key[r] >= NextOf(all) => r \in FirstOf(all)
<1> DEFINE Above(r) == {s \in all : key[s] >= key[r]}
           page == FirstOf(all)
<1>1. key \in [Thread -> Nat \ {0}] /\ \A r, s \in Thread : key[r] = key[s] => r = s
  BY DEF ListTypeOK
<1>2. IsFiniteSet(all) /\ ListLimit \in Nat \ {0} /\ Cardinality(all) \in Nat
  BY ConversationListAssumption, FS_Subset, FS_CardinalityType
<1>3. ASSUME NEW r \in all
      PROVE  IsFiniteSet(Above(r)) /\ Cardinality(Above(r)) \in Nat /\ Cardinality(Above(r)) <= Cardinality(all)
  <2>1. Above(r) \in SUBSET all
    OBVIOUS
  <2> HIDE DEF Above
  <2> QED
    BY <1>2, <2>1, FS_Subset, FS_CardinalityType
<1>4. page = {r \in all : Cardinality(Above(r)) <= ListLimit}
  BY DEF FirstOf
<1>5. page \subseteq all
  BY <1>4
<1>6. ASSUME ~(Cardinality(all) > ListLimit) PROVE page = all
  <2>1. \A r \in all : Cardinality(Above(r)) <= ListLimit
    BY <1>2, <1>3, <1>6
  <2> QED
    BY <1>4, <2>1
<1>7. ASSUME Cardinality(all) > ListLimit PROVE page # {}
  <2> DEFINE rank == [r \in all |-> Cardinality(Above(r))]
  <2>1. all # {}
    BY <1>2, <1>7, FS_EmptySet
  <2>2. \A r \in all : rank[r] \in Nat /\ rank[r] = Cardinality(Above(r))
    BY <1>3
  <2> HIDE DEF rank
  <2>3. PICK r \in all : \A s \in all : rank[r] <= rank[s]
    BY <2>1, <2>2, LeastExists
  <2>4. ASSUME NEW s \in Above(r) PROVE s = r
    <3>1. s \in all /\ key[s] >= key[r]
      OBVIOUS
    <3>2. SUFFICES ASSUME s # r PROVE FALSE
      OBVIOUS
    <3>3. key[s] > key[r] /\ key[s] \in Nat /\ key[r] \in Nat
      BY <1>1, <3>1, <3>2
    <3>4. Above(s) \in SUBSET Above(r)
      BY <1>1, <3>3
    <3>5. r \in Above(r) /\ r \notin Above(s)
      BY <3>3
    <3>6. Cardinality(Above(r)) = Cardinality(Above(s))
      <4>1. Cardinality(Above(r)) <= Cardinality(Above(s))
        BY <2>2, <2>3, <3>1
      <4>2. Cardinality(Above(s)) <= Cardinality(Above(r))
        <5>1. IsFiniteSet(Above(r))
          BY <1>3
        <5> HIDE DEF Above
        <5> QED
          BY <3>4, <5>1, FS_Subset
      <4>3. Cardinality(Above(s)) \in Nat /\ Cardinality(Above(r)) \in Nat
        BY <1>3, <3>1
      <4> HIDE DEF Above
      <4> QED
        BY <4>1, <4>2, <4>3
    <3>7. Above(r) = Above(s)
      <4>1. IsFiniteSet(Above(r))
        BY <1>3
      <4> HIDE DEF Above
      <4> QED
        BY <3>4, <3>6, <4>1, FS_Subset
    <3> QED
      BY <3>5, <3>7
  <2>5. r \in Above(r)
    BY <1>1
  <2>6. Above(r) = {r}
    BY <2>4, <2>5
  <2>7. Cardinality(Above(r)) = 1
    BY <2>6, FS_Singleton
  <2>8. r \in page
    BY <1>2, <1>4, <2>7
  <2> QED
    BY <2>8
<1>8. ASSUME Cardinality(all) > ListLimit
      PROVE  /\ NextOf(all) \in Nat \ {0}
             /\ \A r \in all : key[r] >= NextOf(all) => r \in page
  <2> DEFINE Last(r) == r \in page /\ \A s \in page : key[r] <= key[s]
  <2>1. \A r \in page : key[r] \in Nat \ {0}
    BY <1>1, <1>5
  <2>2. page # {}
    BY <1>7, <1>8
  <2>3. \E r \in page : \A s \in page : key[r] <= key[s]
    <3> HIDE DEF page
    <3> QED
      BY <2>1, <2>2, LeastExists
  <2>4. PICK last \in page : key[last] = NextOf(all)
    <3>1. NextOf(all) = key[CHOOSE r \in page : \A s \in page : key[r] <= key[s]]
      BY DEF NextOf
    <3> HIDE DEF page
    <3> QED
      BY <2>3, <3>1
  <2>5. ASSUME NEW r \in all, key[r] >= NextOf(all) PROVE r \in page
    <3>1. last \in all /\ Cardinality(Above(last)) <= ListLimit
      BY <1>4
    <3>2. key[r] >= key[last] /\ key[r] \in Nat /\ key[last] \in Nat
      BY <1>1, <2>4, <2>5, <3>1
    <3>3. Above(r) \in SUBSET Above(last)
      BY <1>1, <3>1, <3>2
    <3>4. Cardinality(Above(r)) <= Cardinality(Above(last))
      <4>1. IsFiniteSet(Above(last))
        BY <1>3, <3>1
      <4> HIDE DEF Above
      <4> QED
        BY <3>3, <4>1, FS_Subset
    <3>5. Cardinality(Above(r)) \in Nat /\ Cardinality(Above(last)) \in Nat
      BY <1>3, <3>1
    <3>6. Cardinality(Above(r)) <= ListLimit
      <4> HIDE DEF Above
      <4> QED
        BY <1>2, <3>1, <3>4, <3>5
    <3> QED
      BY <1>4, <3>6
  <2> QED
    BY <2>1, <2>4, <2>5
<1> QED
  BY <1>5, <1>6, <1>8

\* At the start nothing is loaded.
LEMMA ListInitially == ListInit => ListInv
<1> SUFFICES ASSUME ListInit PROVE ListInv
  OBVIOUS
<1>1. Cardinality(Thread) \in Nat
  BY ConversationListAssumption, FS_CardinalityType
<1>2. NoQuery \in QueryRecord /\ NoQuery.kind = "none" /\ NoQuery.gen = 0
  BY DEF NoQuery, QueryRecord, Views
<1>3. \A q \in Query : query[q] = NoQuery
  BY DEF ListInit
<1>4. ListTypeOK
  <2>1. key \in [Thread -> Nat \ {0}]
    <3>1. 1..Cardinality(Thread) \subseteq Nat \ {0}
      BY <1>1
    <3> QED
      BY <3>1 DEF ListInit
  <2>2. query \in [Query -> QueryRecord]
    BY <1>2 DEF ListInit
  <2>3. \A q \in Query : query[q].gen <= listGen
    BY <1>2, <1>3 DEF ListInit
  <2> QED
    BY <1>3, <2>1, <2>2, <2>3 DEF ListTypeOK, ListInit, Views
<1>5. CallsInv
  BY <1>2, <1>3 DEF CallsInv, FreshAlone, MoreAlone, MergesCaptured, PagesComplete
<1>6. ListIsWhole
  BY DEF ListIsWhole, ListIsReachable, RowsOfTheView, ListInit
<1> QED
  BY <1>4, <1>5, <1>6 DEF ListInv

\* What the parts of the invariant say of the calls.
LEMMA CallFacts ==
  ASSUME ListInv
  PROVE  /\ ListTypeOK /\ FreshAlone /\ MoreAlone /\ MergesCaptured /\ PagesComplete
         /\ ListIsReachable /\ RowsOfTheView
         /\ \A q \in Query : query[q] \in QueryRecord
         /\ listGen \in Nat
  BY DEF ListInv, CallsInv, ListIsWhole, ListTypeOK

\* A conversation that changes was not in its place, or is not any more.
LEMMA MovesHold ==
  ASSUME ListInv, NEW r \in Thread, Touch(r) \/ Archive(r)
  PROVE  ListInv'
<1>1. /\ UNCHANGED <<shownVars, query, loaded, dropped>>
      /\ moved' = moved \cup {r}
      /\ \A s \in Thread \ {r} : key'[s] = key[s] /\ ViewOf(s)' = ViewOf(s)
  BY CallFacts DEF Touch, Archive, ListTypeOK, ViewOf
<1>2. UNCHANGED <<view, captured, listGen, conversations, boundary, hasMore, loadingMore>>
  BY <1>1 DEF shownVars
<1>3. key' \in [Thread -> Nat \ {0}] /\ \A s, t \in Thread : key'[s] = key'[t] => s = t
  <2>1. key \in [Thread -> Nat \ {0}] /\ \A s, t \in Thread : key[s] = key[t] => s = t
    BY CallFacts DEF ListTypeOK
  <2>2. CASE UNCHANGED key
    BY <2>1, <2>2
  <2>3. CASE \E k \in (1..MaxKey) \ Keys : key' = [key EXCEPT ![r] = k]
    <3>1. PICK k \in (1..MaxKey) \ Keys : key' = [key EXCEPT ![r] = k]
      BY <2>3
    <3>2. \A s \in Thread : key[s] # k
      BY <3>1 DEF Keys
    <3>3. k \in Nat \ {0}
      BY <3>1, ConversationListAssumption
    <3> QED
      BY <2>1, <3>1, <3>2, <3>3
  <2> QED
    BY <2>2, <2>3 DEF Touch, Archive
<1>4. ListTypeOK'
  BY <1>1, <1>2, <1>3, CallFacts DEF ListTypeOK
<1>5. \A q \in Query : UpToDate(q)' = UpToDate(q)
  BY <1>1, <1>2 DEF UpToDate
<1>6. FreshAlone' /\ MoreAlone' /\ MergesCaptured'
  BY <1>1, <1>2, <1>5, CallFacts DEF FreshAlone, MoreAlone, MergesCaptured
<1>7. PagesComplete'
  <2>1. \A v, from : (Matching(v, from) \ moved)' \subseteq Matching(v, from) \ moved
    BY <1>1 DEF Matching
  <2>2. \A v, from : \A s \in (Matching(v, from) \ moved)' : key'[s] = key[s]
    BY <1>1 DEF Matching
  <2> QED
    BY <1>1, <1>5, <2>1, <2>2, CallFacts DEF PagesComplete
<1>8. ListIsReachable'
  BY <1>1, <1>2, <1>5, CallFacts DEF ListIsReachable, Dropping
<1>9. RowsOfTheView'
  BY <1>1, <1>2, CallFacts DEF RowsOfTheView
<1> QED
  BY <1>4, <1>6, <1>7, <1>8, <1>9 DEF ListInv, CallsInv, ListIsWhole

\* A call that changes.
LEMMA CallSet ==
  ASSUME ListInv, NEW q \in Query, NEW new \in QueryRecord, query' = [query EXCEPT ![q] = new]
  PROVE  /\ query' \in [Query -> QueryRecord]
         /\ \A p \in Query : query'[p] = IF p = q THEN new ELSE query[p]
  BY CallFacts DEF ListTypeOK

\* The endpoint answers with the rows of now; a fresh load that is up to date
\* counts the moves anew.
LEMMA ListHolds ==
  ASSUME ListInv, NEW q \in Query, List(q)
  PROVE  ListInv'
<1> DEFINE all == Matching(query[q].view, query[q].from)
           more == Cardinality(all) > ListLimit
           answer == [query[q] EXCEPT !.pc = "answered", !.more = more, !.page = FirstOf(all),
                                      !.next = IF more THEN NextOf(all) ELSE 0]
           failure == [query[q] EXCEPT !.pc = "failed"]
<1>1. /\ UNCHANGED <<serverVars, shownVars, loaded, dropped>> /\ query[q].pc = "asked"
      /\ moved' = IF query[q].kind = "fresh" /\ UpToDate(q) THEN {} ELSE moved
      /\ query' = [query EXCEPT ![q] = answer] \/ query' = [query EXCEPT ![q] = failure]
  BY DEF List
<1>2. UNCHANGED <<key, archived, view, captured, listGen, conversations, boundary, hasMore, loadingMore, loaded, dropped>>
  BY <1>1 DEF serverVars, shownVars
<1>3. all \in SUBSET Thread
  BY DEF Matching
<1>4. /\ FirstOf(all) \subseteq all
      /\ ~more => FirstOf(all) = all
      /\ more => /\ NextOf(all) \in Nat \ {0}
                 /\ \A r \in all : key[r] >= NextOf(all) => r \in FirstOf(all)
  BY <1>3, CallFacts, PageFacts
<1>5. query[q] \in QueryRecord
  BY CallFacts
<1>6. /\ answer \in QueryRecord /\ answer.pc = "answered"
      /\ answer.kind = query[q].kind /\ answer.gen = query[q].gen /\ answer.view = query[q].view
      /\ answer.from = query[q].from /\ answer.page = FirstOf(all) /\ answer.more = more
      /\ more => answer.next = NextOf(all)
  <2>1. more \in BOOLEAN /\ (IF more THEN NextOf(all) ELSE 0) \in Nat /\ FirstOf(all) \in SUBSET Thread
    BY <1>3, <1>4
  <2> HIDE DEF more, all
  <2> QED
    BY <1>5, <2>1 DEF QueryRecord
<1>7. /\ failure \in QueryRecord /\ failure.pc = "failed"
      /\ failure.kind = query[q].kind /\ failure.gen = query[q].gen /\ failure.view = query[q].view
      /\ failure.from = query[q].from
  BY <1>5 DEF QueryRecord
<1> HIDE DEF answer, failure
<1>8. PICK new \in {answer, failure} : query' = [query EXCEPT ![q] = new]
  BY <1>1
<1>9. /\ new \in QueryRecord /\ new.pc \in {"answered", "failed"} /\ new.kind = query[q].kind
      /\ new.gen = query[q].gen /\ new.view = query[q].view /\ new.from = query[q].from
  BY <1>6, <1>7
<1>10. /\ query' \in [Query -> QueryRecord]
       /\ \A p \in Query : query'[p] = IF p = q THEN new ELSE query[p]
  BY <1>8, <1>9, CallSet
<1>11. \A p \in Query : /\ query'[p].kind = query[p].kind /\ query'[p].gen = query[p].gen
                        /\ query'[p].view = query[p].view /\ query'[p].from = query[p].from
                        /\ UpToDate(p)' = UpToDate(p)
  BY <1>2, <1>9, <1>10 DEF UpToDate
<1>12. ListTypeOK'
  BY <1>2, <1>9, <1>10, CallFacts DEF ListTypeOK
<1>13. FreshAlone' /\ MoreAlone' /\ MergesCaptured'
  BY <1>2, <1>11, CallFacts DEF FreshAlone, MoreAlone, MergesCaptured
<1>14. PagesComplete'
  <2> SUFFICES ASSUME NEW p \in Query, UpToDate(p)', query'[p].kind \in {"fresh", "more"},
                      query'[p].pc = "answered"
               PROVE  /\ query'[p].more => query'[p].next > 0
                      /\ \A r \in (Matching(query'[p].view, query'[p].from) \ moved') :
                           (query'[p].more => key'[r] >= query'[p].next) => r \in query'[p].page
    BY <1>2 DEF PagesComplete, Matching, ViewOf
  <2>1. CASE p = q
    <3>1. query'[p] = answer
      BY <1>7, <1>8, <1>10, <2>1
    <3>2. Matching(query'[p].view, query'[p].from) = all
      BY <1>11, <2>1
    <3> HIDE DEF all, more
    <3> QED
      BY <1>2, <1>4, <1>6, <3>1, <3>2
  <2>2. CASE p # q
    <3>1. query'[p] = query[p] /\ UpToDate(p)
      BY <1>10, <1>11, <2>2
    <3>2. ~(query[q].kind = "fresh" /\ UpToDate(q))
      <4>1. SUFFICES ASSUME query[q].kind = "fresh", UpToDate(q) PROVE FALSE
        OBVIOUS
      <4>2. ~hasMore /\ (query[p].kind = "fresh" => p = q)
        BY <3>1, <4>1, CallFacts DEF FreshAlone
      <4>3. query[p].kind = "more" => hasMore
        BY <3>1, CallFacts DEF MoreAlone
      <4> QED
        BY <2>2, <3>1, <4>2, <4>3
    <3>3. moved' = moved
      BY <1>1, <3>2
    <3> QED
      BY <1>2, <3>1, <3>3, CallFacts DEF PagesComplete
  <2> QED
    BY <2>1, <2>2
<1>15. ListIsReachable'
  <2>1. Dropping' = Dropping
    BY <1>11 DEF Dropping
  <2>2. loaded' = view' => moved' = moved
    <3>1. query[q].kind = "fresh" /\ UpToDate(q) => loaded = "none"
      BY CallFacts DEF FreshAlone
    <3>2. view \in Views
      BY CallFacts DEF ListTypeOK
    <3> QED
      BY <1>1, <1>2, <3>1, <3>2 DEF Views
  <2>3. ListIsReachable
    BY CallFacts
  <2> QED
    BY <1>2, <2>1, <2>2, <2>3 DEF ListIsReachable, ViewOf
<1>16. RowsOfTheView'
  BY <1>2, CallFacts DEF RowsOfTheView
<1> QED
  BY <1>12, <1>13, <1>14, <1>15, <1>16 DEF ListInv, CallsInv, ListIsWhole

\* A call that is asked.
LEMMA AskFacts ==
  ASSUME ListInv, NEW q \in Query, NEW kind \in {"fresh", "merge", "more"}, NEW gen \in Nat,
         NEW v \in Views, NEW from \in Nat, Asks(q, kind, gen, v, from)
  PROVE  /\ query[q].kind = "none" /\ query' \in [Query -> QueryRecord]
         /\ \A p \in Query : p # q => query'[p] = query[p]
         /\ query'[q].pc = "asked" /\ query'[q].kind = kind /\ query'[q].gen = gen
         /\ query'[q].view = v /\ query'[q].from = from
<1> DEFINE new == [NoQuery EXCEPT !.pc = "asked", !.kind = kind, !.gen = gen, !.view = v, !.from = from]
<1>1. query[q].pc = "idle" /\ query' = [query EXCEPT ![q] = new]
  BY DEF Asks
<1>2. query[q] = NoQuery
  BY <1>1, CallFacts DEF ListTypeOK
<1>3. /\ new \in QueryRecord /\ new.pc = "asked" /\ new.kind = kind /\ new.gen = gen
      /\ new.view = v /\ new.from = from
  BY DEF NoQuery, QueryRecord, Views
<1>4. NoQuery.kind = "none"
  BY DEF NoQuery
<1> HIDE DEF new
<1>5. /\ query' \in [Query -> QueryRecord]
      /\ \A p \in Query : query'[p] = IF p = q THEN new ELSE query[p]
  BY <1>1, <1>3, CallSet
<1> QED
  BY <1>2, <1>3, <1>4, <1>5

\* A fresh load supersedes every other call.
LEMMA RefreshHolds ==
  ASSUME ListInv, NEW q \in Query, NEW v \in Views, RefreshConversations(q, v),
         UNCHANGED <<key, archived, conversations, loadingMore, moved>>, view' \in Views /\ captured' \in Views
  PROVE  ListInv'
<1>1. /\ listGen' = listGen + 1 /\ Asks(q, "fresh", listGen + 1, v, 0)
      /\ boundary' = 0 /\ hasMore' = FALSE /\ loaded' = "none" /\ dropped' = (dropped \/ Dropping)
  BY DEF RefreshConversations
<1>2. listGen \in Nat /\ listGen + 1 \in Nat
  BY CallFacts
<1>3. /\ query[q].kind = "none" /\ query' \in [Query -> QueryRecord]
      /\ \A p \in Query : p # q => query'[p] = query[p]
      /\ query'[q].pc = "asked" /\ query'[q].kind = "fresh" /\ query'[q].gen = listGen + 1
      /\ query'[q].view = v /\ query'[q].from = 0
  BY <1>1, <1>2, AskFacts
<1>4. \A p \in Query : query[p].gen <= listGen /\ query[p].gen \in Nat
  BY CallFacts DEF ListTypeOK, QueryRecord
<1>5. \A p \in Query : UpToDate(p)' <=> p = q
  BY <1>1, <1>2, <1>3, <1>4 DEF UpToDate
<1>6. ListTypeOK'
  <2>1. dropped' \in BOOLEAN
    BY <1>1, CallFacts DEF ListTypeOK, Dropping
  <2>2. \A p \in Query : query'[p].gen <= listGen' /\ (query'[p].pc = "idle" => query'[p] = NoQuery)
    BY <1>1, <1>2, <1>3, <1>4, CallFacts DEF ListTypeOK
  <2> QED
    BY <1>1, <1>2, <1>3, <2>1, <2>2, CallFacts DEF ListTypeOK
<1>7. CallsInv'
  BY <1>1, <1>3, <1>5 DEF CallsInv, FreshAlone, MoreAlone, MergesCaptured, PagesComplete
<1>8. ListIsWhole'
  <2>1. loaded' # view'
    BY <1>1 DEF Views
  <2>2. loadingMore' => dropped'
    BY <1>1, CallFacts DEF ListIsReachable
  <2> QED
    BY <1>1, <2>1, <2>2 DEF ListIsWhole, ListIsReachable, RowsOfTheView
<1> QED
  BY <1>6, <1>7, <1>8 DEF ListInv

\* The other calls that are asked are up to date, and answered later.
LEMMA AsksHold ==
  ASSUME ListInv, NEW q \in Query, MergeConversationsRealtime(q) \/ LoadMoreConversations(q)
  PROVE  ListInv'
<1>1. /\ UNCHANGED <<key, archived, view, captured, listGen, conversations, boundary, hasMore, loaded, moved, dropped>>
      /\ \/ Asks(q, "merge", listGen, captured, 0) /\ UNCHANGED loadingMore
         \/ /\ Asks(q, "more", listGen, view, boundary) /\ loadingMore' = TRUE
            /\ hasMore /\ ~loadingMore /\ boundary > 0
  BY DEF MergeConversationsRealtime, LoadMoreConversations, serverVars, shownVars
<1>2. /\ listGen \in Nat /\ boundary \in Nat /\ view \in Views /\ captured \in Views
      /\ ListTypeOK
  BY CallFacts DEF ListTypeOK
<1>3. /\ query[q].kind = "none" /\ query' \in [Query -> QueryRecord]
      /\ \A p \in Query : p # q => query'[p] = query[p]
      /\ query'[q].pc = "asked" /\ query'[q].gen = listGen
      /\ \/ query'[q].kind = "merge" /\ query'[q].view = captured /\ UNCHANGED loadingMore
         \/ /\ query'[q].kind = "more" /\ query'[q].view = view /\ query'[q].from = boundary
            /\ loadingMore' = TRUE /\ hasMore /\ ~loadingMore
  <2>1. CASE Asks(q, "merge", listGen, captured, 0) /\ UNCHANGED loadingMore
    BY <1>2, <2>1, AskFacts
  <2>2. CASE /\ Asks(q, "more", listGen, view, boundary) /\ loadingMore' = TRUE
             /\ hasMore /\ ~loadingMore /\ boundary > 0
    BY <1>2, <2>2, AskFacts
  <2> QED
    BY <1>1, <2>1, <2>2
<1>4. \A p \in Query : p # q => UpToDate(p)' = UpToDate(p)
  BY <1>1, <1>3 DEF UpToDate
<1>5. ListTypeOK'
  <2>1. loadingMore' \in BOOLEAN
    BY <1>2, <1>3 DEF ListTypeOK
  <2>2. \A p \in Query : query'[p].gen <= listGen' /\ (query'[p].pc = "idle" => query'[p] = NoQuery)
    BY <1>1, <1>2, <1>3 DEF ListTypeOK
  <2> QED
    BY <1>1, <1>2, <1>3, <2>1, <2>2 DEF ListTypeOK
<1>6. FreshAlone'
  BY <1>1, <1>3, <1>4, CallFacts DEF FreshAlone
<1>7. MoreAlone'
  BY <1>1, <1>3, <1>4, CallFacts DEF MoreAlone
<1>8. MergesCaptured'
  BY <1>1, <1>3, <1>4, CallFacts DEF MergesCaptured
<1>9. PagesComplete'
  BY <1>1, <1>3, <1>4, CallFacts DEF PagesComplete, Matching, ViewOf
<1>10. ListIsReachable'
  <2>1. loadingMore' => dropped' \/ Dropping'
    <3>1. CASE query'[q].kind = "more"
      BY <1>1, <1>3, <3>1 DEF Dropping, UpToDate
    <3>2. CASE UNCHANGED loadingMore
      <4>1. Dropping => Dropping'
        BY <1>3, <1>4 DEF Dropping
      <4> QED
        BY <1>1, <3>2, <4>1, CallFacts DEF ListIsReachable
    <3> QED
      BY <1>3, <3>1, <3>2
  <2> QED
    BY <1>1, <2>1, CallFacts DEF ListIsReachable, ViewOf
<1>11. RowsOfTheView'
  BY <1>1, CallFacts DEF RowsOfTheView
<1> QED
  BY <1>5, <1>6, <1>7, <1>8, <1>9, <1>10, <1>11 DEF ListInv, CallsInv, ListIsWhole

\* A call that ends is neither up to date nor of any kind.
LEMMA FinishFacts ==
  ASSUME ListInv, NEW q \in Query, Finishes(q), UNCHANGED <<key, archived, listGen, moved>>
  PROVE  /\ query' \in [Query -> QueryRecord] /\ query'[q] = NoQuery /\ query'[q].kind = "none"
         /\ \A p \in Query : p # q => query'[p] = query[p] /\ UpToDate(p)' = UpToDate(p)
         /\ \A p \in Query : query'[p].pc = "idle" => query'[p] = NoQuery
         /\ \A p \in Query : query'[p].gen <= listGen'
         /\ UNCHANGED captured => MergesCaptured'
         /\ PagesComplete'
<1>1. /\ NoQuery \in QueryRecord /\ NoQuery.kind = "none" /\ NoQuery.pc = "idle" /\ NoQuery.gen = 0
  BY DEF NoQuery, QueryRecord, Views
<1>2. /\ query' \in [Query -> QueryRecord]
      /\ \A p \in Query : query'[p] = IF p = q THEN NoQuery ELSE query[p]
  BY <1>1, CallSet DEF Finishes
<1>3. \A p \in Query : p # q => query'[p] = query[p] /\ UpToDate(p)' = UpToDate(p)
  BY <1>2 DEF UpToDate
<1>4. /\ \A p \in Query : query'[p].pc = "idle" => query'[p] = NoQuery
      /\ \A p \in Query : query'[p].gen <= listGen'
  BY <1>1, <1>2, CallFacts DEF ListTypeOK
<1>5. query'[q] = NoQuery /\ query'[q].kind = "none"
  BY <1>1, <1>2
<1>6. UNCHANGED captured => MergesCaptured'
  BY <1>3, <1>5, CallFacts DEF MergesCaptured
<1>7. PagesComplete'
  BY <1>3, <1>5, CallFacts DEF PagesComplete, Matching, ViewOf
<1> QED
  BY <1>2, <1>3, <1>4, <1>5, <1>6, <1>7

\* A result that is discarded, or an error, leaves the list as it is.
LEMMA EndsHold ==
  ASSUME ListInv, NEW q \in Query, Discard(q) \/ Fail(q)
  PROVE  ListInv'
<1>1. /\ Finishes(q)
      /\ UNCHANGED <<key, archived, view, captured, listGen, conversations, boundary, hasMore, loaded, moved, dropped>>
      /\ \/ ~UpToDate(q) /\ UNCHANGED loadingMore
         \/ UpToDate(q) /\ loadingMore' = (loadingMore /\ query[q].kind # "more")
  BY DEF Discard, Fail, serverVars, shownVars
<1>2. /\ query' \in [Query -> QueryRecord] /\ query'[q].kind = "none"
      /\ \A p \in Query : p # q => query'[p] = query[p] /\ UpToDate(p)' = UpToDate(p)
      /\ \A p \in Query : query'[p].pc = "idle" => query'[p] = NoQuery
      /\ \A p \in Query : query'[p].gen <= listGen'
      /\ MergesCaptured' /\ PagesComplete'
  BY <1>1, FinishFacts
<1>3. ListTypeOK'
  <2>1. loadingMore' \in BOOLEAN
    BY <1>1, CallFacts DEF ListTypeOK
  <2> QED
    BY <1>1, <1>2, <2>1, CallFacts DEF ListTypeOK
<1>4. FreshAlone'
  BY <1>1, <1>2, CallFacts DEF FreshAlone
<1>5. MoreAlone'
  <2> SUFFICES ASSUME NEW p \in Query, UpToDate(p)', query'[p].kind = "more"
               PROVE  /\ loadingMore' /\ hasMore' /\ query'[p].view = view' /\ query'[p].from = boundary'
                      /\ \A o \in Query : UpToDate(o)' /\ query'[o].kind = "more" => o = p
    BY DEF MoreAlone
  <2>1. p # q /\ query'[p] = query[p] /\ UpToDate(p)
    BY <1>2
  <2>2. /\ loadingMore /\ hasMore /\ query[p].view = view /\ query[p].from = boundary
        /\ \A o \in Query : UpToDate(o) /\ query[o].kind = "more" => o = p
    BY <2>1, CallFacts DEF MoreAlone
  <2>3. loadingMore'
    BY <1>1, <2>1, <2>2
  <2> QED
    BY <1>1, <1>2, <2>1, <2>2, <2>3
<1>6. ListIsReachable'
  <2>1. loadingMore' => dropped' \/ Dropping'
    <3> SUFFICES ASSUME loadingMore', ~dropped' PROVE Dropping'
      OBVIOUS
    <3>1. PICK p \in Query : query[p].kind = "more" /\ UpToDate(p)
      BY <1>1, CallFacts DEF ListIsReachable, Dropping
    <3>2. p # q
      BY <1>1, <3>1
    <3> QED
      BY <1>2, <3>1, <3>2 DEF Dropping
  <2> QED
    BY <1>1, <2>1, CallFacts DEF ListIsReachable, ViewOf
<1>7. RowsOfTheView'
  BY <1>1, CallFacts DEF RowsOfTheView
<1> QED
  BY <1>2, <1>3, <1>4, <1>5, <1>6, <1>7 DEF ListInv, CallsInv, ListIsWhole

\* A page on display has the ids of the page, and the view it was fetched under.
LEMMA UnderFacts ==
  ASSUME NEW v, NEW page
  PROVE  IdsIn(Under(v, page)) = page /\ \A x \in Under(v, page) : x.view = v
<1>1. \A x \in Under(v, page) : x.view = v /\ x.id \in page
  BY DEF Under
<1>2. \A r \in page : [id |-> r, view |-> v] \in Under(v, page) /\ [id |-> r, view |-> v].id = r
  BY DEF Under
<1> QED
  BY <1>1, <1>2 DEF IdsIn

\* A merge of two lists loses no id, and has no row that neither had.
LEMMA UnionFacts ==
  ASSUME NEW rows, NEW more
  PROVE  /\ IdsIn(rows \cup Without(more, IdsIn(rows))) = IdsIn(rows) \cup IdsIn(more)
         /\ rows \cup Without(more, IdsIn(rows)) \subseteq rows \cup more
  BY DEF IdsIn, Without

\* A fresh load is the list, complete down to its cursor.
LEMMA ReplaceHolds ==
  ASSUME ListInv, NEW q \in Query, Replace(q)
  PROVE  ListInv'
<1>1. /\ query[q].pc = "answered" /\ query[q].kind = "fresh" /\ UpToDate(q) /\ Finishes(q)
      /\ conversations' = Under(query[q].view, query[q].page)
      /\ boundary' = query[q].next /\ hasMore' = query[q].more /\ loaded' = query[q].view
      /\ UNCHANGED <<key, archived, view, captured, listGen, loadingMore, moved, dropped>>
  BY DEF Replace, serverVars
<1>2. /\ query' \in [Query -> QueryRecord] /\ query'[q].kind = "none"
      /\ \A p \in Query : p # q => query'[p] = query[p] /\ UpToDate(p)' = UpToDate(p)
      /\ \A p \in Query : query'[p].pc = "idle" => query'[p] = NoQuery
      /\ \A p \in Query : query'[p].gen <= listGen'
      /\ MergesCaptured' /\ PagesComplete'
  BY <1>1, FinishFacts
<1>3. /\ query[q] \in QueryRecord /\ ~hasMore /\ query[q].from = 0
      /\ \A p \in Query : UpToDate(p) /\ query[p].kind = "fresh" => p = q
      /\ \A p \in Query : ~(UpToDate(p) /\ query[p].kind = "more")
  BY <1>1, CallFacts DEF FreshAlone, MoreAlone
<1>4. ListTypeOK'
  BY <1>1, <1>2, <1>3, CallFacts DEF ListTypeOK, QueryRecord
<1>5. FreshAlone' /\ MoreAlone'
  BY <1>2, <1>3 DEF FreshAlone, MoreAlone
<1>6. IdsIn(conversations') = query[q].page /\ \A x \in conversations' : x.view = query[q].view
  BY <1>1, UnderFacts
<1>7. ListIsReachable'
  <2>1. /\ query[q].more => query[q].next > 0
        /\ \A r \in Matching(query[q].view, 0) \ moved :
             (query[q].more => key[r] >= query[q].next) => r \in query[q].page
    BY <1>1, <1>3, CallFacts DEF PagesComplete
  <2>2. loadingMore' => dropped'
    BY <1>1, <1>3, CallFacts DEF ListIsReachable, Dropping
  <2>3. \A r \in Thread \ moved : ViewOf(r) = query[q].view => r \in Matching(query[q].view, 0) \ moved
    BY DEF Matching
  <2> QED
    BY <1>1, <1>6, <2>1, <2>2, <2>3 DEF ListIsReachable, ViewOf, IdsIn
<1>8. RowsOfTheView'
  BY <1>1, <1>6 DEF RowsOfTheView
<1> QED
  BY <1>2, <1>4, <1>5, <1>7, <1>8 DEF ListInv, CallsInv, ListIsWhole

\* A merge takes no id away, and has the view of the handler.
LEMMA MergeHolds ==
  ASSUME ListInv, NEW q \in Query, Merge(q)
  PROVE  ListInv'
<1> DEFINE page == Under(query[q].view, query[q].page)
<1>1. /\ query[q].kind = "merge" /\ UpToDate(q) /\ Finishes(q)
      /\ conversations' = page \cup Without(conversations, IdsIn(page))
      /\ UNCHANGED <<key, archived, view, captured, listGen, boundary, hasMore, loadingMore,
                     loaded, moved, dropped>>
  BY DEF Merge, serverVars
<1>2. /\ query' \in [Query -> QueryRecord] /\ query'[q].kind = "none"
      /\ \A p \in Query : p # q => query'[p] = query[p] /\ UpToDate(p)' = UpToDate(p)
      /\ \A p \in Query : query'[p].pc = "idle" => query'[p] = NoQuery
      /\ \A p \in Query : query'[p].gen <= listGen'
      /\ MergesCaptured' /\ PagesComplete'
  BY <1>1, FinishFacts
<1>3. ListTypeOK'
  BY <1>1, <1>2, CallFacts DEF ListTypeOK
<1>4. FreshAlone'
  BY <1>1, <1>2, CallFacts DEF FreshAlone
<1>5. MoreAlone'
  BY <1>1, <1>2, CallFacts DEF MoreAlone
<1>6. \A x \in page : x.view = query[q].view
  BY UnderFacts
<1> HIDE DEF page
<1>7. IdsIn(conversations) \subseteq IdsIn(conversations') /\ conversations' \subseteq page \cup conversations
  BY <1>1, UnionFacts
<1>8. ListIsReachable'
  <2>1. Dropping => Dropping'
    BY <1>1, <1>2 DEF Dropping
  <2>2. ListIsReachable
    BY CallFacts
  <2>3. IdsIn(conversations') = IdsIn(conversations)'
    BY DEF IdsIn
  <2> QED
    BY <1>1, <1>7, <2>1, <2>2, <2>3 DEF ListIsReachable, ViewOf
<1>9. RowsOfTheView'
  <2>1. query[q].view = captured
    BY <1>1, CallFacts DEF MergesCaptured
  <2> QED
    BY <1>1, <1>6, <1>7, <2>1, CallFacts DEF RowsOfTheView
<1> QED
  BY <1>2, <1>3, <1>4, <1>5, <1>8, <1>9 DEF ListInv, CallsInv, ListIsWhole

\* The next page goes on where the list ends.
LEMMA AppendHolds ==
  ASSUME ListInv, NEW q \in Query, AppendPage(q)
  PROVE  ListInv'
<1> DEFINE page == Under(query[q].view, query[q].page)
<1>1. /\ query[q].pc = "answered" /\ query[q].kind = "more" /\ UpToDate(q) /\ Finishes(q)
      /\ conversations' = conversations \cup Without(page, IdsIn(conversations))
      /\ boundary' = query[q].next /\ hasMore' = query[q].more /\ loadingMore' = FALSE
      /\ UNCHANGED <<key, archived, view, captured, listGen, loaded, moved, dropped>>
  BY DEF AppendPage, serverVars
<1>2. /\ query' \in [Query -> QueryRecord] /\ query'[q].kind = "none"
      /\ \A p \in Query : p # q => query'[p] = query[p] /\ UpToDate(p)' = UpToDate(p)
      /\ \A p \in Query : query'[p].pc = "idle" => query'[p] = NoQuery
      /\ \A p \in Query : query'[p].gen <= listGen'
      /\ MergesCaptured' /\ PagesComplete'
  BY <1>1, FinishFacts
<1>3. /\ query[q] \in QueryRecord /\ hasMore /\ query[q].view = view /\ query[q].from = boundary
      /\ boundary > 0
      /\ \A p \in Query : UpToDate(p) /\ query[p].kind = "more" => p = q
      /\ \A p \in Query : ~(UpToDate(p) /\ query[p].kind = "fresh")
  BY <1>1, CallFacts DEF FreshAlone, MoreAlone, ListIsReachable
<1>4. ListTypeOK'
  BY <1>1, <1>2, <1>3, CallFacts DEF ListTypeOK, QueryRecord
<1>5. FreshAlone' /\ MoreAlone'
  BY <1>2, <1>3 DEF FreshAlone, MoreAlone
<1>6. IdsIn(page) = query[q].page /\ \A x \in page : x.view = view
  BY <1>3, UnderFacts
<1> HIDE DEF page
<1>7. /\ IdsIn(conversations') = IdsIn(conversations) \cup query[q].page
      /\ conversations' \subseteq conversations \cup page
  BY <1>1, <1>6, UnionFacts
<1>8. ListIsReachable'
  <2>1. /\ query[q].more => query[q].next > 0
        /\ \A r \in Matching(view, boundary) \ moved :
             (query[q].more => key[r] >= query[q].next) => r \in query[q].page
    BY <1>1, <1>3, CallFacts DEF PagesComplete
  <2>2. ASSUME loaded = view, NEW r \in Thread \ moved, ViewOf(r) = view,
               query[q].more => key[r] >= query[q].next
        PROVE  r \in IdsIn(conversations')
    <3>1. CASE key[r] >= boundary
      BY <1>7, <2>2, <3>1, CallFacts DEF ListIsReachable
    <3>2. CASE ~(key[r] >= boundary)
      <4>1. key[r] < boundary
        BY <3>2, CallFacts DEF ListTypeOK
      <4>2. r \in Matching(view, boundary) \ moved
        BY <2>2, <4>1 DEF Matching
      <4> QED
        BY <1>7, <2>1, <2>2, <4>2
    <3> QED
      BY <3>1, <3>2
  <2>3. IdsIn(conversations') = IdsIn(conversations)'
    BY DEF IdsIn
  <2> QED
    BY <1>1, <2>1, <2>2, <2>3 DEF ListIsReachable, ViewOf
<1>9. RowsOfTheView'
  BY <1>1, <1>6, <1>7, CallFacts DEF RowsOfTheView
<1> QED
  BY <1>2, <1>4, <1>5, <1>8, <1>9 DEF ListInv, CallsInv, ListIsWhole

\* Every step preserves the invariant.
LEMMA ListsHold == ListInv /\ [ListNext]_listVars => ListInv'
<1> SUFFICES ASSUME ListInv, [ListNext]_listVars PROVE ListInv'
  OBVIOUS
<1>1. ASSUME NEW r \in Thread, Touch(r) \/ Archive(r) PROVE ListInv'
  BY <1>1, MovesHold
<1>2. view \in Views /\ captured \in Views
  BY CallFacts DEF ListTypeOK
<1>3. ASSUME NEW q \in Query, NEW v \in Views, SwitchView(q, v) \/ RefreshAfterAwait(q, v)
      PROVE  ListInv'
  <2>1. /\ RefreshConversations(q, v) /\ view' \in Views /\ captured' \in Views
        /\ UNCHANGED <<key, archived, conversations, loadingMore, moved>>
    BY <1>2, <1>3 DEF SwitchView, RefreshAfterAwait, serverVars
  <2> QED
    BY <2>1, RefreshHolds
<1>4. ASSUME NEW q \in Query, NewToken(q) PROVE ListInv'
  <2>1. /\ RefreshConversations(q, view) /\ view \in Views /\ view' \in Views /\ captured' \in Views
        /\ UNCHANGED <<key, archived, conversations, loadingMore, moved>>
    BY <1>2, <1>4 DEF NewToken, serverVars
  <2> QED
    BY <2>1, RefreshHolds
<1>5. ASSUME NEW q \in Query,
             \/ List(q) \/ MergeConversationsRealtime(q) \/ LoadMoreConversations(q)
             \/ Discard(q) \/ Fail(q) \/ Replace(q) \/ Merge(q) \/ AppendPage(q)
      PROVE  ListInv'
  BY <1>5, ListHolds, AsksHold, EndsHold, ReplaceHolds, MergeHolds, AppendHolds
<1>6. ASSUME UNCHANGED listVars PROVE ListInv'
  <2>1. UNCHANGED <<key, archived, view, captured, listGen, conversations, boundary, hasMore,
                    loadingMore, query, loaded, moved, dropped>>
    BY <1>6 DEF listVars, serverVars, shownVars
  <2>2. \A q \in Query : UpToDate(q)' = UpToDate(q)
    BY <2>1 DEF UpToDate
  <2>3. ListTypeOK'
    BY <2>1, CallFacts DEF ListTypeOK
  <2>4. FreshAlone' /\ MoreAlone' /\ MergesCaptured'
    BY <2>1, <2>2, CallFacts DEF FreshAlone, MoreAlone, MergesCaptured
  <2>5. PagesComplete'
    BY <2>1, <2>2, CallFacts DEF PagesComplete, Matching, ViewOf
  <2>6. ListIsReachable' /\ RowsOfTheView'
    BY <2>1, <2>2, CallFacts DEF ListIsReachable, RowsOfTheView, Dropping, ViewOf, IdsIn
  <2> QED
    BY <2>3, <2>4, <2>5, <2>6 DEF ListInv, CallsInv, ListIsWhole
<1> QED
  BY <1>1, <1>3, <1>4, <1>5, <1>6 DEF ListNext

\* For any number of conversations, calls, moves and views: what has not moved
\* since the list was loaded is on it or past its boundary, within reach, and
\* no row of another view gets in, but for what the property names
\* (refreshConversations, mergeConversationsRealtime, loadMoreConversations,
\* buildPage).
THEOREM ListStaysWhole == ListSpec => []ListIsWhole
<1>1. ListInv => ListIsWhole
  BY DEF ListInv
<1> QED
  BY ListInitially, ListsHold, <1>1, PTL DEF ListSpec
=============================================================================
