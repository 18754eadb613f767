---------------------------- MODULE MCIngestion ----------------------------
(* Instances of Ingestion for two rules and two API processes.              *)
(* Redelivery: one message published twice, by a webhook as e1 and by a     *)
(* reconciliation pass as e2 under a relinked account; one rule matches it. *)
(* Collision: two first messages of one sender, in two conversations that   *)
(* number their messages alike, each published once.                        *)
EXTENDS Ingestion, TLC

CONSTANTS e1, e2, m1, m2, c1, c2, x1, s1, a1, a2, r1, r2, w1, w2

AccountOfEvents == e1 :> a1 @@ e2 :> a2

RedeliveryMsgOf      == e1 :> m1 @@ e2 :> m1
RedeliveryReceivedAt == m1 :> 1
RedeliveryConvOf     == m1 :> c1
RedeliveryExtOf      == m1 :> x1
RedeliverySenderOf   == m1 :> s1
RedeliveryScoreOf    == m1 :> 30
RedeliveryMatches    == m1 :> {r1}

CollisionMsgOf      == e1 :> m1 @@ e2 :> m2
CollisionReceivedAt == m1 :> 1 @@ m2 :> 2
CollisionConvOf     == m1 :> c1 @@ m2 :> c2
CollisionExtOf      == m1 :> x1 @@ m2 :> x1
CollisionSenderOf   == m1 :> s1 @@ m2 :> s1
CollisionScoreOf    == m1 :> 30 @@ m2 :> 0
CollisionMatches    == m1 :> {r1} @@ m2 :> {}
============================================================================
