-------------------------- MODULE MCLinkedAccounts --------------------------
(***************************************************************************)
(* Instances of LinkedAccounts: either the account is connected twice, or  *)
(* it receives two messages, of which a page may hold only the first.      *)
(***************************************************************************)
EXTENDS LinkedAccounts

CONSTANT MaxTotal   \* bound on connections and messages together

MCNext == Next /\ nextRef' + arrived' <= MaxTotal

MCSpec == Init /\ [][MCNext]_vars /\ Fairness
=============================================================================
