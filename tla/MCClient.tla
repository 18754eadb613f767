----------------------------- MODULE MCClient -----------------------------
(***************************************************************************)
(* Instances of the web client: the tabs and their tokens, the list, the   *)
(* open conversation and the outbox.  They share no state; as in           *)
(* MCServices, a behaviour is one of theirs.                               *)
(***************************************************************************)
EXTENDS Outbox, MessagePane, ConversationList, ClientAuth, TLC

VARIABLE focus

MCInit ==
  /\ focus \in {"outbox", "pane", "list", "auth"}
  /\ OutboxInit /\ PaneInit /\ ListInit /\ AuthInit
  \* Which conversation is which is a matter of names.
  /\ key = [r \in Thread |-> r]

\* One component moves, the others keep their initial states.
Only(component, Acts) == focus = component /\ Acts /\ UNCHANGED focus

MCNext ==
  \/ Only("outbox", OutboxNext) /\ UNCHANGED <<paneVars, listVars, authVars>>
  \/ Only("pane", PaneNext) /\ UNCHANGED <<outboxVars, listVars, authVars>>
  \/ Only("list", ListNext) /\ UNCHANGED <<outboxVars, paneVars, authVars>>
  \/ Only("auth", AuthNext) /\ UNCHANGED <<outboxVars, paneVars, listVars>>

MCSpec == MCInit /\ [][MCNext]_<<focus, outboxVars, paneVars, listVars,
                                 authVars>>

\* Components that move alone may share their actors and their objects.
Symmetry == Permutations(Tab) \cup Permutations(Conversation) \cup Permutations(Op)
=============================================================================
