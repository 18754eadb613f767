----------------------------- MODULE MCContacts -----------------------------
(***************************************************************************)
(* Instances of what a message sets in motion: two first messages of one   *)
(* sender (Ingestion), the action chains of the rules they match           *)
(* (RuleActions), or the suggestions, merges and splits of the contacts    *)
(* that are there (IdentityGraph).  A behaviour is of one of the three.    *)
(***************************************************************************)
EXTENDS MCIngestion, IdentityGraph, RuleActions, TLC

VARIABLE focus

MCInit ==
  /\ focus \in {"ingestion", "chains", "identity"}
  /\ Init /\ IdentityInit /\ ChainInit
  \* Which identity is which is a matter of names.
  /\ owner = [i \in Identity |-> i]

\* One component moves, the others keep their initial states.
Only(component, Acts) == focus = component /\ Acts /\ UNCHANGED focus

\* The sweep and the filing touch nothing in common: to save states, the
\* suggestions are found before the message comes in.
SweepsFirst ==
  \A x \in Matcher, f \in Filer :
    matcher'[x] # NoMatching => filer'[f] = NoFiling /\ filed' = <<>>

MCNext ==
  \/ Only("ingestion", Next) /\ UNCHANGED <<identityVars, chainVars>>
  \/ Only("chains", ChainNext) /\ UNCHANGED <<vars, identityVars>>
  \/ Only("identity", IdentityNext /\ SweepsFirst) /\ UNCHANGED <<vars, chainVars>>

MCSpec == MCInit /\ [][MCNext]_<<focus, vars, identityVars, chainVars>>

\* Reviewers and runs, used where Ingestion rests, and tags.
Symmetry == Permutations(Reviewer) \cup Permutations(Tag)
=============================================================================
