---------------------------- MODULE MCClientView ----------------------------
(***************************************************************************)
(* The tabs when nothing fails: every request is answered, nobody loses a  *)
(* membership, and fetchMe succeeds.                                       *)
(***************************************************************************)
EXTENDS ClientAuth

\* No response is lost, no fetchMe fails, no session is taken away.
AllGoesWell ==
  /\ ended' = ended
  /\ \A o \in Op : /\ ~Lost(o)
                   /\ ApplyAuth(o) => shown'[op[o].tab] = tokens[op[o].got].space

MCViewSpec == AuthInit /\ [][AuthNext /\ AllGoesWell]_authVars
=============================================================================
