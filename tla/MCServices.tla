----------------------------- MODULE MCServices -----------------------------
(***************************************************************************)
(* Instances of the services that handle one request, handshake, gateway,  *)
(* timer or record.  They share no state (the membership that sessions and *)
(* sockets read is an action of each), so interleaving them would only     *)
(* multiply their states: a behaviour is one of theirs, chosen at the      *)
(* start.                                                                  *)
(***************************************************************************)
EXTENDS Sessions, Throttle, Sockets, Credits, Gateway, NoReply,
        VersionedEdits, TLC

VARIABLE focus

MCInit ==
  /\ focus \in {"sessions", "throttle", "sockets", "credits", "gateway",
                "noReply", "edits"}
  /\ SessionsInit /\ ThrottleInit /\ SocketsInit /\ CreditsInit
  /\ GatewayInit /\ Init /\ EditsInit
  /\ flow = "login" \/ focus = "throttle"
  /\ recordKind = "rule" \/ focus = "edits"

\* One component moves, the others keep their initial states.
Only(component, Acts) == focus = component /\ Acts /\ UNCHANGED focus

MCNext ==
  \/ Only("sessions", SessionsNext)
     /\ UNCHANGED <<throttleVars, socketVars, creditVars, gatewayVars,
                    vars, editVars>>
  \/ Only("throttle", ThrottleNext)
     /\ UNCHANGED <<sessionVars, socketVars, creditVars, gatewayVars,
                    vars, editVars>>
  \/ Only("sockets", SocketsNext)
     /\ UNCHANGED <<sessionVars, throttleVars, creditVars, gatewayVars,
                    vars, editVars>>
  \/ Only("credits", CreditsNext)
     /\ UNCHANGED <<sessionVars, throttleVars, socketVars, gatewayVars,
                    vars, editVars>>
  \/ Only("gateway", GatewayNext)
     /\ UNCHANGED <<sessionVars, throttleVars, socketVars, creditVars,
                    vars, editVars>>
  \/ Only("noReply", Next)
     /\ UNCHANGED <<sessionVars, throttleVars, socketVars, creditVars,
                    gatewayVars, editVars>>
  \/ Only("edits", EditsNext)
     /\ UNCHANGED <<sessionVars, throttleVars, socketVars, creditVars,
                    gatewayVars, vars>>

MCSpec == MCInit /\ [][MCNext]_<<focus, sessionVars, throttleVars,
                                 socketVars, creditVars, gatewayVars, vars,
                                 editVars>>

\* Components that move alone may share their actors and their objects.
Symmetry == Permutations(User) \cup Permutations(Workspace) \cup Permutations(Request)
=============================================================================
