--------------------------- MODULE OncePerMessage ---------------------------
(***************************************************************************)
(* What event consumption promises, whatever is retried or redelivered:    *)
(* a message is stored once, announced at most once and only after it is   *)
(* stored, and each rule that matches it runs at most once and only after  *)
(* it was announced.                                                       *)
(***************************************************************************)
EXTENDS Naturals

CONSTANTS Message, Rule, Matches

VARIABLES stored, notified, fired

onceVars == <<stored, notified, fired>>

Store(m) ==
  /\ m \notin stored
  /\ stored' = stored \cup {m}
  /\ UNCHANGED <<notified, fired>>

Announce(m) ==
  /\ m \in stored
  /\ notified[m] = 0
  /\ notified' = [notified EXCEPT ![m] = 1]
  /\ UNCHANGED <<stored, fired>>

Fire(r, m) ==
  /\ r \in Matches[m]
  /\ notified[m] = 1
  /\ fired[<<r, m>>] = 0
  /\ fired' = [fired EXCEPT ![<<r, m>>] = 1]
  /\ UNCHANGED <<stored, notified>>

OnceInit ==
  /\ stored = {}
  /\ notified = [m \in Message |-> 0]
  /\ fired = [p \in Rule \X Message |-> 0]

OnceNext ==
  \E m \in Message :
    \/ Store(m)
    \/ Announce(m)
    \/ \E r \in Rule : Fire(r, m)

OnceSpec == OnceInit /\ [][OnceNext]_onceVars
============================================================================
