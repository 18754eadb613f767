------------------------------ MODULE Throttle ------------------------------
(***************************************************************************)
(* LoginThrottleService and RateLimitService: counters in Redis with a     *)
(* window that ends, counted by concurrent requests that may die.          *)
(*                                                                         *)
(* One account tried from one address: the counters are those of its       *)
(* email, of the address, and one rate-limit bucket.  The forgotten        *)
(* password counters are the same machine under other keys, where every    *)
(* request counts and none resets; flow says which of the two is meant.    *)
(***************************************************************************)
EXTENDS Naturals, Sequences, FiniteSets

CONSTANTS
  Attempt,
  MaxAttempts,             \* authConfig.loginLockoutMaxAttempts
  MaxCount, MaxThrottleCrashes  \* bounds on a bucket's count, on crashes

ASSUME ThrottleAssumption ==
  /\ IsFiniteSet(Attempt) /\ MaxAttempts \in Nat \ {0}
  /\ {MaxCount, MaxThrottleCrashes} \subseteq Nat

VARIABLES
  flow,    \* "login" or "reset", once and for all
  count,   \* the counters, 0 without a key
  window,  \* keys with a time to live
  caller,  \* requests in flight: what they do next, to which keys
  died     \* history: crashes of requests

throttleVars == <<flow, count, window, caller, died>>

LockKeys == <<"email", "ip">>
ThrottleKey == {"email", "ip", "bucket"}

NoCall == [pc |-> "idle", keys |-> <<>>]
Calls(c, pc) == caller[c].pc = pc
Key(c) == Head(caller[c].keys)
Becomes(c, pc, keys) == caller' = [caller EXCEPT ![c] = [pc |-> pc, keys |-> keys]]

\* On with the next key, then with pc and all the keys, or the end.
NextKey(c, pc, after) ==
  IF Len(caller[c].keys) > 1 THEN Becomes(c, pc, Tail(caller[c].keys))
  ELSE IF after = "idle" THEN Becomes(c, "idle", <<>>)
  ELSE Becomes(c, after, LockKeys)

LockedOut(k) == count[k] >= MaxAttempts

StartsWindow(n) == n = 1

Arrive(c) ==
  /\ Calls(c, "idle")
  /\ Becomes(c, "check", LockKeys)
  /\ UNCHANGED <<flow, count, window, died>>

\* isLocked and isResetLocked: one GET per key.
CheckKey(c) ==
  /\ Calls(c, "check")
  /\ \/ LockedOut(Key(c)) /\ Becomes(c, "idle", <<>>)
     \/ ~LockedOut(Key(c)) /\ NextKey(c, "check", "verify")
  /\ UNCHANGED <<flow, count, window, died>>

\* The password is right or wrong; a reset request always counts.
Verify(c) ==
  /\ Calls(c, "verify")
  /\ \/ flow = "login" /\ Becomes(c, "del", LockKeys)
     \/ Becomes(c, "incr", LockKeys)
  /\ UNCHANGED <<flow, count, window, died>>

IncrKey(c) ==
  /\ Calls(c, "incr")
  /\ Key(c) = "bucket" => count["bucket"] < MaxCount
  /\ count' = [count EXCEPT ![Key(c)] = @ + 1]
  /\ \/ StartsWindow(count'[Key(c)]) /\ Becomes(c, "expire", caller[c].keys)
     \/ /\ ~StartsWindow(count'[Key(c)])
        /\ \/ Key(c) = "bucket" /\ Becomes(c, "pttl", caller[c].keys)
           \/ Key(c) # "bucket" /\ NextKey(c, "incr", "idle")
  /\ UNCHANGED <<flow, window, died>>

\* Nothing to expire if the key is gone by now.
ExpireKey(c) ==
  /\ Calls(c, "expire")
  /\ window' = IF count[Key(c)] > 0 THEN window \cup {Key(c)} ELSE window
  /\ NextKey(c, "incr", "idle")
  /\ UNCHANGED <<flow, count, died>>

DelKey(c) ==
  /\ Calls(c, "del")
  /\ count' = [count EXCEPT ![Key(c)] = 0]
  /\ window' = window \ {Key(c)}
  /\ NextKey(c, "del", "idle")
  /\ UNCHANGED <<flow, died>>

\* RateLimitService.consume, by the guard of every request.
Consume(c) ==
  /\ Calls(c, "idle")
  /\ Becomes(c, "incr", <<"bucket">>)
  /\ UNCHANGED <<flow, count, window, died>>

\* Mutant: a bucket that has lost its time to live is left without one.
NeverHeals(k) == FALSE

\* PTTL is negative: the key has no time to live, or is gone.
HasNoWindow(k) == k \notin window

ReadTtl(c) ==
  /\ Calls(c, "pttl")
  /\ \/ HasNoWindow(Key(c)) /\ Becomes(c, "expire", caller[c].keys)
     \/ ~HasNoWindow(Key(c)) /\ Becomes(c, "idle", <<>>)
  /\ UNCHANGED <<flow, count, window, died>>

WindowEnds(k) ==
  /\ k \in window
  /\ count' = [count EXCEPT ![k] = 0]
  /\ window' = window \ {k}
  /\ UNCHANGED <<flow, caller, died>>

CallerDies(c) ==
  /\ ~Calls(c, "idle") /\ died < MaxThrottleCrashes
  /\ Becomes(c, "idle", <<>>)
  /\ died' = died + 1
  /\ UNCHANGED <<flow, count, window>>

ThrottleInit ==
  /\ flow \in {"login", "reset"}
  /\ count = [k \in ThrottleKey |-> 0] /\ window = {}
  /\ caller = [c \in Attempt |-> NoCall]
  /\ died = 0

ThrottleNext ==
  \/ \E c \in Attempt :
       \/ Arrive(c) \/ CheckKey(c) \/ Verify(c) \/ IncrKey(c) \/ ExpireKey(c)
       \/ DelKey(c) \/ Consume(c) \/ ReadTtl(c) \/ CallerDies(c)
  \/ \E k \in ThrottleKey : WindowEnds(k)

ThrottleSpec == ThrottleInit /\ [][ThrottleNext]_throttleVars

----------------------------------------------------------------------------
\* Concurrent requests that all read a counter below the limit may each
\* count past it, and no more: a counter never exceeds what the limit and the
\* requests in flight explain (isLocked, recordFailure).
GuessesBounded ==
  \A k \in {"email", "ip"} : count[k] < MaxAttempts + Cardinality(Attempt)

\* A counter without an end, which would lock an account or a workspace out
\* for good, is the work of a request that is, or died, between INCR and
\* EXPIRE (incrementWithWindow).
EndlessNeedsCrash ==
  \A k \in ThrottleKey : count[k] > 0 /\ k \notin window =>
    died > 0 \/ \E c \in Attempt : Calls(c, "expire") /\ Key(c) = k

\* An endless bucket has been counted only by requests that died or are still
\* in flight: the first one to get through gives it its window back (consume).
EndlessBucketHeals ==
  "bucket" \notin window => count["bucket"] <= died + Cardinality(Attempt)

\* Counters stay where the limit and the requests in flight put them, only a
\* death leaves one without an end, and a bucket recovers from that.
CountersBounded == GuessesBounded /\ EndlessNeedsCrash /\ EndlessBucketHeals
=============================================================================
