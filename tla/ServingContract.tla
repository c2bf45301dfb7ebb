-------------------------- MODULE ServingContract --------------------------
(***************************************************************************)
(* What the lifecycle promises readers and operators of one projection,    *)
(* without streams, handles or runs: which version is live, how often the  *)
(* routes have flipped, which version a rollback would return to, and      *)
(* whose data has been touched by a teardown.  Lifecycle implements it.    *)
(***************************************************************************)
EXTENDS Naturals

VARIABLES
  live,        \* the version reads resolve to, 0 before the first promotion
  revision,    \* cutovers recorded so far
  fallback,    \* the version a rollback restores, 0 when there is none
  destroyed    \* versions a teardown has touched

vars == <<live, revision, fallback, destroyed>>

Init ==
  /\ live \in Nat /\ revision \in Nat /\ fallback \in Nat
  /\ destroyed = {}

\* A promotion serves a version never torn down and keeps the one before it.
\* A kept fallback must have been given up first.
Flip ==
  /\ fallback = 0
  /\ live' \in Nat \ (destroyed \cup {live, 0})
  /\ revision' = revision + 1
  /\ fallback' = live
  /\ UNCHANGED destroyed

\* A rollback restores exactly the kept version, intact, once.
Revert ==
  /\ fallback \notin destroyed \cup {0}
  /\ live' = fallback
  /\ revision' = revision + 1
  /\ fallback' = 0
  /\ UNCHANGED destroyed

\* A retirement first gives the rollback up.
Forfeit ==
  /\ fallback # 0
  /\ fallback' = 0
  /\ UNCHANGED <<live, revision, destroyed>>

\* Only what is neither live nor kept is torn down.
Destroy ==
  /\ \E v \in destroyed' :
       /\ destroyed' = destroyed \cup {v}
       /\ v \notin {live, fallback}
  /\ UNCHANGED <<live, revision, fallback>>

Next == Flip \/ Revert \/ Forfeit \/ Destroy

Spec == Init /\ [][Next]_vars
=============================================================================
