---------------------------- MODULE MCLifecycle ----------------------------
(***************************************************************************)
(* Starting histories and symmetry for model checking Lifecycle.           *)
(***************************************************************************)
EXTENDS Lifecycle, TLC

CONSTANTS r0, w1    \* the runner of the starting history, and a witness

\* The stream that records evs from the beginning.
History(evs) ==
  LET state[i \in 0 .. Len(evs)] ==
        IF i = 0 THEN NewState ELSE ApplyTo(evs[i], state[i - 1])
  IN  [i \in 1 .. Len(evs) |-> [event |-> evs[i], state |-> state[i]]]

Empty == <<>>

\* Version 1 initiated, with no runner yet.
Begun == History(<<RebuildInitiated(1, 1, 0)>>)

\* Version 1 built, promoted and completed, and version 2 promoted over it by a
\* run that has ended, with one witness required for its retirement.
SecondPromoted ==
  History(<<RebuildInitiated(1, 1, 0), RunnerClaimed(1, r0, "none"), BuildStarted,
            CaughtUp(1), Promoted(0, 1, 1, 0), RunnerReleased(1, r0),
            PreviousRetired(0, <<>>), RetirementPolicySet(1, {w1}, FALSE, "attested"),
            RebuildInitiated(2, 2, 1), RunnerClaimed(2, r0, "none"), BuildStarted,
            CaughtUp(1), Promoted(1, 2, 2, 1), RunnerReleased(2, r0)>>)

\* Handles that have no part in the starting history are interchangeable.
Symmetry == Permutations(Runner \ PastRunners)
=============================================================================
