------------------------ MODULE LifecycleFoldProofs ------------------------
(***************************************************************************)
(* What one event does to a valid state, for every number of runners,      *)
(* witnesses and versions and every counter width: an event the fold       *)
(* accepts takes a valid state to a valid state of the same type.          *)
(*                                                                         *)
(* Layout: one lemma per event.  Each first reads off what acceptance says *)
(* of the state before, then the fields of the state after.  Then what     *)
(* that makes of a whole history of accepted events; last, which events a  *)
(* state accepts and what a history says of reservations and of what it    *)
(* serves.                                                                 *)
(***************************************************************************)
EXTENDS LifecycleFold, Sequences, WellFoundedInduction, TLAPS

-----------------------------------------------------------------------------
(* Induction over the naturals, stated with sets.                           *)

\* A set of naturals has a least element.
LEMMA LeastNatural ==
  ASSUME NEW T \in SUBSET Nat, T # {}
  PROVE  \E n \in T : \A m \in T : n <= m
<1> DEFINE R == {ss \in Nat \X Nat : ss[1] < ss[2]}
<1>1. IsWellFoundedOn(R, Nat)
  BY NatLessThanWellFounded DEF OpToRel
<1>2. \E n \in T : \A m \in T : ~(<<m, n>> \in R)
  <2> HIDE DEF R
  <2>1. QED
    BY <1>1, WFMin
<1>3. PICK n \in T : \A m \in T : ~(<<m, n>> \in R)
  BY <1>2
<1>4. \A m \in T : ~(m < n)
  BY <1>3
<1>5. QED
  BY <1>4

\* What holds of 0, and of i when it holds of i - 1, holds of the whole interval.
LEMMA IntervalInduction ==
  ASSUME NEW n \in Nat, NEW S, 0 \in S, \A i \in 1 .. n : i - 1 \in S => i \in S
  PROVE  \A i \in 0 .. n : i \in S
<1> DEFINE T == (0 .. n) \ S
<1>1. SUFFICES ASSUME T # {} PROVE FALSE
  OBVIOUS
<1>2. PICK m \in T : \A k \in T : m <= k
  <2>1. T \in SUBSET Nat
    OBVIOUS
  <2> HIDE DEF T
  <2>2. QED
    BY <1>1, <2>1, LeastNatural
<1>3. m \in 1 .. n /\ m - 1 \notin T
  BY <1>2
<1>4. QED
  BY <1>3

\* A sequence is one of its own elements.
LEMMA OwnElements ==
  ASSUME NEW S, NEW q \in Seq(S)
  PROVE  q \in Seq({q[i] : i \in 1 .. Len(q)})
<1>1. /\ Len(q) \in Nat
      /\ q = [i \in 1 .. Len(q) |-> q[i]]
  OBVIOUS
<1>2. q \in [1 .. Len(q) -> {q[i] : i \in 1 .. Len(q)}]
  BY <1>1
<1>3. QED
  BY <1>1, <1>2

-----------------------------------------------------------------------------
(* What validity gives for a state that has an attempt in flight.           *)

\* A valid state whose attempt is in flight satisfies validateAttempt, its target
\* is the highest allocated version, and it is not a resting one (state.go).
LEMMA InFlight ==
  ASSUME NEW s \in State, Valid(s), s.attempt.phase # "none"
  PROVE  /\ s.named
         /\ s.attempt # NoAttempt
         /\ s.attempt \in AttemptState
         /\ ValidPolicy(s.policy)
         /\ s.allocated >= 1
         /\ s.live <= s.allocated
         /\ s.live = 0 <=> s.cutoverRevision = 0
         /\ ReachableHistory(s)
         /\ ValidAttempt(s)
         /\ s.attempt.id # 0
         /\ s.attempt.target = s.allocated
         /\ s.attempt.previous # 0 => s.attempt.previous < s.attempt.target
  BY DEF Valid, NewState, NoAttempt, State, ValidAttempt

\* Which rest state ReachableHistory speaks of, by phase.
LEMMA HistoryAhead ==
  ASSUME NEW s, s.attempt.phase \in {"created", "building", "caught_up"}
  PROVE  ReachableHistory(s)
           <=> ~UnreachableRest(s.live, s.cutoverRevision, s.allocated - 1)
<1>1. s.attempt # NoAttempt
  BY DEF NoAttempt
<1>2. QED
  BY <1>1 DEF ReachableHistory

\* From the promotion on, ReachableHistory asks that the version before it could
\* have rested live one revision ago.
LEMMA HistoryPast ==
  ASSUME NEW s, s.attempt.phase \in {"promoted", "retiring"}
  PROVE  ReachableHistory(s)
           <=> ~UnreachableRest(s.attempt.previous, s.cutoverRevision - 1,
                                s.allocated - 1)
<1>1. s.attempt # NoAttempt
  BY DEF NoAttempt
<1>2. QED
  BY <1>1 DEF ReachableHistory

\* With no attempt in flight, ReachableHistory asks it of the live version itself.
LEMMA HistoryAtRest ==
  ASSUME NEW s, s.attempt = NoAttempt
  PROVE  ReachableHistory(s)
           <=> ~UnreachableRest(s.live, s.cutoverRevision, s.allocated)
<1>1. s.attempt.phase = "none"
  BY DEF NoAttempt
<1>2. QED
  BY <1>1 DEF ReachableHistory

\* A step that keeps what ReachableHistory reads keeps ReachableHistory.
LEMMA SameHistory ==
  ASSUME NEW s, NEW t, ReachableHistory(s),
         s.attempt.phase \in Phase \ {"none"},
         t.live = s.live, t.cutoverRevision = s.cutoverRevision,
         t.allocated = s.allocated, t.attempt.previous = s.attempt.previous,
         t.attempt.phase = s.attempt.phase
  PROVE  ReachableHistory(t)
<1>1. CASE s.attempt.phase \in {"created", "building", "caught_up"}
  BY <1>1, HistoryAhead
<1>2. CASE s.attempt.phase \in {"promoted", "retiring"}
  BY <1>2, HistoryPast
<1>3. QED
  BY <1>1, <1>2 DEF Phase

\* A version rests live after one more completed allocation too.
LEMMA RestWidens ==
  ASSUME NEW l \in Nat, NEW r \in Nat, NEW k \in Nat, NEW m \in Nat, k <= m,
         ~UnreachableRest(l, r, k)
  PROVE  ~UnreachableRest(l, r, m)
  BY DEF UnreachableRest

\* A promotion adds one revision to the rest state it started from.
LEMMA RestAfterPromotion ==
  ASSUME NEW l \in Nat, NEW r \in Nat, NEW k \in Nat, NEW n \in Nat,
         n = k + 1, ~UnreachableRest(l, r, k), l < n
  PROVE  ~UnreachableRest(n, r + 1, n)
  BY DEF UnreachableRest

\* A promotion and its rollback add two, and leave the same version live.
LEMMA RestAfterRollback ==
  ASSUME NEW l \in Nat, NEW r \in Nat, NEW k \in Nat, l # 0,
         ~UnreachableRest(l, r, k)
  PROVE  ~UnreachableRest(l, r + 2, k + 1)
  BY DEF UnreachableRest

-----------------------------------------------------------------------------
(* One lemma per event.                                                     *)

\* An event that moves neither the live version nor the revision: it keeps the
\* attempt's versions and its side of the flip, ends the attempt, or opens one
\* on a fresh version.
Quiet(s, t) ==
  /\ t.live = s.live
  /\ t.cutoverRevision = s.cutoverRevision
  /\ t.allocated >= s.allocated
  /\ \/ /\ t.attempt.target = s.attempt.target
        /\ t.attempt.previous = s.attempt.previous
        /\ s.attempt.phase # "none"
        /\ t.attempt.phase \in {"promoted", "retiring"}
             <=> s.attempt.phase \in {"promoted", "retiring"}
     \/ t.attempt.phase = "none"
     \/ /\ t.attempt.phase = "created"
        /\ t.attempt.target = s.allocated + 1
        /\ t.attempt.previous = s.live

\* RebuildInitiated.ApplyTo either marks a valid state or leaves a valid one that
\* has allocated exactly one more version.
LEMMA RebuildInitiatedSound ==
  ASSUME NEW s \in State, Valid(s),
         NEW i \in Nat, NEW v \in Nat, NEW p \in Nat,
         ~ApplyRebuildInitiated(RebuildInitiated(i, v, p), s).invalid
  PROVE  /\ Valid(ApplyRebuildInitiated(RebuildInitiated(i, v, p), s))
         /\ Quiet(s, ApplyRebuildInitiated(RebuildInitiated(i, v, p), s))
<1> DEFINE t == ApplyRebuildInitiated(RebuildInitiated(i, v, p), s)
<1>1. /\ i # 0
      /\ s.attempt.phase = "none"
      /\ p = s.live
      /\ v = s.allocated + 1
  BY DEF ApplyRebuildInitiated, RebuildInitiatedContradicts, RebuildInitiated, Poison, State
<1>2. /\ t.named
      /\ t.live = s.live
      /\ t.cutoverRevision = s.cutoverRevision
      /\ t.allocated = v
      /\ t.policy = s.policy
      /\ ~t.invalid
  BY <1>1 DEF ApplyRebuildInitiated, RebuildInitiatedContradicts, RebuildInitiated, Poison, State, MaxOf
<1>A. t.attempt = [id |-> i, target |-> v, previous |-> p, phase |-> "created",
                   runner |-> NoRunner, released |-> FALSE,
                   caughtUpPos |-> 0, retiringWitnesses |-> {}]
  BY DEF ApplyRebuildInitiated, RebuildInitiated, Poison, State
<1>3. /\ t.attempt.id = i
      /\ t.attempt.target = v
      /\ t.attempt.previous = p
      /\ t.attempt.phase = "created"
      /\ t.attempt.runner = NoRunner
      /\ t.attempt.released = FALSE
      /\ t.attempt.retiringWitnesses = {}
  BY <1>A
<1>4. /\ s.live \in Nat /\ s.cutoverRevision \in Nat /\ s.allocated \in Nat
      /\ s.attempt = NoAttempt
      /\ s.live <= s.allocated
      /\ s.live = 0 <=> s.cutoverRevision = 0
      /\ ValidPolicy(s.policy)
      /\ ~UnreachableRest(s.live, s.cutoverRevision, s.allocated)
  <2>1. CASE s.named
    BY <1>1, <2>1, HistoryAtRest DEF Valid, ValidAttempt, State
  <2>2. CASE ~s.named
    BY <2>2, MaxInt64Assumption DEF Valid, NewState, NoPolicy, ValidPolicy, State, UnreachableRest,
       NoAttempt
  <2>3. QED
    BY <2>1, <2>2
<1> HIDE DEF t
<1>5. ReachableHistory(t)
  BY <1>1, <1>2, <1>3, <1>4, HistoryAhead
<1>6. ValidAttempt(t)
  BY <1>1, <1>2, <1>3, <1>4 DEF ValidAttempt, ValidCapture
<1>7. Quiet(s, t)
  BY <1>1, <1>2, <1>3, <1>4 DEF Quiet, State, AttemptState, NoAttempt
<1>8. QED
  BY <1>1, <1>2, <1>4, <1>5, <1>6, <1>7 DEF Valid, t

\* RunnerClaimed.ApplyTo keeps an unmarked state valid, and what serves unchanged.
LEMMA RunnerClaimedSound ==
  ASSUME NEW s \in State, Valid(s),
         NEW i \in Nat, NEW r \in Runner \cup {NoRunner}, NEW k,
         ~ApplyRunnerClaimed(RunnerClaimed(i, r, k), s).invalid
  PROVE  /\ Valid(ApplyRunnerClaimed(RunnerClaimed(i, r, k), s))
         /\ Quiet(s, ApplyRunnerClaimed(RunnerClaimed(i, r, k), s))
<1> DEFINE t == ApplyRunnerClaimed(RunnerClaimed(i, r, k), s)
           a == s.attempt
<1>1. s.attempt.phase # "none" /\ r # NoRunner
  BY DEF ApplyRunnerClaimed, RunnerClaimedContradicts, RunnerClaimed, Poison, State
<1>2. /\ t.named = s.named
      /\ t.live = s.live
      /\ t.cutoverRevision = s.cutoverRevision
      /\ t.allocated = s.allocated
      /\ t.policy = s.policy
      /\ ~t.invalid
  BY <1>1 DEF ApplyRunnerClaimed, RunnerClaimedContradicts, RunnerClaimed, Poison, State
<1>A. t.attempt = [a EXCEPT !.runner = r, !.released = FALSE]
  BY <1>1 DEF ApplyRunnerClaimed, RunnerClaimedContradicts, RunnerClaimed, Poison, State
<1>3. a \in AttemptState
  BY DEF State
<1>4. /\ t.attempt.id = a.id
      /\ t.attempt.target = a.target
      /\ t.attempt.previous = a.previous
      /\ t.attempt.phase = a.phase
      /\ t.attempt.runner = r
      /\ t.attempt.retiringWitnesses = a.retiringWitnesses
  BY <1>A, <1>3 DEF AttemptState
<1> HIDE DEF t
<1>5. ReachableHistory(t)
  BY <1>1, <1>2, <1>3, <1>4, InFlight, SameHistory DEF AttemptState
<1>6. ValidAttempt(t)
  BY <1>1, <1>2, <1>4, InFlight DEF ValidAttempt, ValidCapture
<1>7. Quiet(s, t)
  BY <1>1, <1>2, <1>4, InFlight DEF Quiet, State, AttemptState, NoAttempt
<1>8. QED
  BY <1>1, <1>2, <1>5, <1>6, InFlight, <1>7 DEF Valid, t

\* RunnerReleased.ApplyTo keeps an unmarked state valid, and what serves unchanged.
LEMMA RunnerReleasedSound ==
  ASSUME NEW s \in State, Valid(s),
         NEW i \in Nat, NEW r \in Runner \cup {NoRunner},
         ~ApplyRunnerReleased(RunnerReleased(i, r), s).invalid
  PROVE  /\ Valid(ApplyRunnerReleased(RunnerReleased(i, r), s))
         /\ Quiet(s, ApplyRunnerReleased(RunnerReleased(i, r), s))
<1> DEFINE t == ApplyRunnerReleased(RunnerReleased(i, r), s)
           a == s.attempt
<1>1. a.phase # "none" /\ a.runner # NoRunner
  BY DEF ApplyRunnerReleased, RunnerReleasedContradicts, RunnerReleased, Poison, State
<1>2. /\ t.named = s.named
      /\ t.live = s.live
      /\ t.cutoverRevision = s.cutoverRevision
      /\ t.allocated = s.allocated
      /\ t.policy = s.policy
      /\ ~t.invalid
  BY <1>1 DEF ApplyRunnerReleased, RunnerReleasedContradicts, RunnerReleased, Poison, State
<1>A. t.attempt = [a EXCEPT !.released = TRUE]
  BY <1>1 DEF ApplyRunnerReleased, RunnerReleasedContradicts, RunnerReleased, Poison, State
<1>3. a \in AttemptState
  BY DEF State
<1>4. /\ t.attempt.id = a.id
      /\ t.attempt.target = a.target
      /\ t.attempt.previous = a.previous
      /\ t.attempt.phase = a.phase
      /\ t.attempt.runner = a.runner
      /\ t.attempt.retiringWitnesses = a.retiringWitnesses
  BY <1>A, <1>3 DEF AttemptState
<1> HIDE DEF t
<1>5. ReachableHistory(t)
  BY <1>1, <1>2, <1>3, <1>4, InFlight, SameHistory DEF AttemptState
<1>6. ValidAttempt(t)
  BY <1>1, <1>2, <1>4, InFlight DEF ValidAttempt, ValidCapture
<1>7. Quiet(s, t)
  BY <1>1, <1>2, <1>4, InFlight DEF Quiet, State, AttemptState, NoAttempt
<1>8. QED
  BY <1>1, <1>2, <1>5, <1>6, InFlight, <1>7 DEF Valid, t

\* BuildStarted.ApplyTo keeps an unmarked state valid, and what serves unchanged.
LEMMA BuildStartedSound ==
  ASSUME NEW s \in State, Valid(s),
         ~ApplyBuildStarted(BuildStarted, s).invalid
  PROVE  /\ Valid(ApplyBuildStarted(BuildStarted, s))
         /\ Quiet(s, ApplyBuildStarted(BuildStarted, s))
<1> DEFINE t == ApplyBuildStarted(BuildStarted, s)
           a == s.attempt
<1>1. a.phase = "created" /\ a.runner # NoRunner
  BY DEF ApplyBuildStarted, BuildStartedContradicts, Poison, State
<1>2. /\ t.named = s.named
      /\ t.live = s.live
      /\ t.cutoverRevision = s.cutoverRevision
      /\ t.allocated = s.allocated
      /\ t.policy = s.policy
      /\ ~t.invalid
  BY <1>1 DEF ApplyBuildStarted, BuildStartedContradicts, Poison, State
<1>A. t.attempt = [a EXCEPT !.phase = "building"]
  BY <1>1 DEF ApplyBuildStarted, BuildStartedContradicts, Poison, State
<1>3. a \in AttemptState
  BY DEF State
<1>4. /\ t.attempt.id = a.id
      /\ t.attempt.target = a.target
      /\ t.attempt.previous = a.previous
      /\ t.attempt.phase = "building"
      /\ t.attempt.runner = a.runner
      /\ t.attempt.retiringWitnesses = a.retiringWitnesses
  BY <1>A, <1>3 DEF AttemptState
<1> HIDE DEF t
<1>5. ReachableHistory(t)
  BY <1>1, <1>2, <1>4, InFlight, HistoryAhead
<1>6. ValidAttempt(t)
  BY <1>1, <1>2, <1>4, InFlight DEF ValidAttempt, ValidCapture
<1>7. Quiet(s, t)
  BY <1>1, <1>2, <1>4, InFlight DEF Quiet, State, AttemptState, NoAttempt
<1>8. QED
  BY <1>1, <1>2, <1>5, <1>6, InFlight, <1>7 DEF Valid, t

\* CaughtUp.ApplyTo keeps an unmarked state valid, and what serves unchanged.
LEMMA CaughtUpSound ==
  ASSUME NEW s \in State, Valid(s), NEW p \in Int,
         ~ApplyCaughtUp(CaughtUp(p), s).invalid
  PROVE  /\ Valid(ApplyCaughtUp(CaughtUp(p), s))
         /\ Quiet(s, ApplyCaughtUp(CaughtUp(p), s))
<1> DEFINE t == ApplyCaughtUp(CaughtUp(p), s)
           a == s.attempt
<1>1. a.phase \in {"building", "caught_up"}
  BY DEF ApplyCaughtUp, CaughtUpContradicts, CaughtUp, Poison, State
<1>2. /\ t.named = s.named
      /\ t.live = s.live
      /\ t.cutoverRevision = s.cutoverRevision
      /\ t.allocated = s.allocated
      /\ t.policy = s.policy
      /\ ~t.invalid
  BY <1>1 DEF ApplyCaughtUp, CaughtUpContradicts, CaughtUp, Poison, State
<1>A. t.attempt = [a EXCEPT !.phase = "caught_up", !.caughtUpPos = p]
  BY <1>1 DEF ApplyCaughtUp, CaughtUpContradicts, CaughtUp, Poison, State
<1>3. a \in AttemptState
  BY DEF State
<1>4. /\ t.attempt.id = a.id
      /\ t.attempt.target = a.target
      /\ t.attempt.previous = a.previous
      /\ t.attempt.phase = "caught_up"
      /\ t.attempt.runner = a.runner
      /\ t.attempt.retiringWitnesses = a.retiringWitnesses
  BY <1>A, <1>3 DEF AttemptState
<1> HIDE DEF t
<1>5. ReachableHistory(t)
  BY <1>1, <1>2, <1>4, InFlight, HistoryAhead
<1>6. ValidAttempt(t)
  BY <1>1, <1>2, <1>4, InFlight DEF ValidAttempt, ValidCapture
<1>7. Quiet(s, t)
  BY <1>1, <1>2, <1>4, InFlight DEF Quiet, State, AttemptState, NoAttempt
<1>8. QED
  BY <1>1, <1>2, <1>5, <1>6, InFlight, <1>7 DEF Valid, t

PromotedEffect(s, t) ==
  /\ s.attempt.phase = "caught_up"
  /\ t.live = s.attempt.target
  /\ t.cutoverRevision = s.cutoverRevision + 1
  /\ t.allocated = s.allocated
  /\ t.attempt.target = s.attempt.target
  /\ t.attempt.previous = s.live
  /\ t.attempt.phase = "promoted"

\* Promoted.ApplyTo keeps an unmarked state valid and makes the target live, one
\* revision on.
LEMMA PromotedSound ==
  ASSUME NEW s \in State, Valid(s),
         NEW p \in Nat, NEW n \in Nat, NEW r \in Nat, NEW g \in Nat,
         ~ApplyPromoted(Promoted(p, n, r, g), s).invalid
  PROVE  /\ Valid(ApplyPromoted(Promoted(p, n, r, g), s))
         /\ PromotedEffect(s, ApplyPromoted(Promoted(p, n, r, g), s))
<1> DEFINE t == ApplyPromoted(Promoted(p, n, r, g), s)
           a == s.attempt
<1>1. /\ a.phase = "caught_up"
      /\ p = s.live
      /\ n = a.target
      /\ r = s.cutoverRevision + 1
  BY DEF ApplyPromoted, PromotedContradicts, Promoted, Poison, State
<1>2. /\ t.named = s.named
      /\ t.live = n
      /\ t.cutoverRevision = r
      /\ t.allocated = s.allocated
      /\ t.policy = s.policy
      /\ ~t.invalid
  BY <1>1 DEF ApplyPromoted, PromotedContradicts, Promoted, Poison, State, MaxOf
<1>A. t.attempt = [a EXCEPT !.phase = "promoted"]
  BY <1>1 DEF ApplyPromoted, PromotedContradicts, Promoted, Poison, State
<1>3. a \in AttemptState
  BY DEF State
<1>4. /\ t.attempt.id = a.id
      /\ t.attempt.target = a.target
      /\ t.attempt.previous = a.previous
      /\ t.attempt.phase = "promoted"
      /\ t.attempt.runner = a.runner
      /\ t.attempt.retiringWitnesses = a.retiringWitnesses
  BY <1>A, <1>3 DEF AttemptState
<1>5. s.live = a.previous
  BY <1>1, InFlight DEF ValidAttempt
<1> HIDE DEF t
<1>6. ReachableHistory(t)
  BY <1>1, <1>2, <1>4, <1>5, InFlight, HistoryAhead, HistoryPast DEF State
<1>7. ValidAttempt(t)
  BY <1>1, <1>2, <1>4, InFlight DEF ValidAttempt, ValidCapture
<1>8. PromotedEffect(s, t)
  BY <1>1, <1>2, <1>4, <1>5 DEF PromotedEffect, State
<1>9. QED
  BY <1>1, <1>2, <1>6, <1>7, InFlight, <1>8 DEF Valid, State, t

RolledBackEffect(s, t) ==
  /\ s.attempt.phase = "promoted"
  /\ s.attempt.previous # 0
  /\ t.live = s.attempt.previous
  /\ t.cutoverRevision = s.cutoverRevision + 1
  /\ t.allocated = s.allocated
  /\ t.attempt.phase = "none"

\* RolledBack.ApplyTo keeps an unmarked state valid and makes the previous version
\* live again, one revision on.
LEMMA RolledBackSound ==
  ASSUME NEW s \in State, Valid(s),
         NEW f \in Nat, NEW v \in Nat, NEW r \in Nat,
         ~ApplyRolledBack(RolledBack(f, v, r), s).invalid
  PROVE  /\ Valid(ApplyRolledBack(RolledBack(f, v, r), s))
         /\ RolledBackEffect(s, ApplyRolledBack(RolledBack(f, v, r), s))
<1> DEFINE t == ApplyRolledBack(RolledBack(f, v, r), s)
           a == s.attempt
<1>1. /\ a.phase = "promoted"
      /\ v = a.previous
      /\ v # 0
      /\ r = s.cutoverRevision + 1
  BY DEF ApplyRolledBack, RolledBackContradicts, RolledBack, Poison, State
<1>2. /\ t.named = s.named
      /\ t.live = v
      /\ t.cutoverRevision = r
      /\ t.allocated = s.allocated
      /\ t.attempt = NoAttempt
      /\ t.policy = s.policy
      /\ ~t.invalid
  BY <1>1 DEF ApplyRolledBack, RolledBackContradicts, RolledBack, Poison, State, MaxOf
<1>3. ~UnreachableRest(v, s.cutoverRevision - 1, s.allocated - 1)
  BY <1>1, InFlight, HistoryPast
<1>4. s.cutoverRevision - 1 \in Nat /\ s.allocated - 1 \in Nat
  BY <1>1, <1>3, InFlight DEF State, ValidAttempt
<1> HIDE DEF t
<1>5. ReachableHistory(t)
  <2>1. ~UnreachableRest(v, s.cutoverRevision - 1 + 2, s.allocated - 1 + 1)
    BY <1>1, <1>3, <1>4, RestAfterRollback
  <2>2. QED
    BY <2>1, <1>1, <1>2, HistoryAtRest DEF State
<1>6. ValidAttempt(t)
  BY <1>2 DEF ValidAttempt, NoAttempt
<1>7. v < s.allocated /\ r # 0
  BY <1>1, InFlight DEF State
<1>8. RolledBackEffect(s, t)
  BY <1>1, <1>2 DEF RolledBackEffect, NoAttempt
<1>9. QED
  BY <1>1, <1>2, <1>5, <1>6, <1>7, InFlight, <1>8 DEF Valid, State, t

\* Abandoned.ApplyTo keeps an unmarked state valid and ends the attempt without
\* touching what serves.
LEMMA AbandonedSound ==
  ASSUME NEW s \in State, Valid(s),
         ~ApplyAbandoned(Abandoned, s).invalid
  PROVE  /\ Valid(ApplyAbandoned(Abandoned, s))
         /\ Quiet(s, ApplyAbandoned(Abandoned, s))
<1> DEFINE t == ApplyAbandoned(Abandoned, s)
           a == s.attempt
<1>1. a.phase \in {"created", "building", "caught_up"}
  BY DEF ApplyAbandoned, AbandonedContradicts, Poison, State
<1>2. /\ t.named = s.named
      /\ t.live = s.live
      /\ t.cutoverRevision = s.cutoverRevision
      /\ t.allocated = s.allocated
      /\ t.attempt = NoAttempt
      /\ t.policy = s.policy
      /\ ~t.invalid
  BY <1>1 DEF ApplyAbandoned, AbandonedContradicts, Poison, State
<1>3. ~UnreachableRest(s.live, s.cutoverRevision, s.allocated - 1)
  BY <1>1, InFlight, HistoryAhead
<1> HIDE DEF t
<1>4. ReachableHistory(t)
  <2>1. s.allocated - 1 \in Nat /\ s.allocated - 1 <= s.allocated
    BY <1>1, InFlight DEF State
  <2>2. ~UnreachableRest(s.live, s.cutoverRevision, s.allocated)
    BY <1>3, <2>1, RestWidens DEF State
  <2>3. QED
    BY <2>2, <1>2, HistoryAtRest
<1>5. ValidAttempt(t)
  BY <1>2 DEF ValidAttempt, NoAttempt
<1>6. Quiet(s, t)
  BY <1>2 DEF Quiet, State, AttemptState, NoAttempt
<1>7. QED
  BY <1>1, <1>2, <1>4, <1>5, InFlight, <1>6 DEF Valid, t

\* RetireStarted.ApplyTo keeps an unmarked state valid: the reservation captures a
\* gate that validateAttempt accepts.
LEMMA RetireStartedSound ==
  ASSUME NEW s \in State, Valid(s),
         NEW v \in Nat, NEW g \in Nat, NEW W \in SUBSET Witness, NEW R,
         NEW o \in Attestation,
         ~ApplyRetireStarted(RetireStarted(v, g, W, R, o), s).invalid
  PROVE  /\ Valid(ApplyRetireStarted(RetireStarted(v, g, W, R, o), s))
         /\ Quiet(s, ApplyRetireStarted(RetireStarted(v, g, W, R, o), s))
<1> DEFINE e == RetireStarted(v, g, W, R, o)
           t == ApplyRetireStarted(e, s)
           a == s.attempt
<1>1. /\ a.phase = "promoted"
      /\ a.previous # 0
      /\ ~UnauthorizedReservation(e, s)
  BY DEF ApplyRetireStarted, RetireStartedContradicts, RetireStarted, Poison, State
<1>2. /\ t.named = s.named
      /\ t.live = s.live
      /\ t.cutoverRevision = s.cutoverRevision
      /\ t.allocated = s.allocated
      /\ t.policy = s.policy
      /\ ~t.invalid
  BY <1>1 DEF ApplyRetireStarted, RetireStartedContradicts, RetireStarted, Poison, State
<1>A. t.attempt = [a EXCEPT !.phase = "retiring", !.retiringWitnesses = W]
  BY <1>1 DEF ApplyRetireStarted, RetireStartedContradicts, RetireStarted, Poison, State
<1>3. a \in AttemptState
  BY DEF State
<1>4. /\ t.attempt.id = a.id
      /\ t.attempt.target = a.target
      /\ t.attempt.previous = a.previous
      /\ t.attempt.phase = "retiring"
      /\ t.attempt.runner = a.runner
      /\ t.attempt.retiringWitnesses = W
  BY <1>A, <1>3 DEF AttemptState
<1>5. W # {} => s.policy # NoPolicy /\ W = s.policy.witnesses
  BY <1>1 DEF UnauthorizedReservation, RetireStarted, Attestation
<1>6. W # {} => s.policy.generation # 0 /\ W = s.policy.witnesses
  BY <1>1, <1>5, InFlight DEF ValidPolicy, State, RetirementPolicy
<1> HIDE DEF t, e
<1>7. ReachableHistory(t)
  BY <1>1, <1>2, <1>4, InFlight, HistoryPast
<1>8. ValidCapture(t)
  BY <1>2, <1>4, <1>6 DEF ValidCapture
<1>9. ValidAttempt(t)
  BY <1>1, <1>2, <1>4, <1>8, InFlight DEF ValidAttempt
<1>10. Quiet(s, t)
  BY <1>1, <1>2, <1>4, InFlight DEF Quiet, State, AttemptState, NoAttempt
<1>11. QED
  BY <1>1, <1>2, <1>7, <1>9, InFlight, <1>10 DEF Valid, t, e

PreviousRetiredEffect(s, t) ==
  /\ s.attempt.phase \in {"promoted", "retiring"}
  /\ t.live = s.live
  /\ t.cutoverRevision = s.cutoverRevision
  /\ t.allocated = s.allocated
  /\ t.attempt.phase = "none"

\* PreviousRetired.ApplyTo keeps an unmarked state valid and ends the attempt.
LEMMA PreviousRetiredSound ==
  ASSUME NEW s \in State, Valid(s), NEW v \in Nat, NEW R,
         ~ApplyPreviousRetired(PreviousRetired(v, R), s).invalid
  PROVE  /\ Valid(ApplyPreviousRetired(PreviousRetired(v, R), s))
         /\ PreviousRetiredEffect(s, ApplyPreviousRetired(PreviousRetired(v, R), s))
<1> DEFINE t == ApplyPreviousRetired(PreviousRetired(v, R), s)
           a == s.attempt
<1>1. a.phase \in {"promoted", "retiring"} /\ v = a.previous
  BY DEF ApplyPreviousRetired, PreviousRetiredContradicts, PreviousRetired, Poison, State
<1>2. /\ t.named = s.named
      /\ t.live = s.live
      /\ t.cutoverRevision = s.cutoverRevision
      /\ t.allocated = s.allocated
      /\ t.attempt = NoAttempt
      /\ t.policy = s.policy
      /\ ~t.invalid
  BY <1>1 DEF ApplyPreviousRetired, PreviousRetiredContradicts, PreviousRetired, Poison, State
<1>3. ~UnreachableRest(a.previous, s.cutoverRevision - 1, s.allocated - 1)
  BY <1>1, InFlight, HistoryPast
<1>4. s.live = s.allocated /\ s.cutoverRevision # 0
  BY <1>1, InFlight DEF ValidAttempt, State
<1> HIDE DEF t
<1>5. ReachableHistory(t)
  <2>1. /\ s.cutoverRevision - 1 \in Nat
        /\ s.allocated - 1 \in Nat
        /\ a.previous \in Nat
        /\ a.previous < s.allocated
    BY <1>1, <1>4, InFlight DEF State, AttemptState
  <2>2. ~UnreachableRest(s.allocated, s.cutoverRevision - 1 + 1, s.allocated)
    BY <1>3, <2>1, RestAfterPromotion DEF State
  <2>3. QED
    BY <2>2, <1>2, <1>4, HistoryAtRest DEF State
<1>6. ValidAttempt(t)
  BY <1>2 DEF ValidAttempt, NoAttempt
<1>7. PreviousRetiredEffect(s, t)
  BY <1>1, <1>2 DEF PreviousRetiredEffect, NoAttempt
<1>8. QED
  BY <1>1, <1>2, <1>5, <1>6, InFlight, <1>7 DEF Valid, t

\* RetirementPolicySet.ApplyTo keeps an unmarked state valid.
LEMMA RetirementPolicySetSound ==
  ASSUME NEW s \in State, Valid(s),
         NEW g \in Nat, NEW W \in SUBSET Witness, NEW u \in BOOLEAN,
         NEW k \in Attestation,
         ~ApplyRetirementPolicySet(RetirementPolicySet(g, W, u, k), s).invalid
  PROVE  /\ Valid(ApplyRetirementPolicySet(RetirementPolicySet(g, W, u, k), s))
         /\ Quiet(s, ApplyRetirementPolicySet(RetirementPolicySet(g, W, u, k), s))
<1> DEFINE t == ApplyRetirementPolicySet(RetirementPolicySet(g, W, u, k), s)
           a == s.attempt
<1>B. /\ s.named
      /\ ~(s.policy.generation >= MaxInt64 - 1)
      /\ g = s.policy.generation + 1
      /\ ~(u /\ W # {})
      /\ ~(~u /\ W = {})
  BY DEF ApplyRetirementPolicySet, RetirementPolicySetContradicts, RetirementPolicySet, Poison, State
<1>C. s.policy.generation \in Nat
  BY DEF State, RetirementPolicy
<1>1. /\ s.named
      /\ s.policy.generation < MaxInt64 - 1
      /\ g = s.policy.generation + 1
      /\ u <=> W = {}
  BY <1>B, <1>C, MaxInt64Assumption
<1>2. /\ t.named = s.named
      /\ t.live = s.live
      /\ t.cutoverRevision = s.cutoverRevision
      /\ t.allocated = s.allocated
      /\ t.attempt = s.attempt
      /\ t.policy.generation = g
      /\ t.policy.witnesses = W
      /\ t.policy.unwitnessed = u
      /\ ~t.invalid
  BY <1>1 DEF ApplyRetirementPolicySet, RetirementPolicySetContradicts, RetirementPolicySet, Poison, State
<1>3. /\ s.allocated >= 1
      /\ s.live <= s.allocated
      /\ s.live = 0 <=> s.cutoverRevision = 0
      /\ ReachableHistory(s)
      /\ ValidAttempt(s)
      /\ ValidPolicy(s.policy)
  BY <1>1 DEF Valid
<1> HIDE DEF t
<1>4. ValidPolicy(t.policy)
  BY <1>1, <1>2, MaxInt64Assumption DEF ValidPolicy, State, RetirementPolicy
<1>5. ReachableHistory(t)
  BY <1>2, <1>3 DEF ReachableHistory
<1>6. ValidAttempt(t)
  <2>1. CASE a.phase = "none"
    BY <2>1, <1>2, <1>3 DEF ValidAttempt
  <2>2. CASE a.phase # "none"
    <3>1. ValidCapture(s)
      BY <2>2, <1>3 DEF ValidAttempt
    <3>2. s.policy.generation \in Nat
      BY DEF State, RetirementPolicy
    <3>3. ValidCapture(t)
      BY <3>1, <3>2, <1>1, <1>2 DEF ValidCapture
    <3>4. QED
      BY <3>3, <2>2, <1>2, <1>3 DEF ValidAttempt
  <2>3. QED
    BY <2>1, <2>2
<1>7. Quiet(s, t)
  BY <1>2, <1>3 DEF Quiet, State, AttemptState, NoAttempt
<1>8. QED
  BY <1>1, <1>2, <1>3, <1>4, <1>5, <1>6, <1>7 DEF Valid, t

-----------------------------------------------------------------------------
(* The fold keeps its type, whatever is recorded.                           *)

\* The vacant attempt is an AttemptState.
LEMMA NoAttemptType == NoAttempt \in AttemptState
  BY DEF NoAttempt, AttemptState, Phase

\* The fold's dispatch on the event's type.
LEMMA ApplyToCases ==
  ASSUME NEW e, NEW s
  PROVE  /\ e.type = "RebuildInitiated" => ApplyTo(e, s) = ApplyRebuildInitiated(e, s)
         /\ e.type = "RunnerClaimed" => ApplyTo(e, s) = ApplyRunnerClaimed(e, s)
         /\ e.type = "RunnerReleased" => ApplyTo(e, s) = ApplyRunnerReleased(e, s)
         /\ e.type = "BuildStarted" => ApplyTo(e, s) = ApplyBuildStarted(e, s)
         /\ e.type = "CaughtUp" => ApplyTo(e, s) = ApplyCaughtUp(e, s)
         /\ e.type = "Promoted" => ApplyTo(e, s) = ApplyPromoted(e, s)
         /\ e.type = "RolledBack" => ApplyTo(e, s) = ApplyRolledBack(e, s)
         /\ e.type = "Abandoned" => ApplyTo(e, s) = ApplyAbandoned(e, s)
         /\ e.type = "RetireStarted" => ApplyTo(e, s) = ApplyRetireStarted(e, s)
         /\ e.type = "PreviousRetired" => ApplyTo(e, s) = ApplyPreviousRetired(e, s)
         /\ e.type = "RetirementPolicySet" =>
              ApplyTo(e, s) = ApplyRetirementPolicySet(e, s)
  BY DEF ApplyTo

\* ApplyTo is total: whatever event is recorded, the fold of a State is a State.
LEMMA FoldType ==
  ASSUME NEW s \in State, NEW Audits
  PROVE  /\ \A i, v, p \in Nat :
              ApplyRebuildInitiated(RebuildInitiated(i, v, p), s) \in State
         /\ \A i \in Nat, r \in Runner \cup {NoRunner}, k \in Attestation :
              ApplyRunnerClaimed(RunnerClaimed(i, r, k), s) \in State
         /\ \A i \in Nat, r \in Runner \cup {NoRunner} :
              ApplyRunnerReleased(RunnerReleased(i, r), s) \in State
         /\ ApplyBuildStarted(BuildStarted, s) \in State
         /\ \A p \in Int : ApplyCaughtUp(CaughtUp(p), s) \in State
         /\ \A p, n, r, g \in Nat : ApplyPromoted(Promoted(p, n, r, g), s) \in State
         /\ \A f, v, r \in Nat : ApplyRolledBack(RolledBack(f, v, r), s) \in State
         /\ ApplyAbandoned(Abandoned, s) \in State
         /\ \A v, g \in Nat, W \in SUBSET Witness, R \in Audits,
               o \in Attestation :
              ApplyRetireStarted(RetireStarted(v, g, W, R, o), s) \in State
         /\ \A v \in Nat, R \in Audits :
              ApplyPreviousRetired(PreviousRetired(v, R), s) \in State
         /\ \A g \in Nat, W \in SUBSET Witness, u \in BOOLEAN, k \in Attestation :
              ApplyRetirementPolicySet(RetirementPolicySet(g, W, u, k), s) \in State
<1>0. \A v \in Nat : MaxOf(s.allocated, v) \in Nat /\ MaxOf(s.cutoverRevision, v) \in Nat
  BY DEF MaxOf, State
<1>1. ASSUME NEW i \in Nat, NEW v \in Nat, NEW p \in Nat
      PROVE  ApplyRebuildInitiated(RebuildInitiated(i, v, p), s) \in State
  <2>1. [id |-> i, target |-> v, previous |-> p, phase |-> "created",
         runner |-> NoRunner, released |-> FALSE, caughtUpPos |-> 0,
         retiringWitnesses |-> {}] \in AttemptState
    BY DEF AttemptState, Phase
  <2>2. QED
    BY <1>0, <2>1 DEF ApplyRebuildInitiated, RebuildInitiated, Poison, State
<1>2. ASSUME NEW i \in Nat, NEW r \in Runner \cup {NoRunner}, NEW k \in Attestation
      PROVE  ApplyRunnerClaimed(RunnerClaimed(i, r, k), s) \in State
  BY DEF ApplyRunnerClaimed, RunnerClaimed, Poison, State, AttemptState
<1>3. ASSUME NEW i \in Nat, NEW r \in Runner \cup {NoRunner}
      PROVE  ApplyRunnerReleased(RunnerReleased(i, r), s) \in State
  BY DEF ApplyRunnerReleased, RunnerReleased, Poison, State, AttemptState
<1>4. ApplyBuildStarted(BuildStarted, s) \in State
  BY DEF ApplyBuildStarted, Poison, State, AttemptState, Phase
<1>5. ASSUME NEW p \in Int
      PROVE  ApplyCaughtUp(CaughtUp(p), s) \in State
  <2> DEFINE a == [s.attempt EXCEPT !.phase = "caught_up", !.caughtUpPos = p]
  <2>0. a = [s.attempt EXCEPT !.phase = "caught_up", !.caughtUpPos = p]
    OBVIOUS
  <2> HIDE DEF a
  <2>3. s.attempt \in AttemptState /\ p \in Int
    BY DEF State
  <2>1. a \in AttemptState
    BY <2>0, <2>3 DEF AttemptState, Phase
  <2>2. QED
    BY <2>1 DEF ApplyCaughtUp, CaughtUp, Poison, State, a
<1>6. ASSUME NEW p \in Nat, NEW n \in Nat, NEW r \in Nat, NEW g \in Nat
      PROVE  ApplyPromoted(Promoted(p, n, r, g), s) \in State
  <2>1. [s.attempt EXCEPT !.phase = "promoted"] \in AttemptState
    BY DEF State, AttemptState, Phase
  <2>2. QED
    BY <1>0, <2>1 DEF ApplyPromoted, Promoted, Poison, State
<1>7. ASSUME NEW f \in Nat, NEW v \in Nat, NEW r \in Nat
      PROVE  ApplyRolledBack(RolledBack(f, v, r), s) \in State
  BY <1>0, NoAttemptType DEF ApplyRolledBack, RolledBack, Poison, State
<1>8. ApplyAbandoned(Abandoned, s) \in State
  BY NoAttemptType DEF ApplyAbandoned, Poison, State
<1>9. ASSUME NEW v \in Nat, NEW g \in Nat, NEW W \in SUBSET Witness,
             NEW R \in Audits, NEW o \in Attestation
      PROVE  ApplyRetireStarted(RetireStarted(v, g, W, R, o), s) \in State
  <2>1. [s.attempt EXCEPT !.phase = "retiring", !.retiringWitnesses = W]
          \in AttemptState
    BY DEF State, AttemptState, Phase
  <2>2. QED
    BY <2>1 DEF ApplyRetireStarted, RetireStarted, Poison, State
<1>10. ASSUME NEW v \in Nat, NEW R \in Audits
       PROVE  ApplyPreviousRetired(PreviousRetired(v, R), s) \in State
  BY NoAttemptType DEF ApplyPreviousRetired, PreviousRetired, Poison, State
<1>11. ASSUME NEW g \in Nat, NEW W \in SUBSET Witness, NEW u \in BOOLEAN,
              NEW k \in Attestation
       PROVE  ApplyRetirementPolicySet(RetirementPolicySet(g, W, u, k), s) \in State
  BY DEF ApplyRetirementPolicySet, RetirementPolicySet, Poison, State,
     RetirementPolicy
<1>12. QED
  BY <1>1, <1>2, <1>3, <1>4, <1>5, <1>6, <1>7, <1>8, <1>9, <1>10, <1>11, Zenon

-----------------------------------------------------------------------------
(* What an accepted event does, by its type.                                *)

\* The fold of e from s is a valid state.
Accepts(e, s) ==
  /\ e.type \in EventType
  /\ ApplyTo(e, s) \in State
  /\ Valid(ApplyTo(e, s))

\* What serves is left alone.
Serves(s, t) ==
  t.live = s.live /\ t.cutoverRevision = s.cutoverRevision

\* The same attempt, by the versions it builds and keeps.
SameAttempt(a, b) == b.id = a.id /\ b.target = a.target /\ b.previous = a.previous

\* The same attempt under the same claim.
SameClaim(a, b) == SameAttempt(a, b) /\ b.runner = a.runner /\ b.released = a.released

\* What the fold made t of s, by the event that was recorded.
Effect(e, s, t) ==
  LET a == s.attempt
      b == t.attempt
  IN  /\ e.type = "RebuildInitiated" =>
           /\ Serves(s, t) /\ a.phase = "none" /\ b.phase = "created"
           /\ t.allocated = s.allocated + 1
           /\ b.id = e.attempt /\ b.target = e.target /\ b.target = t.allocated
           /\ b.previous = s.live
           /\ b.runner = NoRunner /\ ~b.released /\ b.retiringWitnesses = {}
      /\ e.type # "RebuildInitiated" => t.allocated = s.allocated
      /\ e.type = "RunnerClaimed" =>
           /\ Serves(s, t) /\ a.phase # "none" /\ b.phase = a.phase
           /\ SameAttempt(a, b) /\ b.retiringWitnesses = a.retiringWitnesses
           /\ e.attempt = a.id /\ e.runner # NoRunner
           /\ b.runner = e.runner /\ ~b.released
      /\ e.type = "RunnerReleased" =>
           /\ Serves(s, t) /\ a.phase # "none" /\ b.phase = a.phase
           /\ SameAttempt(a, b) /\ b.retiringWitnesses = a.retiringWitnesses
           /\ e.attempt = a.id /\ e.runner # NoRunner /\ e.runner = a.runner
           /\ b.runner = a.runner /\ b.released
      /\ e.type = "BuildStarted" =>
           /\ Serves(s, t) /\ a.phase = "created" /\ b.phase = "building"
           /\ SameClaim(a, b) /\ a.runner # NoRunner
      /\ e.type = "CaughtUp" =>
           /\ Serves(s, t) /\ a.phase \in {"building", "caught_up"}
           /\ b.phase = "caught_up" /\ SameClaim(a, b)
      /\ e.type = "Promoted" =>
           /\ a.phase = "caught_up" /\ b.phase = "promoted" /\ SameClaim(a, b)
           /\ t.live = a.target /\ t.cutoverRevision = s.cutoverRevision + 1
           /\ DecodeCutover(e).cutover = LiveCutover(t)
      /\ e.type = "RolledBack" =>
           /\ a.phase = "promoted" /\ b = NoAttempt /\ a.previous # 0
           /\ t.live = a.previous /\ t.cutoverRevision = s.cutoverRevision + 1
           /\ DecodeCutover(e).cutover = LiveCutover(t)
      /\ e.type = "Abandoned" =>
           /\ Serves(s, t) /\ a.phase \in {"created", "building", "caught_up"}
           /\ b = NoAttempt
      /\ e.type = "RetireStarted" =>
           /\ Serves(s, t) /\ a.phase = "promoted" /\ b.phase = "retiring"
           /\ SameClaim(a, b) /\ a.previous # 0 /\ e.retiring = a.previous
           /\ b.retiringWitnesses = e.witnesses
      /\ e.type = "PreviousRetired" =>
           /\ Serves(s, t) /\ b = NoAttempt
           /\ \/ a.phase = "retiring"
              \/ a.phase = "promoted" /\ a.previous = 0
      /\ e.type = "RetirementPolicySet" => Serves(s, t) /\ b = a

LEMMA AcceptedEffect ==
  ASSUME NEW e, NEW s \in State, Accepts(e, s)
  PROVE  Effect(e, s, ApplyTo(e, s))
<1> DEFINE t == ApplyTo(e, s)
           a == s.attempt
           b == t.attempt
<1>0. /\ ~t.invalid /\ a \in AttemptState /\ s.allocated \in Nat
      /\ s.cutoverRevision \in Nat /\ DOMAIN s = DOMAIN NewState
  BY DEF Accepts, Valid, State, NewState
<1>1. CASE e.type = "RebuildInitiated"
  <2>1. t = ApplyRebuildInitiated(e, s)
    BY <1>1, ApplyToCases
  <2>2. ~RebuildInitiatedContradicts(e, s)
    BY <1>0, <2>1 DEF ApplyRebuildInitiated, Poison, State
  <2>3. e.target = s.allocated + 1 /\ e.previous = s.live /\ a.phase = "none"
    BY <2>2 DEF RebuildInitiatedContradicts
  <2>4. /\ t.live = s.live /\ t.cutoverRevision = s.cutoverRevision
        /\ t.allocated = MaxOf(s.allocated, e.target)
    BY <2>1 DEF ApplyRebuildInitiated, Poison, State
  <2>5. b = [id |-> e.attempt, target |-> e.target, previous |-> e.previous,
             phase |-> "created", runner |-> NoRunner, released |-> FALSE,
             caughtUpPos |-> 0, retiringWitnesses |-> {}]
    BY <2>1 DEF ApplyRebuildInitiated, Poison, State
  <2>6. t.allocated = s.allocated + 1
    BY <1>0, <2>3, <2>4 DEF MaxOf
  <2>7. QED
    BY <1>1, <2>3, <2>4, <2>5, <2>6 DEF Effect, Serves
<1>2. CASE e.type = "RunnerClaimed"
  <2>1. t = ApplyRunnerClaimed(e, s)
    BY <1>2, ApplyToCases
  <2>2. ~RunnerClaimedContradicts(e, s)
    BY <1>0, <2>1 DEF ApplyRunnerClaimed, Poison, State
  <2>3. Serves(s, t) /\ t.allocated = s.allocated
    BY <2>1 DEF ApplyRunnerClaimed, Poison, State, Serves
  <2>4. b = [a EXCEPT !.runner = e.runner, !.released = FALSE]
    BY <2>1 DEF ApplyRunnerClaimed, Poison, State
  <2>5. /\ SameAttempt(a, b) /\ b.phase = a.phase /\ b.runner = e.runner /\ ~b.released
        /\ b.retiringWitnesses = a.retiringWitnesses
    BY <1>0, <2>4 DEF AttemptState, SameAttempt
  <2>6. QED
    BY <1>2, <2>2, <2>3, <2>5 DEF Effect, RunnerClaimedContradicts
<1>3. CASE e.type = "RunnerReleased"
  <2>1. t = ApplyRunnerReleased(e, s)
    BY <1>3, ApplyToCases
  <2>2. ~RunnerReleasedContradicts(e, s)
    BY <1>0, <2>1 DEF ApplyRunnerReleased, Poison, State
  <2>3. Serves(s, t) /\ t.allocated = s.allocated
    BY <2>1 DEF ApplyRunnerReleased, Poison, State, Serves
  <2>4. b = [a EXCEPT !.released = TRUE]
    BY <2>1 DEF ApplyRunnerReleased, Poison, State
  <2>5. /\ SameAttempt(a, b) /\ b.phase = a.phase /\ b.runner = a.runner /\ b.released
        /\ b.retiringWitnesses = a.retiringWitnesses
    BY <1>0, <2>4 DEF AttemptState, SameAttempt
  <2>6. QED
    BY <1>3, <2>2, <2>3, <2>5 DEF Effect, RunnerReleasedContradicts
<1>4. CASE e.type = "BuildStarted"
  <2>1. t = ApplyBuildStarted(e, s)
    BY <1>4, ApplyToCases
  <2>2. ~BuildStartedContradicts(e, s)
    BY <1>0, <2>1 DEF ApplyBuildStarted, Poison, State
  <2>3. Serves(s, t) /\ t.allocated = s.allocated
    BY <2>1 DEF ApplyBuildStarted, Poison, State, Serves
  <2>4. b = [a EXCEPT !.phase = "building"]
    BY <2>1 DEF ApplyBuildStarted, Poison, State
  <2>5. SameClaim(a, b) /\ b.phase = "building"
    BY <1>0, <2>4 DEF AttemptState, SameAttempt, SameClaim
  <2>6. QED
    BY <1>4, <2>2, <2>3, <2>5 DEF Effect, BuildStartedContradicts
<1>5. CASE e.type = "CaughtUp"
  <2>1. t = ApplyCaughtUp(e, s)
    BY <1>5, ApplyToCases
  <2>2. ~CaughtUpContradicts(e, s)
    BY <1>0, <2>1 DEF ApplyCaughtUp, Poison, State
  <2>3. Serves(s, t) /\ t.allocated = s.allocated
    BY <2>1 DEF ApplyCaughtUp, Poison, State, Serves
  <2>4. b = [a EXCEPT !.phase = "caught_up", !.caughtUpPos = e.position]
    BY <2>1 DEF ApplyCaughtUp, Poison, State
  <2>5. SameClaim(a, b) /\ b.phase = "caught_up"
    BY <1>0, <2>4 DEF AttemptState, SameAttempt, SameClaim
  <2>6. QED
    BY <1>5, <2>2, <2>3, <2>5 DEF Effect, CaughtUpContradicts
<1>6. CASE e.type = "Promoted"
  <2>1. t = ApplyPromoted(e, s)
    BY <1>6, ApplyToCases
  <2>2. ~PromotedContradicts(e, s)
    BY <1>0, <2>1 DEF ApplyPromoted, Poison, State
  <2>3. a.phase = "caught_up" /\ e.next = a.target /\ e.revision = s.cutoverRevision + 1
    BY <2>2 DEF PromotedContradicts
  <2>4. /\ t.live = e.next /\ t.cutoverRevision = MaxOf(s.cutoverRevision, e.revision)
        /\ t.allocated = s.allocated /\ b = [a EXCEPT !.phase = "promoted"]
    BY <2>1 DEF ApplyPromoted, Poison, State
  <2>5. SameClaim(a, b) /\ b.phase = "promoted"
    BY <1>0, <2>4 DEF AttemptState, SameAttempt, SameClaim
  <2>6. t.cutoverRevision = s.cutoverRevision + 1
    BY <1>0, <2>3, <2>4 DEF MaxOf
  <2>7. DecodeCutover(e).cutover = LiveCutover(t)
    BY <1>6, <2>3, <2>4, <2>6 DEF DecodeCutover, LiveCutover
  <2>8. QED
    BY <1>6, <2>3, <2>4, <2>5, <2>6, <2>7 DEF Effect
<1>7. CASE e.type = "RolledBack"
  <2>1. t = ApplyRolledBack(e, s)
    BY <1>7, ApplyToCases
  <2>2. ~RolledBackContradicts(e, s)
    BY <1>0, <2>1 DEF ApplyRolledBack, Poison, State
  <2>3. /\ a.phase = "promoted" /\ e.revertedTo = a.previous /\ a.previous # 0
        /\ e.revision = s.cutoverRevision + 1
    BY <2>2 DEF RolledBackContradicts
  <2>4. /\ t.live = e.revertedTo /\ t.cutoverRevision = MaxOf(s.cutoverRevision, e.revision)
        /\ t.allocated = s.allocated /\ b = NoAttempt
    BY <2>1 DEF ApplyRolledBack, Poison, State
  <2>5. t.cutoverRevision = s.cutoverRevision + 1
    BY <1>0, <2>3, <2>4 DEF MaxOf
  <2>6. DecodeCutover(e).cutover = LiveCutover(t)
    BY <1>7, <2>3, <2>4, <2>5 DEF DecodeCutover, LiveCutover
  <2>7. QED
    BY <1>7, <2>3, <2>4, <2>5, <2>6 DEF Effect
<1>8. CASE e.type = "Abandoned"
  <2>1. t = ApplyAbandoned(e, s)
    BY <1>8, ApplyToCases
  <2>2. ~AbandonedContradicts(e, s)
    BY <1>0, <2>1 DEF ApplyAbandoned, Poison, State
  <2>3. Serves(s, t) /\ t.allocated = s.allocated /\ b = NoAttempt
    BY <2>1 DEF ApplyAbandoned, Poison, State, Serves
  <2>4. QED
    BY <1>8, <2>2, <2>3 DEF Effect, AbandonedContradicts
<1>9. CASE e.type = "RetireStarted"
  <2>1. t = ApplyRetireStarted(e, s)
    BY <1>9, ApplyToCases
  <2>2. ~RetireStartedContradicts(e, s)
    BY <1>0, <2>1 DEF ApplyRetireStarted, Poison, State
  <2>3. Serves(s, t) /\ t.allocated = s.allocated
    BY <2>1 DEF ApplyRetireStarted, Poison, State, Serves
  <2>4. b = [a EXCEPT !.phase = "retiring", !.retiringWitnesses = e.witnesses]
    BY <2>1 DEF ApplyRetireStarted, Poison, State
  <2>5. SameClaim(a, b) /\ b.phase = "retiring" /\ b.retiringWitnesses = e.witnesses
    BY <1>0, <2>4 DEF AttemptState, SameAttempt, SameClaim
  <2>6. QED
    BY <1>9, <2>2, <2>3, <2>5 DEF Effect, RetireStartedContradicts
<1>10. CASE e.type = "PreviousRetired"
  <2>1. t = ApplyPreviousRetired(e, s)
    BY <1>10, ApplyToCases
  <2>2. ~PreviousRetiredContradicts(e, s)
    BY <1>0, <2>1 DEF ApplyPreviousRetired, Poison, State
  <2>3. Serves(s, t) /\ t.allocated = s.allocated /\ b = NoAttempt
    BY <2>1 DEF ApplyPreviousRetired, Poison, State, Serves
  <2>4. QED
    BY <1>10, <2>2, <2>3 DEF Effect, PreviousRetiredContradicts
<1>11. CASE e.type = "RetirementPolicySet"
  <2>1. t = ApplyRetirementPolicySet(e, s)
    BY <1>11, ApplyToCases
  <2>2. Serves(s, t) /\ t.allocated = s.allocated /\ b = a
    BY <2>1 DEF ApplyRetirementPolicySet, Poison, State, Serves
  <2>3. QED
    BY <1>11, <2>2 DEF Effect
<1>12. QED
  BY <1>1, <1>2, <1>3, <1>4, <1>5, <1>6, <1>7, <1>8, <1>9, <1>10, <1>11
     DEF Accepts, EventType

-----------------------------------------------------------------------------
(* What holds between a state of a history and every later one.             *)

\* An attempt is named by the version it builds.
Named(s) == s.attempt.phase # "none" => s.attempt.id = s.attempt.target
NamedEvent(e) == e.type = "RebuildInitiated" => e.attempt = e.target

Sound(s) == s \in State /\ Valid(s) /\ Named(s)

\* How far a history has come: by versions allocated, then by the attempt's phase.
PhaseRank(p) ==
  CASE p = "created" -> 1 [] p = "building" -> 2 [] p = "caught_up" -> 3
    [] p = "promoted" -> 4 [] p = "retiring" -> 5 [] p = "none" -> 6

Progress(s) == 7 * s.allocated + PhaseRank(s.attempt.phase)

\* Since s reserved a retirement, nothing older than its target has been live, and
\* the reservation stands, has been settled, or a newer version has been begun.
Outlives(s, t) ==
  /\ t.live >= s.attempt.target
  /\ \/ t.attempt.phase = "none"
     \/ /\ SameAttempt(s.attempt, t.attempt) /\ t.attempt.phase = "retiring"
        /\ t.attempt.retiringWitnesses = s.attempt.retiringWitnesses
     \/ t.attempt.previous >= s.attempt.target

\* A history may go on from s to t.
Leads(s, t) ==
  /\ Progress(s) <= Progress(t)
  /\ s.cutoverRevision <= t.cutoverRevision
  /\ s.cutoverRevision = t.cutoverRevision => s.live = t.live
  /\ s.attempt.phase = "retiring" => Outlives(s, t)

LEMMA RankType ==
  ASSUME NEW p \in Phase
  PROVE  PhaseRank(p) \in 1 .. 6
BY DEF PhaseRank, Phase

\* What validity says of the attempt in flight, or of its absence.
LEMMA SoundAttempt ==
  ASSUME NEW s, Sound(s)
  PROVE  LET a == s.attempt
         IN  /\ s.live \in Nat /\ s.cutoverRevision \in Nat /\ s.allocated \in Nat
             /\ a.id \in Nat /\ a.target \in Nat /\ a.previous \in Nat
             /\ a.phase \in Phase
             /\ a.runner \in Runner \cup {NoRunner}
             /\ a.retiringWitnesses \in SUBSET Witness
             /\ s.live <= s.allocated
             /\ a.phase = "none" => a = NoAttempt /\ a.id = 0 /\ a.runner = NoRunner
             /\ a.phase # "none" =>
                  /\ a.id # 0 /\ a.id = a.target /\ a.target = s.allocated
                  /\ a.previous # 0 => a.previous < a.target
                  /\ a.runner = NoRunner => a.phase = "created" /\ ~a.released
                  /\ a.phase \in {"created", "building", "caught_up"} => s.live = a.previous
                  /\ a.phase \in {"promoted", "retiring"} => s.live = a.target
                  /\ a.phase = "retiring" => a.previous # 0
<1>1. s.attempt \in AttemptState /\ s \in State /\ Valid(s) /\ Named(s)
  BY DEF Sound, State
<1>2. CASE s.named
  <2>1. ValidAttempt(s) /\ s.live <= s.allocated
    BY <1>1, <1>2 DEF Valid
  <2>2. CASE s.attempt.phase = "none"
    BY <1>1, <2>1, <2>2 DEF ValidAttempt, NoAttempt, State, AttemptState
  <2>3. CASE s.attempt.phase # "none"
    BY <1>1, <2>1, <2>3 DEF ValidAttempt, State, AttemptState, Named
  <2>4. QED
    BY <2>2, <2>3
<1>3. CASE ~s.named
  <2>1. s = NewState
    BY <1>1, <1>3 DEF Valid
  <2>2. s.attempt = NoAttempt /\ s.live = 0 /\ s.allocated = 0
    BY <2>1 DEF NewState
  <2>3. QED
    BY <1>1, <2>2 DEF NoAttempt, State, AttemptState
<1>4. QED
  BY <1>2, <1>3

LEMMA NewIsSoundState == Sound(NewState)
<1>1. NewState \in State
  BY NoAttemptType DEF NewState, State, NoPolicy, RetirementPolicy
<1>2. Valid(NewState)
  BY DEF Valid, NewState
<1>3. QED
  BY <1>1, <1>2 DEF Sound, Named, NewState, NoAttempt

\* An accepted event leaves a sound state.
LEMMA SoundStep ==
  ASSUME NEW e, NEW s, Sound(s), Accepts(e, s), NamedEvent(e)
  PROVE  Sound(ApplyTo(e, s))
<1> DEFINE t == ApplyTo(e, s)
<1>1. Effect(e, s, t) /\ t \in State /\ Valid(t) /\ e.type \in EventType
  BY AcceptedEffect DEF Sound, Accepts
<1> HIDE DEF t
<1>2. Named(t)
  <2>1. CASE e.type = "RebuildInitiated"
    BY <1>1, <2>1 DEF Effect, Named, NamedEvent
  <2>2. CASE e.type \in {"RolledBack", "Abandoned", "PreviousRetired"}
    BY <1>1, <2>2 DEF Effect, Named, NoAttempt
  <2>3. CASE e.type \in {"RunnerClaimed", "RunnerReleased"}
    BY <1>1, <2>3 DEF Effect, Named, SameAttempt, Sound
  <2>4. CASE e.type \in {"BuildStarted", "CaughtUp", "Promoted", "RetireStarted"}
    BY <1>1, <2>4 DEF Effect, Named, SameAttempt, SameClaim, Sound
  <2>5. CASE e.type = "RetirementPolicySet"
    BY <1>1, <2>5 DEF Effect, Named, Sound
  <2>6. QED
    BY <1>1, <2>1, <2>2, <2>3, <2>4, <2>5 DEF EventType
<1>3. QED
  BY <1>1, <1>2 DEF Sound, t

\* A bound on the versions begun is a bound on the versions allocated.
LEMMA AcceptedBound ==
  ASSUME NEW e, NEW s, Sound(s), Accepts(e, s), NEW m, s.allocated <= m,
         e.type = "RebuildInitiated" => e.target <= m
  PROVE  ApplyTo(e, s).allocated <= m
BY AcceptedEffect DEF Effect, Sound

LEMMA LeadsSelf ==
  ASSUME NEW s, Sound(s)
  PROVE  Leads(s, s)
<1>1. Progress(s) \in Nat
  BY SoundAttempt, RankType DEF Progress
<1>2. QED
  BY <1>1, SoundAttempt DEF Leads, Outlives, SameAttempt

\* An accepted event makes progress.
LEMMA StepProgresses ==
  ASSUME NEW e, NEW s, Sound(s), Accepts(e, s), NamedEvent(e)
  PROVE  Progress(s) <= Progress(ApplyTo(e, s))
<1> DEFINE t == ApplyTo(e, s)
           p == s.attempt.phase
           q == t.attempt.phase
<1>1. Effect(e, s, t) /\ Sound(t) /\ e.type \in EventType
  BY AcceptedEffect, SoundStep DEF Sound, Accepts
<1> HIDE DEF t
<1>2. p \in Phase /\ q \in Phase /\ s.allocated \in Nat /\ t.allocated \in Nat
  BY <1>1, SoundAttempt
<1>3. CASE e.type = "RebuildInitiated"
  <2>1. t.allocated = s.allocated + 1
    BY <1>1, <1>3 DEF Effect
  <2>2. PhaseRank(p) \in 1 .. 6 /\ PhaseRank(q) \in 1 .. 6
    BY <1>2, RankType
  <2>3. QED
    BY <1>2, <2>1, <2>2 DEF Progress, t
<1>4. CASE e.type # "RebuildInitiated"
  <2>1. t.allocated = s.allocated
    BY <1>1, <1>4 DEF Effect
  <2>2. \/ p = q
        \/ q = "none"
        \/ p = "created" /\ q = "building"
        \/ p = "building" /\ q = "caught_up"
        \/ p = "caught_up" /\ q = "promoted"
        \/ p = "promoted" /\ q = "retiring"
    <3>1. CASE e.type \in {"RolledBack", "Abandoned", "PreviousRetired"}
      BY <1>1, <3>1 DEF Effect, NoAttempt
    <3>2. CASE e.type \in {"RunnerClaimed", "RunnerReleased", "RetirementPolicySet"}
      BY <1>1, <3>2 DEF Effect
    <3>3. CASE e.type \in {"BuildStarted", "CaughtUp", "Promoted", "RetireStarted"}
      BY <1>1, <3>3 DEF Effect
    <3>4. QED
      BY <1>1, <1>4, <3>1, <3>2, <3>3 DEF EventType
  <2>3. PhaseRank(p) <= PhaseRank(q)
    BY <1>2, <2>2 DEF PhaseRank, Phase
  <2>4. QED
    BY <1>2, <2>1, <2>3, RankType DEF Progress, t
<1>5. QED
  BY <1>3, <1>4

\* A reservation outlives every accepted event.
LEMMA StepOutlives ==
  ASSUME NEW r, Sound(r), r.attempt.phase = "retiring",
         NEW e, NEW s, Sound(s), Accepts(e, s), NamedEvent(e), Outlives(r, s)
  PROVE  Outlives(r, ApplyTo(e, s))
<1> DEFINE t == ApplyTo(e, s)
           a == s.attempt
           b == t.attempt
           n == r.attempt.target
<1>1. Effect(e, s, t) /\ Sound(t) /\ e.type \in EventType
  BY AcceptedEffect, SoundStep DEF Sound, Accepts
<1> HIDE DEF t
<1>2. /\ n \in Nat /\ n # 0 /\ s.live \in Nat /\ t.live \in Nat /\ s.live >= n
      /\ s.allocated \in Nat /\ s.live <= s.allocated
      /\ a.previous \in Nat /\ b.previous \in Nat
  BY <1>1, SoundAttempt DEF Outlives
<1>3. t.live >= n
  <2>1. CASE e.type = "Promoted"
    <3>1. t.live = a.target /\ a.phase = "caught_up"
      BY <1>1, <2>1 DEF Effect
    <3>2. a.target = s.allocated
      BY <3>1, SoundAttempt
    <3>3. QED
      BY <1>2, <3>1, <3>2
  <2>2. CASE e.type = "RolledBack"
    <3>1. t.live = a.previous /\ a.phase = "promoted"
      BY <1>1, <2>2 DEF Effect
    <3>2. QED
      BY <3>1 DEF Outlives
  <2>3. CASE e.type \notin {"Promoted", "RolledBack"}
    BY <1>1, <1>2, <2>3 DEF Effect, EventType, Serves
  <2>4. QED
    BY <2>1, <2>2, <2>3
<1>4. \/ b.phase = "none"
      \/ /\ SameAttempt(r.attempt, b) /\ b.phase = "retiring"
         /\ b.retiringWitnesses = r.attempt.retiringWitnesses
      \/ b.previous >= n
  <2>1. CASE e.type = "RebuildInitiated"
    <3>1. b.previous = s.live
      BY <1>1, <2>1 DEF Effect
    <3>2. QED
      BY <1>2, <3>1
  <2>2. CASE e.type \in {"RolledBack", "Abandoned", "PreviousRetired"}
    BY <1>1, <2>2 DEF Effect, NoAttempt
  <2>3. CASE e.type \in {"RunnerClaimed", "RunnerReleased"}
    BY <1>1, <2>3 DEF Effect, Outlives, SameAttempt
  <2>4. CASE e.type \in {"BuildStarted", "CaughtUp", "Promoted", "RetireStarted"}
    BY <1>1, <2>4 DEF Effect, Outlives, SameAttempt, SameClaim
  <2>5. CASE e.type = "RetirementPolicySet"
    BY <1>1, <2>5 DEF Effect, Outlives, SameAttempt
  <2>6. QED
    BY <1>1, <2>1, <2>2, <2>3, <2>4, <2>5 DEF EventType
<1>5. QED
  BY <1>3, <1>4 DEF Outlives, t

\* An accepted event counts every cutover.
LEMMA StepCounts ==
  ASSUME NEW e, NEW s, Sound(s), Accepts(e, s), NamedEvent(e)
  PROVE  LET t == ApplyTo(e, s)
         IN  \/ t.cutoverRevision = s.cutoverRevision /\ t.live = s.live
             \/ t.cutoverRevision = s.cutoverRevision + 1
<1>1. Effect(e, s, ApplyTo(e, s)) /\ e.type \in EventType
  BY AcceptedEffect DEF Sound, Accepts
<1>2. QED
  BY <1>1 DEF Effect, EventType, Serves

\* So a history that leads from r to s leads on to what s accepts.
LEMMA LeadsOn ==
  ASSUME NEW r, Sound(r), NEW e, NEW s, Sound(s), Accepts(e, s), NamedEvent(e),
         Leads(r, s)
  PROVE  Leads(r, ApplyTo(e, s))
<1> DEFINE t == ApplyTo(e, s)
<1>1. Sound(t)
  BY SoundStep
<1>2. Progress(s) <= Progress(t)
  BY StepProgresses
<1>3. \/ t.cutoverRevision = s.cutoverRevision /\ t.live = s.live
      \/ t.cutoverRevision = s.cutoverRevision + 1
  BY StepCounts
<1>4. r.attempt.phase = "retiring" => Outlives(r, t)
  BY StepOutlives DEF Leads
<1> HIDE DEF t
<1>5. /\ Progress(r) \in Nat /\ Progress(s) \in Nat /\ Progress(t) \in Nat
      /\ r.cutoverRevision \in Nat /\ s.cutoverRevision \in Nat
  BY <1>1, SoundAttempt, RankType DEF Progress
<1>6. QED
  BY <1>2, <1>3, <1>4, <1>5 DEF Leads, t

\* Within one attempt the phase only advances, and no other comes between.
LEMMA OneAttempt ==
  ASSUME NEW r, Sound(r), NEW s, Sound(s), NEW t, Sound(t), Leads(r, s), Leads(s, t),
         r.attempt.id # 0, r.attempt.id = t.attempt.id
  PROVE  /\ s.attempt.id = r.attempt.id
         /\ PhaseRank(s.attempt.phase) <= PhaseRank(t.attempt.phase)
<1>1. r.attempt.phase # "none" /\ t.attempt.phase # "none" /\ t.allocated = r.allocated
  BY SoundAttempt
<1>2. /\ PhaseRank(r.attempt.phase) \in 1 .. 6 /\ PhaseRank(s.attempt.phase) \in 1 .. 6
      /\ PhaseRank(t.attempt.phase) \in 1 .. 6
      /\ r.allocated \in Nat /\ s.allocated \in Nat /\ t.allocated \in Nat
      /\ s.attempt.phase \in Phase /\ t.attempt.phase \in Phase
  BY RankType, SoundAttempt
<1>3. PhaseRank(t.attempt.phase) < 6 /\ (s.attempt.phase = "none" => PhaseRank(s.attempt.phase) = 6)
  BY <1>1, <1>2 DEF PhaseRank, Phase
<1>4. s.allocated = r.allocated /\ PhaseRank(s.attempt.phase) <= PhaseRank(t.attempt.phase)
  BY <1>1, <1>2, <1>3 DEF Leads, Progress
<1>5. s.attempt.phase # "none"
  BY <1>2, <1>3, <1>4
<1>6. s.attempt.id = s.allocated /\ r.attempt.id = r.allocated
  BY <1>1, <1>5, SoundAttempt
<1>7. QED
  BY <1>4, <1>6

-----------------------------------------------------------------------------
(* The stream as a history: every state is the fold of the events before.   *)

StateIn(l, v) == IF v = 0 THEN NewState ELSE l[v].state

Folded(l) ==
  \A i \in 1 .. Len(l) :
    /\ Accepts(l[i].event, StateIn(l, i - 1)) /\ NamedEvent(l[i].event)
    /\ l[i].state = ApplyTo(l[i].event, StateIn(l, i - 1))

AttemptIn(l, i) == StateIn(l, i).attempt

LEMMA FoldedIsSound ==
  ASSUME NEW l, Len(l) \in Nat, Folded(l)
  PROVE  \A i \in 0 .. Len(l) : Sound(StateIn(l, i))
<1> DEFINE S == {i \in 0 .. Len(l) : Sound(StateIn(l, i))}
<1>1. 0 \in S
  BY NewIsSoundState DEF StateIn
<1>2. ASSUME NEW i \in 1 .. Len(l), i - 1 \in S
      PROVE  i \in S
  <2>1. StateIn(l, i) = ApplyTo(l[i].event, StateIn(l, i - 1))
    BY DEF Folded, StateIn
  <2>2. Sound(StateIn(l, i))
    BY <1>2, <2>1, SoundStep DEF Folded
  <2>3. QED
    BY <2>2
<1>3. \A i \in 0 .. Len(l) : i \in S
  <2> HIDE DEF S
  <2>1. QED
    BY <1>1, <1>2, IntervalInduction
<1>4. QED
  BY <1>3

\* One event of the stream.
LEMMA FoldedStep ==
  ASSUME NEW l, Len(l) \in Nat, Folded(l), NEW i \in 1 .. Len(l)
  PROVE  LET e == l[i].event
             s == StateIn(l, i - 1)
         IN  /\ Sound(s) /\ Sound(StateIn(l, i))
             /\ Accepts(e, s) /\ NamedEvent(e) /\ e.type \in EventType
             /\ StateIn(l, i) = ApplyTo(e, s) /\ l[i].state = StateIn(l, i)
             /\ Effect(e, s, StateIn(l, i))
<1>1. i - 1 \in 0 .. Len(l) /\ i \in 0 .. Len(l)
  OBVIOUS
<1>2. Sound(StateIn(l, i - 1)) /\ Sound(StateIn(l, i))
  BY <1>1, FoldedIsSound
<1>3. /\ Accepts(l[i].event, StateIn(l, i - 1)) /\ NamedEvent(l[i].event)
      /\ l[i].state = ApplyTo(l[i].event, StateIn(l, i - 1))
  BY DEF Folded
<1>4. StateIn(l, i) = l[i].state
  BY DEF StateIn
<1>5. QED
  BY <1>2, <1>3, <1>4, AcceptedEffect DEF Accepts, Sound

LEMMA FoldedLeads ==
  ASSUME NEW l, Len(l) \in Nat, Folded(l), NEW i \in 0 .. Len(l), NEW j \in i .. Len(l)
  PROVE  Leads(StateIn(l, i), StateIn(l, j))
<1> DEFINE S == {k \in 0 .. Len(l) : k >= i => Leads(StateIn(l, i), StateIn(l, k))}
<1>1. Sound(StateIn(l, i)) /\ Leads(StateIn(l, i), StateIn(l, i))
  BY FoldedIsSound, LeadsSelf
<1>2. 0 \in S
  BY <1>1
<1>3. ASSUME NEW k \in 1 .. Len(l), k - 1 \in S
      PROVE  k \in S
  <2>1. CASE k <= i
    BY <1>1, <2>1
  <2>2. CASE k > i
    <3>1. Leads(StateIn(l, i), StateIn(l, k - 1))
      BY <1>3, <2>2
    <3>2. Leads(StateIn(l, i), StateIn(l, k))
      BY <1>1, <3>1, FoldedStep, LeadsOn
    <3>3. QED
      BY <3>2
  <2>3. QED
    BY <2>1, <2>2
<1>4. \A k \in 0 .. Len(l) : k \in S
  <2> HIDE DEF S
  <2>1. QED
    BY <1>2, <1>3, IntervalInduction
<1>5. QED
  BY <1>4

\* An attempt the stream has left behind never comes back.
LEMMA EndedStays ==
  ASSUME NEW l, Len(l) \in Nat, Folded(l), NEW i \in 0 .. Len(l), NEW j \in i .. Len(l),
         NEW k \in j .. Len(l), AttemptIn(l, i).id # 0, AttemptIn(l, j).id # AttemptIn(l, i).id
  PROVE  AttemptIn(l, k).id # AttemptIn(l, i).id
<1>1. j \in 0 .. Len(l) /\ k \in 0 .. Len(l)
  OBVIOUS
<1>2. Leads(StateIn(l, i), StateIn(l, j)) /\ Leads(StateIn(l, j), StateIn(l, k))
  BY <1>1, FoldedLeads
<1>3. Sound(StateIn(l, i)) /\ Sound(StateIn(l, j)) /\ Sound(StateIn(l, k))
  BY <1>1, FoldedIsSound
<1>4. QED
  BY <1>2, <1>3, OneAttempt DEF AttemptIn

\* Whoever holds the attempt claimed it.
ClaimedAt(l, k, h, id) ==
  /\ l[k].event.type = "RunnerClaimed" /\ l[k].event.runner = h
  /\ l[k].event.attempt = id

LEMMA ClaimBetween ==
  ASSUME NEW l, Len(l) \in Nat, Folded(l), NEW i \in 0 .. Len(l), NEW j \in i .. Len(l),
         AttemptIn(l, i).id = AttemptIn(l, j).id, AttemptIn(l, i).id # 0,
         AttemptIn(l, i).runner # AttemptIn(l, j).runner
  PROVE  \E k \in i + 1 .. j : ClaimedAt(l, k, AttemptIn(l, j).runner, AttemptIn(l, j).id)
<1> DEFINE a(k) == AttemptIn(l, k)
           S == {k \in 0 .. Len(l) :
                   k >= i /\ a(k).id = a(i).id /\ a(k).runner # a(i).runner =>
                     \E n \in i + 1 .. k : ClaimedAt(l, n, a(k).runner, a(k).id)}
<1>1. 0 \in S
  OBVIOUS
<1>2. ASSUME NEW k \in 1 .. Len(l), k - 1 \in S
      PROVE  k \in S
  <2>1. SUFFICES ASSUME k >= i, a(k).id = a(i).id, a(k).runner # a(i).runner
                 PROVE  \E n \in i + 1 .. k : ClaimedAt(l, n, a(k).runner, a(k).id)
    OBVIOUS
  <2>2. k - 1 \in i .. Len(l) /\ k \in k - 1 .. Len(l)
    BY <2>1
  <2>3. a(k - 1).id = a(i).id
    BY <2>1, <2>2, EndedStays
  <2>4. Effect(l[k].event, StateIn(l, k - 1), StateIn(l, k)) /\ l[k].event.type \in EventType
    BY FoldedStep
  <2>5. CASE l[k].event.type = "RunnerClaimed"
    <3>1. ClaimedAt(l, k, a(k).runner, a(k).id)
      BY <2>4, <2>5 DEF Effect, ClaimedAt, AttemptIn, SameAttempt
    <3>2. QED
      BY <2>2, <3>1
  <2>6. CASE l[k].event.type # "RunnerClaimed"
    <3>1. a(k).runner = a(k - 1).runner
      <4>1. a(k).id # 0
        BY <2>1
      <4>2. CASE l[k].event.type = "RebuildInitiated"
        <5>1. StateIn(l, k - 1).attempt.phase = "none"
          BY <2>4, <4>2 DEF Effect
        <5>2. a(k - 1).id = 0
          BY <5>1, FoldedStep, SoundAttempt DEF AttemptIn
        <5>3. QED
          BY <2>1, <2>3, <5>2
      <4>3. CASE l[k].event.type \in {"RolledBack", "Abandoned", "PreviousRetired"}
        BY <2>4, <4>1, <4>3 DEF Effect, NoAttempt, AttemptIn
      <4>4. CASE l[k].event.type \in {"RunnerReleased", "BuildStarted", "CaughtUp",
                                      "Promoted", "RetireStarted", "RetirementPolicySet"}
        BY <2>4, <4>4 DEF Effect, AttemptIn, SameClaim
      <4>5. QED
        BY <2>4, <2>6, <4>2, <4>3, <4>4 DEF EventType
    <3>2. PICK n \in i + 1 .. k - 1 : ClaimedAt(l, n, a(k).runner, a(k).id)
      BY <1>2, <2>1, <2>2, <2>3, <3>1
    <3>3. QED
      BY <3>2
  <2>7. QED
    BY <2>5, <2>6
<1>3. \A k \in 0 .. Len(l) : k \in S
  <2> HIDE DEF S
  <2>1. QED
    BY <1>1, <1>2, IntervalInduction
<1>4. QED
  BY <1>3

-----------------------------------------------------------------------------
(* Events that a state accepts, and what they make of it.                   *)

\* An event that does not contradict a sound state is accepted by it.
LEMMA InitiationAccepted ==
  ASSUME NEW s, Sound(s), s.attempt.phase = "none"
  PROVE  LET e == RebuildInitiated(s.allocated + 1, s.allocated + 1, s.live)
         IN  Accepts(e, s) /\ NamedEvent(e)
<1> DEFINE n == s.allocated + 1
           e == RebuildInitiated(n, n, s.live)
<1>1. s \in State /\ Valid(s) /\ n \in Nat /\ n >= 1 /\ s.live \in Nat /\ ~s.invalid
  BY SoundAttempt DEF Sound, Valid
<1>2. ~RebuildInitiatedContradicts(e, s)
  BY <1>1 DEF RebuildInitiatedContradicts, RebuildInitiated
<1>3. ~ApplyRebuildInitiated(e, s).invalid
  BY <1>1, <1>2 DEF ApplyRebuildInitiated, Poison, State
<1>4. ApplyRebuildInitiated(e, s) \in State /\ Valid(ApplyRebuildInitiated(e, s))
  BY <1>1, <1>3, FoldType, RebuildInitiatedSound
<1>5. e.type = "RebuildInitiated" /\ e.attempt = e.target
  BY DEF RebuildInitiated
<1>6. QED
  BY <1>4, <1>5, ApplyToCases DEF Accepts, EventType, NamedEvent

LEMMA ReleaseAccepted ==
  ASSUME NEW s, Sound(s), s.attempt.phase # "none", NEW h \in Runner,
         s.attempt.runner = h, ~s.attempt.released
  PROVE  LET e == RunnerReleased(s.attempt.id, h)
         IN  Accepts(e, s) /\ NamedEvent(e)
<1> DEFINE i == s.attempt.id
           e == RunnerReleased(i, h)
<1>1. s \in State /\ Valid(s) /\ i \in Nat /\ i # 0 /\ ~s.invalid /\ h # NoRunner
  BY SoundAttempt, NoRunnerAssumption DEF Sound, Valid
<1>2. ~RunnerReleasedContradicts(e, s)
  BY <1>1 DEF RunnerReleasedContradicts, RunnerReleased
<1>3. ~ApplyRunnerReleased(e, s).invalid
  BY <1>1, <1>2 DEF ApplyRunnerReleased, Poison, State
<1>4. ApplyRunnerReleased(e, s) \in State /\ Valid(ApplyRunnerReleased(e, s))
  BY <1>1, <1>3, FoldType, RunnerReleasedSound
<1>5. e.type = "RunnerReleased"
  BY DEF RunnerReleased
<1>6. QED
  BY <1>4, <1>5, ApplyToCases DEF Accepts, EventType, NamedEvent

LEMMA BuildAccepted ==
  ASSUME NEW s, Sound(s), s.attempt.phase = "created", s.attempt.runner # NoRunner
  PROVE  Accepts(BuildStarted, s) /\ NamedEvent(BuildStarted)
<1>1. s \in State /\ Valid(s) /\ ~s.invalid
  BY DEF Sound, Valid
<1>2. ~ApplyBuildStarted(BuildStarted, s).invalid
  BY <1>1 DEF ApplyBuildStarted, BuildStartedContradicts, Poison, State
<1>3. ApplyBuildStarted(BuildStarted, s) \in State /\ Valid(ApplyBuildStarted(BuildStarted, s))
  BY <1>1, <1>2, FoldType, BuildStartedSound
<1>4. BuildStarted.type = "BuildStarted"
  BY DEF BuildStarted
<1>5. QED
  BY <1>3, <1>4, ApplyToCases DEF Accepts, EventType, NamedEvent

LEMMA CatchUpAccepted ==
  ASSUME NEW s, Sound(s), s.attempt.phase \in {"building", "caught_up"}, NEW p \in Int
  PROVE  Accepts(CaughtUp(p), s) /\ NamedEvent(CaughtUp(p))
<1> DEFINE e == CaughtUp(p)
<1>1. s \in State /\ Valid(s) /\ ~s.invalid
  BY DEF Sound, Valid
<1>2. ~ApplyCaughtUp(e, s).invalid
  BY <1>1 DEF ApplyCaughtUp, CaughtUpContradicts, Poison, State
<1>3. ApplyCaughtUp(e, s) \in State /\ Valid(ApplyCaughtUp(e, s))
  BY <1>1, <1>2, FoldType, CaughtUpSound
<1>4. e.type = "CaughtUp"
  BY DEF CaughtUp
<1>5. QED
  BY <1>3, <1>4, ApplyToCases DEF Accepts, EventType, NamedEvent

LEMMA PromotionAccepted ==
  ASSUME NEW s, Sound(s), s.attempt.phase = "caught_up", s.cutoverRevision # MaxInt64
  PROVE  LET e == Promoted(s.live, s.attempt.target, s.cutoverRevision + 1,
                           s.policy.generation)
         IN  Accepts(e, s) /\ NamedEvent(e)
<1> DEFINE p == s.live
           n == s.attempt.target
           r == s.cutoverRevision + 1
           g == s.policy.generation
           e == Promoted(p, n, r, g)
<1>1. /\ s \in State /\ Valid(s) /\ ~s.invalid
      /\ p \in Nat /\ n \in Nat /\ r \in Nat /\ g \in Nat
  BY SoundAttempt DEF Sound, Valid, State, RetirementPolicy
<1>2. ~PromotedContradicts(e, s)
  BY <1>1 DEF PromotedContradicts, Promoted
<1>3. ~ApplyPromoted(e, s).invalid
  BY <1>1, <1>2 DEF ApplyPromoted, Poison, State
<1> HIDE DEF p, n, r, g
<1>4. ApplyPromoted(e, s) \in State /\ Valid(ApplyPromoted(e, s))
  BY <1>1, <1>3, FoldType, PromotedSound
<1>5. e.type = "Promoted"
  BY DEF Promoted
<1>6. QED
  BY <1>4, <1>5, ApplyToCases DEF Accepts, EventType, NamedEvent, p, n, r, g

LEMMA AbandonmentAccepted ==
  ASSUME NEW s, Sound(s), s.attempt.phase \in {"created", "building", "caught_up"}
  PROVE  Accepts(Abandoned, s) /\ NamedEvent(Abandoned)
<1>1. s \in State /\ Valid(s) /\ ~s.invalid
  BY DEF Sound, Valid
<1>2. ~ApplyAbandoned(Abandoned, s).invalid
  BY <1>1 DEF ApplyAbandoned, AbandonedContradicts, Poison, State
<1>3. ApplyAbandoned(Abandoned, s) \in State /\ Valid(ApplyAbandoned(Abandoned, s))
  BY <1>1, <1>2, FoldType, AbandonedSound
<1>4. Abandoned.type = "Abandoned"
  BY DEF Abandoned
<1>5. QED
  BY <1>3, <1>4, ApplyToCases DEF Accepts, EventType, NamedEvent

LEMMA PolicyAccepted ==
  ASSUME NEW s, Sound(s), s.named, s.policy.generation < MaxInt64 - 1,
         NEW W \in SUBSET Witness
  PROVE  LET e == RetirementPolicySet(s.policy.generation + 1, W, W = {}, "attested")
         IN  Accepts(e, s) /\ NamedEvent(e)
<1> DEFINE g == s.policy.generation + 1
           u == W = {}
           e == RetirementPolicySet(g, W, u, "attested")
<1>1. /\ s \in State /\ Valid(s) /\ ~s.invalid
      /\ s.policy.generation \in Nat /\ MaxInt64 \in Nat
  BY MaxInt64Assumption DEF Sound, Valid, State, RetirementPolicy
<1>2. g \in Nat /\ u \in BOOLEAN /\ "attested" \in Attestation
  BY <1>1 DEF Attestation
<1>3. ~RetirementPolicySetContradicts(e, s)
  <2>1. /\ e.generation = s.policy.generation + 1 /\ e.audit = "attested"
        /\ e.witnesses = W /\ e.unwitnessed = (W = {})
    BY DEF RetirementPolicySet
  <2>2. ~(s.policy.generation >= MaxInt64 - 1)
    BY <1>1
  <2> HIDE DEF e, g
  <2>3. QED
    BY <2>1, <2>2, Zenon DEF RetirementPolicySetContradicts
<1>4. ~ApplyRetirementPolicySet(e, s).invalid
  BY <1>1, <1>3 DEF ApplyRetirementPolicySet, Poison, State
<1> HIDE DEF g, u
<1>5. ApplyRetirementPolicySet(e, s) \in State
  BY <1>1, <1>2, FoldType
<1>6. Valid(ApplyRetirementPolicySet(e, s))
  BY <1>1, <1>2, <1>4, RetirementPolicySetSound
<1>7. e.type = "RetirementPolicySet"
  BY DEF RetirementPolicySet
<1>8. QED
  BY <1>5, <1>6, <1>7, ApplyToCases DEF Accepts, EventType, NamedEvent, g, u

LEMMA ClaimAccepted ==
  ASSUME NEW s, Sound(s), s.attempt.phase # "none", NEW h \in Runner
  PROVE  LET e == RunnerClaimed(s.attempt.id, h,
                                IF Standing(s.attempt) THEN "attested" ELSE "none")
         IN  Accepts(e, s) /\ NamedEvent(e)
<1> DEFINE k == IF Standing(s.attempt) THEN "attested" ELSE "none"
           i == s.attempt.id
           e == RunnerClaimed(i, h, k)
<1>1. s \in State /\ Valid(s) /\ i \in Nat /\ i # 0 /\ ~s.invalid
  BY SoundAttempt DEF Sound, Valid
<1>2. k \in Attestation /\ h # NoRunner
  BY NoRunnerAssumption DEF Attestation
<1>3. ~RunnerClaimedContradicts(e, s)
  BY <1>1, <1>2 DEF RunnerClaimedContradicts, RunnerClaimed
<1>4. ~ApplyRunnerClaimed(e, s).invalid
  BY <1>1, <1>3 DEF ApplyRunnerClaimed, Poison, State
<1> HIDE DEF k
<1>5. ApplyRunnerClaimed(e, s) \in State /\ Valid(ApplyRunnerClaimed(e, s))
  BY <1>1, <1>2, <1>4, FoldType, RunnerClaimedSound
<1>6. e.type = "RunnerClaimed"
  BY DEF RunnerClaimed
<1>7. QED
  BY <1>5, <1>6, ApplyToCases DEF Accepts, EventType, NamedEvent, k

LEMMA RollbackAccepted ==
  ASSUME NEW s, Sound(s), s.attempt.phase = "promoted", s.attempt.previous # 0,
         s.cutoverRevision # MaxInt64
  PROVE  LET e == RolledBack(s.live, s.attempt.previous, s.cutoverRevision + 1)
         IN  Accepts(e, s) /\ NamedEvent(e)
<1> DEFINE f == s.live
           v == s.attempt.previous
           r == s.cutoverRevision + 1
           e == RolledBack(f, v, r)
<1>1. /\ s \in State /\ Valid(s) /\ ~s.invalid
      /\ f \in Nat /\ v \in Nat /\ r \in Nat
  BY SoundAttempt DEF Sound, Valid
<1>2. ~RolledBackContradicts(e, s)
  BY <1>1 DEF RolledBackContradicts, RolledBack
<1>3. ~ApplyRolledBack(e, s).invalid
  BY <1>1, <1>2 DEF ApplyRolledBack, Poison, State
<1> HIDE DEF f, v, r
<1>4. ApplyRolledBack(e, s) \in State /\ Valid(ApplyRolledBack(e, s))
  BY <1>1, <1>3, FoldType, RolledBackSound
<1>5. e.type = "RolledBack"
  BY DEF RolledBack
<1>6. QED
  BY <1>4, <1>5, ApplyToCases DEF Accepts, EventType, NamedEvent, f, v, r

LEMMA ReservationAccepted ==
  ASSUME NEW s, Sound(s), NEW W \in SUBSET Witness, NEW R, NEW o \in Attestation,
         LET e == RetireStarted(s.attempt.previous, s.policy.generation, W, R, o)
         IN  ~RetireStartedContradicts(e, s)
  PROVE  LET e == RetireStarted(s.attempt.previous, s.policy.generation, W, R, o)
         IN  Accepts(e, s) /\ NamedEvent(e)
<1> DEFINE v == s.attempt.previous
           g == s.policy.generation
           e == RetireStarted(v, g, W, R, o)
           Audits == {R}
<1>1. s \in State /\ Valid(s) /\ ~s.invalid /\ v \in Nat /\ g \in Nat
  BY SoundAttempt DEF Sound, Valid, State, RetirementPolicy
<1>2. ~ApplyRetireStarted(e, s).invalid
  BY <1>1 DEF ApplyRetireStarted, Poison, State
<1> HIDE DEF v, g
<1>3. Valid(ApplyRetireStarted(e, s))
  BY <1>1, <1>2, RetireStartedSound
<1>4. \A n, m \in Nat, U \in SUBSET Witness, q \in Audits, x \in Attestation :
        ApplyRetireStarted(RetireStarted(n, m, U, q, x), s) \in State
  BY <1>1, FoldType, Zenon
<1>5. R \in Audits
  OBVIOUS
<1>6. ApplyRetireStarted(e, s) \in State
  BY <1>1, <1>4, <1>5
<1>7. e.type = "RetireStarted"
  BY DEF RetireStarted
<1>8. QED
  BY <1>3, <1>6, <1>7, ApplyToCases DEF Accepts, EventType, NamedEvent, v, g

LEMMA CompletionAccepted ==
  ASSUME NEW s, Sound(s), NEW R,
         ~PreviousRetiredContradicts(PreviousRetired(s.attempt.previous, R), s)
  PROVE  LET e == PreviousRetired(s.attempt.previous, R)
         IN  Accepts(e, s) /\ NamedEvent(e)
<1> DEFINE v == s.attempt.previous
           e == PreviousRetired(v, R)
           Audits == {R}
<1>1. s \in State /\ Valid(s) /\ ~s.invalid /\ v \in Nat
  BY SoundAttempt DEF Sound, Valid
<1>2. ~ApplyPreviousRetired(e, s).invalid
  BY <1>1 DEF ApplyPreviousRetired, Poison, State
<1> HIDE DEF v
<1>3. Valid(ApplyPreviousRetired(e, s))
  BY <1>1, <1>2, PreviousRetiredSound
<1>4. \A n \in Nat, q \in Audits : ApplyPreviousRetired(PreviousRetired(n, q), s) \in State
  BY <1>1, FoldType
<1>5. ApplyPreviousRetired(e, s) \in State
  BY <1>1, <1>4
<1>6. e.type = "PreviousRetired"
  BY DEF PreviousRetired
<1>7. QED
  BY <1>3, <1>5, <1>6, ApplyToCases DEF Accepts, EventType, NamedEvent, v

-----------------------------------------------------------------------------
(* One event after another.                                                 *)

Flipped == {"promoted", "retiring"}

\* The attempt after one event.
LEMMA AttemptAfter ==
  ASSUME NEW e, NEW s, Sound(s), Accepts(e, s), NamedEvent(e), e.type \in EventType
  PROVE  LET a == s.attempt
             b == ApplyTo(e, s).attempt
         IN  /\ \/ b.runner \in {NoRunner, a.runner}
                \/ e.type = "RunnerClaimed" /\ b.runner = e.runner
             /\ b.phase \in Flipped =>
                  \/ /\ a.phase \in Flipped
                     /\ \/ b.runner = a.runner
                        \/ e.type = "RunnerClaimed" /\ b.runner = e.runner
                  \/ e.type = "Promoted" /\ b.runner = a.runner
             /\ b.phase = "created" =>
                  \/ b.runner = NoRunner
                  \/ a.phase = "created" /\ b.runner = a.runner
                  \/ a.phase = "created" /\ e.type = "RunnerClaimed"
             /\ e.type = "BuildStarted" => b.phase = "building" /\ b.runner = a.runner
             /\ e.type = "RunnerClaimed" => b.phase = a.phase /\ b.runner = e.runner
<1>1. Effect(e, s, ApplyTo(e, s))
  BY AcceptedEffect DEF Sound
<1>2. CASE e.type \in {"RolledBack", "Abandoned", "PreviousRetired"}
  BY <1>1, <1>2 DEF Effect, NoAttempt, Flipped
<1>3. CASE e.type \in {"RebuildInitiated", "RetirementPolicySet"}
  BY <1>1, <1>3 DEF Effect, Flipped
<1>4. CASE e.type \in {"RunnerClaimed", "RunnerReleased"}
  BY <1>1, <1>4 DEF Effect, Flipped
<1>5. CASE e.type \in {"BuildStarted", "CaughtUp", "Promoted", "RetireStarted"}
  BY <1>1, <1>5 DEF Effect, SameClaim, Flipped
<1>6. QED
  BY <1>2, <1>3, <1>4, <1>5 DEF EventType

-----------------------------------------------------------------------------
(* A history that grows.                                                    *)

\* Stream m is stream l with more after it.
Extends(l, m) == Len(l) \in Nat /\ Len(m) \in Nat /\ Len(l) <= Len(m)
                   /\ \A i \in 1 .. Len(l) : m[i] = l[i]

\* The states of a stream stay what they were as it grows.
LEMMA StatesStay ==
  ASSUME NEW l, NEW m, Extends(l, m), NEW i \in 0 .. Len(l)
  PROVE  StateIn(m, i) = StateIn(l, i) /\ AttemptIn(m, i) = AttemptIn(l, i)
BY DEF Extends, StateIn, AttemptIn

\* One accepted event after the tip.
LEMMA FoldedGrows ==
  ASSUME NEW l, NEW m, Extends(l, m), Folded(l), Len(m) = Len(l) + 1,
         Accepts(m[Len(m)].event, StateIn(l, Len(l))), NamedEvent(m[Len(m)].event),
         m[Len(m)].state = ApplyTo(m[Len(m)].event, StateIn(l, Len(l)))
  PROVE  Folded(m)
<1>1. ASSUME NEW i \in 1 .. Len(m)
      PROVE  /\ Accepts(m[i].event, StateIn(m, i - 1)) /\ NamedEvent(m[i].event)
             /\ m[i].state = ApplyTo(m[i].event, StateIn(m, i - 1))
  <2>1. i - 1 \in 0 .. Len(l) /\ Len(l) \in Nat
    BY DEF Extends
  <2>2. StateIn(m, i - 1) = StateIn(l, i - 1)
    BY <2>1, StatesStay
  <2>3. CASE i = Len(m)
    BY <2>1, <2>2, <2>3
  <2>4. CASE i # Len(m)
    <3>1. i \in 1 .. Len(l) /\ m[i] = l[i]
      BY <2>1, <2>4 DEF Extends
    <3>2. QED
      BY <2>2, <3>1 DEF Folded
  <2>5. QED
    BY <2>3, <2>4
<1>2. QED
  BY <1>1 DEF Folded

\* A stream with an event in it has its name.
LEMMA AcceptedNames ==
  ASSUME NEW e, NEW s, Sound(s), Accepts(e, s), NamedEvent(e)
  PROVE  ApplyTo(e, s).named
<1> DEFINE t == ApplyTo(e, s)
<1>1. Effect(e, s, t) /\ Sound(t) /\ e.type \in EventType
  BY AcceptedEffect, SoundStep DEF Sound, Accepts
<1>2. CASE e.type = "RetirementPolicySet"
  <2>1. t = ApplyRetirementPolicySet(e, s) /\ ~t.invalid /\ s \in State
    BY <1>1, <1>2, ApplyToCases DEF Sound, Valid
  <2>2. ~RetirementPolicySetContradicts(e, s) /\ t.named = s.named
    BY <2>1 DEF ApplyRetirementPolicySet, Poison, State
  <2>3. QED
    BY <2>2 DEF RetirementPolicySetContradicts
<1>3. CASE e.type # "RetirementPolicySet"
  <2> HIDE DEF t
  <2>1. t.allocated # 0
    <3>1. CASE e.type = "RebuildInitiated"
      BY <1>1, <3>1, SoundAttempt DEF Effect
    <3>2. CASE e.type # "RebuildInitiated"
      <4>1. s.attempt.phase # "none" /\ t.allocated = s.allocated
        BY <1>1, <1>3, <3>2 DEF Effect, EventType
      <4>2. QED
        BY <4>1, SoundAttempt
    <3>3. QED
      BY <3>1, <3>2
  <2>2. t # NewState
    BY <2>1 DEF NewState
  <2>3. QED
    BY <1>1, <2>2 DEF Sound, Valid, t
<1>4. QED
  BY <1>2, <1>3

LEMMA HistoryIsNamed ==
  ASSUME NEW l, Len(l) \in Nat, Folded(l), NEW i \in 1 .. Len(l)
  PROVE  StateIn(l, i).named
BY FoldedStep, AcceptedNames

-----------------------------------------------------------------------------
(* Reservations, and the witnesses that have moved on since.                *)

\* Witness w serves the cutover of state s or a later one.
MovedTo(w, s, serving) == serving[w].revision >= s.cutoverRevision

\* Version v was reserved, and the witnesses the reservation captured have moved.
ReservedIn(l, i, v) == AttemptIn(l, i).phase = "retiring" /\ AttemptIn(l, i).previous = v

Reserved(v, l, serving) ==
  \E i \in 1 .. Len(l) :
    /\ ReservedIn(l, i, v)
    /\ \A w \in AttemptIn(l, i).retiringWitnesses : MovedTo(w, StateIn(l, i), serving)

\* A witness serves nothing yet, or what some recorded state had live.
Routed(w, l, serving) ==
  \/ serving[w] = [live |-> 0, revision |-> 0]
  \/ \E k \in 1 .. Len(l) : serving[w] = LiveCutover(StateIn(l, k))

\* Witnesses only move on.
Later(serving, now) ==
  /\ serving \in [Witness -> Cutover] /\ now \in [Witness -> Cutover]
  /\ \A w \in Witness : now[w].revision >= serving[w].revision

LEMMA MovedLater ==
  ASSUME NEW serving, NEW now, Later(serving, now), NEW s, Sound(s), NEW w \in Witness,
         MovedTo(w, s, serving)
  PROVE  MovedTo(w, s, now)
<1>1. serving[w].revision \in Nat /\ now[w].revision \in Nat /\ s.cutoverRevision \in Nat
  BY SoundAttempt DEF Later, Cutover
<1>2. QED
  BY <1>1 DEF Later, MovedTo

LEMMA ReservedLater ==
  ASSUME NEW serving, NEW now, Later(serving, now), NEW l, NEW m, Extends(l, m),
         Folded(l), NEW v, Reserved(v, l, serving)
  PROVE  Reserved(v, m, now)
<1>1. PICK i \in 1 .. Len(l) :
        /\ ReservedIn(l, i, v)
        /\ \A w \in AttemptIn(l, i).retiringWitnesses : MovedTo(w, StateIn(l, i), serving)
  BY DEF Reserved
<1>2. i \in 1 .. Len(m) /\ i \in 0 .. Len(l) /\ Len(l) \in Nat
  BY DEF Extends
<1>3. StateIn(m, i) = StateIn(l, i) /\ AttemptIn(m, i) = AttemptIn(l, i)
  BY <1>2, StatesStay
<1>4. Sound(StateIn(l, i))
  BY <1>2, FoldedIsSound
<1>5. AttemptIn(l, i).retiringWitnesses \in SUBSET Witness
  BY <1>4, SoundAttempt DEF AttemptIn
<1>6. \A w \in AttemptIn(l, i).retiringWitnesses : MovedTo(w, StateIn(l, i), now)
  BY <1>1, <1>4, <1>5, MovedLater
<1>7. QED
  BY <1>1, <1>2, <1>3, <1>6 DEF Reserved, ReservedIn

LEMMA RoutedLater ==
  ASSUME NEW serving, NEW l, NEW m, Extends(l, m), NEW w, Routed(w, l, serving)
  PROVE  Routed(w, m, serving)
<1>1. CASE serving[w] = [live |-> 0, revision |-> 0]
  BY <1>1 DEF Routed
<1>2. CASE \E k \in 1 .. Len(l) : serving[w] = LiveCutover(StateIn(l, k))
  <2>1. PICK k \in 1 .. Len(l) : serving[w] = LiveCutover(StateIn(l, k))
    BY <1>2
  <2>2. k \in 1 .. Len(m) /\ k \in 0 .. Len(l)
    BY DEF Extends
  <2>3. StateIn(m, k) = StateIn(l, k)
    BY <2>2, StatesStay
  <2>4. QED
    BY <2>1, <2>2, <2>3 DEF Routed
<1>3. QED
  BY <1>1, <1>2 DEF Routed

\* From a reservation on, nothing as old as the reserved version is live.
LEMMA ReservedIsPast ==
  ASSUME NEW l, Len(l) \in Nat, Folded(l), NEW v, NEW i \in 0 .. Len(l),
         ReservedIn(l, i, v), NEW j \in i .. Len(l)
  PROVE  LET s == StateIn(l, i)
             t == StateIn(l, j)
         IN  /\ Outlives(s, t) /\ v \in Nat /\ v # 0 /\ v < s.attempt.target
             /\ s.attempt.target \in Nat /\ s.live = s.attempt.target
             /\ t.live \in Nat /\ t.live > v
<1> DEFINE s == StateIn(l, i)
           t == StateIn(l, j)
<1>1. j \in 0 .. Len(l)
  OBVIOUS
<1>2. Sound(s) /\ Sound(t) /\ Leads(s, t)
  BY <1>1, FoldedIsSound, FoldedLeads
<1>3. s.attempt.phase = "retiring" /\ s.attempt.previous = v
  BY DEF ReservedIn, AttemptIn
<1>4. Outlives(s, t)
  BY <1>2, <1>3 DEF Leads
<1>5. /\ v \in Nat /\ v # 0 /\ v < s.attempt.target /\ s.attempt.target \in Nat
      /\ s.live = s.attempt.target /\ t.live \in Nat
  BY <1>2, <1>3, SoundAttempt
<1>6. t.live > v
  BY <1>4, <1>5 DEF Outlives
<1>7. QED
  BY <1>4, <1>5, <1>6

\* Two reservations of one version are one reservation.
LEMMA OneReservation ==
  ASSUME NEW l, Len(l) \in Nat, Folded(l), NEW v, NEW i \in 0 .. Len(l),
         NEW j \in i .. Len(l), ReservedIn(l, i, v), ReservedIn(l, j, v)
  PROVE  AttemptIn(l, i).retiringWitnesses = AttemptIn(l, j).retiringWitnesses
<1>1. /\ Outlives(StateIn(l, i), StateIn(l, j)) /\ v < StateIn(l, i).attempt.target
      /\ v \in Nat /\ StateIn(l, i).attempt.target \in Nat
  BY ReservedIsPast
<1>2. StateIn(l, j).attempt.phase = "retiring" /\ StateIn(l, j).attempt.previous = v
  BY DEF ReservedIn, AttemptIn
<1>3. QED
  BY <1>1, <1>2 DEF Outlives, AttemptIn

\* Whatever w serves once it has moved past the reservation, it is newer.
LEMMA MovedIsNewer ==
  ASSUME NEW l, Len(l) \in Nat, Folded(l), NEW v, NEW i \in 1 .. Len(l),
         ReservedIn(l, i, v), NEW w, NEW serving,
         Routed(w, l, serving), MovedTo(w, StateIn(l, i), serving)
  PROVE  serving[w].live # v
<1>1. i \in 0 .. Len(l) /\ i \in i .. Len(l)
  OBVIOUS
<1>2. v # 0 /\ v \in Nat /\ StateIn(l, i).live > v
  BY <1>1, ReservedIsPast
<1>3. CASE serving[w] = [live |-> 0, revision |-> 0]
  BY <1>2, <1>3
<1>4. CASE \E k \in 1 .. Len(l) : serving[w] = LiveCutover(StateIn(l, k))
  <2>1. PICK k \in 1 .. Len(l) : serving[w] = LiveCutover(StateIn(l, k))
    BY <1>4
  <2>2. /\ serving[w].live = StateIn(l, k).live
        /\ StateIn(l, k).cutoverRevision >= StateIn(l, i).cutoverRevision
    BY <2>1 DEF LiveCutover, MovedTo
  <2>3. CASE k >= i
    <3>1. k \in i .. Len(l)
      BY <2>3
    <3>2. StateIn(l, k).live > v /\ StateIn(l, k).live \in Nat
      BY <1>1, <3>1, ReservedIsPast
    <3>3. QED
      BY <1>2, <2>2, <3>2
  <2>4. CASE k < i
    <3>1. k \in 0 .. Len(l) /\ i \in k .. Len(l)
      BY <2>4
    <3>2. Leads(StateIn(l, k), StateIn(l, i))
      BY <3>1, FoldedLeads
    <3>3. StateIn(l, k).cutoverRevision \in Nat /\ StateIn(l, i).cutoverRevision \in Nat
      BY <1>1, <3>1, FoldedIsSound, SoundAttempt
    <3>4. StateIn(l, k).live = StateIn(l, i).live
      BY <2>2, <3>2, <3>3 DEF Leads
    <3>5. StateIn(l, i).live \in Nat
      BY <1>1, FoldedIsSound, SoundAttempt
    <3>6. QED
      BY <1>2, <2>2, <3>4, <3>5
  <2>5. QED
    BY <2>3, <2>4
<1>5. QED
  BY <1>3, <1>4 DEF Routed

-----------------------------------------------------------------------------
(* The moves of the serving contract.                                       *)

\* The version that a rollback would return to.
Fallback(s) == IF s.attempt.phase = "promoted" THEN s.attempt.previous ELSE 0

\* The contract's moves, as steps from state s to state t.
Stays(s, t) == Serves(s, t) /\ Fallback(t) = Fallback(s)

Flips(s, t, gone) ==
  /\ Fallback(s) = 0 /\ t.live \in Nat \ (gone \cup {s.live, 0})
  /\ t.cutoverRevision = s.cutoverRevision + 1 /\ Fallback(t) = s.live

Reverts(s, t, gone) ==
  /\ Fallback(s) \notin gone \cup {0} /\ t.live = Fallback(s)
  /\ t.cutoverRevision = s.cutoverRevision + 1 /\ Fallback(t) = 0

Forfeits(s, t) == Fallback(s) # 0 /\ Fallback(t) = 0 /\ Serves(s, t)

\* Versions that no state from s on serves.
PastFor(gone, s) ==
  \A v \in gone :
    /\ s.live # v
    /\ s.attempt.phase # "none" => s.attempt.target # v
    /\ s.attempt.phase # "none" /\ s.attempt.previous = v => s.attempt.phase = "retiring"

\* Every accepted event is a move of the contract, or none.
LEMMA EventMoves ==
  ASSUME NEW e, NEW s, Sound(s), Accepts(e, s), NamedEvent(e), NEW gone, PastFor(gone, s)
  PROVE  LET t == ApplyTo(e, s)
         IN  \/ Stays(s, t) \/ Flips(s, t, gone) \/ Reverts(s, t, gone) \/ Forfeits(s, t)
<1> DEFINE t == ApplyTo(e, s)
           a == s.attempt
           b == t.attempt
<1>1. Effect(e, s, t) /\ e.type \in EventType
  BY AcceptedEffect DEF Sound, Accepts
<1> HIDE DEF t
<1>2. CASE e.type = "Promoted"
  <2>1. /\ a.phase = "caught_up" /\ b.phase = "promoted" /\ SameClaim(a, b)
        /\ t.live = a.target /\ t.cutoverRevision = s.cutoverRevision + 1
    BY <1>1, <1>2 DEF Effect
  <2>2. /\ a.target \in Nat /\ a.target # 0 /\ a.previous \in Nat /\ s.live = a.previous
        /\ a.previous # 0 => a.previous < a.target
    BY <2>1, SoundAttempt
  <2>3. a.target # s.live /\ a.target \notin gone
    BY <2>1, <2>2 DEF PastFor
  <2>4. Fallback(s) = 0 /\ Fallback(t) = s.live
    BY <2>1, <2>2 DEF Fallback, SameClaim, SameAttempt
  <2>5. Flips(s, t, gone)
    BY <2>1, <2>2, <2>3, <2>4 DEF Flips
  <2>6. QED
    BY <2>5 DEF t
<1>3. CASE e.type = "RolledBack"
  <2>1. /\ a.phase = "promoted" /\ b = NoAttempt /\ a.previous # 0
        /\ t.live = a.previous /\ t.cutoverRevision = s.cutoverRevision + 1
    BY <1>1, <1>3 DEF Effect
  <2>2. a.previous \notin gone
    BY <2>1 DEF PastFor
  <2>3. Fallback(s) = a.previous /\ Fallback(t) = 0
    BY <2>1 DEF Fallback, NoAttempt
  <2>4. Reverts(s, t, gone)
    BY <2>1, <2>2, <2>3 DEF Reverts
  <2>5. QED
    BY <2>4 DEF t
<1>4. CASE e.type = "RetireStarted"
  <2>1. Serves(s, t) /\ a.phase = "promoted" /\ b.phase = "retiring" /\ a.previous # 0
    BY <1>1, <1>4 DEF Effect
  <2>2. Forfeits(s, t)
    BY <2>1 DEF Forfeits, Fallback
  <2>3. QED
    BY <2>2 DEF t
<1>5. CASE e.type \in {"RebuildInitiated", "Abandoned", "PreviousRetired"}
  <2>1. Serves(s, t) /\ Fallback(s) = 0 /\ Fallback(t) = 0
    BY <1>1, <1>5 DEF Effect, Fallback, NoAttempt
  <2>2. QED
    BY <2>1 DEF Stays, t
<1>6. CASE e.type \in {"RunnerClaimed", "RunnerReleased", "BuildStarted", "CaughtUp",
                       "RetirementPolicySet"}
  <2>1. Serves(s, t) /\ Fallback(t) = Fallback(s)
    BY <1>1, <1>6 DEF Effect, Fallback, SameClaim, SameAttempt
  <2>2. QED
    BY <2>1 DEF Stays, t
<1>7. QED
  BY <1>1, <1>2, <1>3, <1>4, <1>5, <1>6 DEF EventType
=============================================================================
