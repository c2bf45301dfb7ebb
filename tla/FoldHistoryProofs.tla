------------------------- MODULE FoldHistoryProofs -------------------------
(***************************************************************************)
(* For every number of runners, witnesses and versions, and every counter  *)
(* width: a history the fold has not marked is valid, the routers' fold    *)
(* agrees with it, and no retired version serves again.                    *)
(***************************************************************************)
EXTENDS FoldHistory, LifecycleFoldProofs
-----------------------------------------------------------------------------
(* What the fold makes of the events a history may record.                  *)

\* The fold of a State is a State, whatever receipts an event carries.
LEMMA RecordedType ==
  ASSUME NEW s \in State
  PROVE  /\ \A i, v, p \in Nat :
              ApplyRebuildInitiated(RebuildInitiated(i, v, p), s) \in State
         /\ \A i \in Nat, r \in Runner \cup {NoRunner}, k \in Attestation :
              ApplyRunnerClaimed(RunnerClaimed(i, r, k), s) \in State
         /\ \A i \in Nat, r \in Runner \cup {NoRunner} :
              ApplyRunnerReleased(RunnerReleased(i, r), s) \in State
         /\ ApplyBuildStarted(BuildStarted, s) \in State
         /\ \A p \in Nat : ApplyCaughtUp(CaughtUp(p), s) \in State
         /\ \A p, n, r, g \in Nat : ApplyPromoted(Promoted(p, n, r, g), s) \in State
         /\ \A f, v, r \in Nat : ApplyRolledBack(RolledBack(f, v, r), s) \in State
         /\ ApplyAbandoned(Abandoned, s) \in State
         /\ \A v, g \in Nat, W \in SUBSET Witness, R \in BoundedReceipts,
               o \in Attestation :
              ApplyRetireStarted(RetireStarted(v, g, W, R, o), s) \in State
         /\ \A v \in Nat, R \in BoundedReceipts :
              ApplyPreviousRetired(PreviousRetired(v, R), s) \in State
         /\ \A g \in Nat, W \in SUBSET Witness, u \in BOOLEAN, k \in Attestation :
              ApplyRetirementPolicySet(RetirementPolicySet(g, W, u, k), s) \in State
<1>1. Nat \subseteq Int
  OBVIOUS
<1>2. QED
  BY <1>1, FoldType, Zenon

-----------------------------------------------------------------------------
(* The induction.                                                           *)

\* A quiet step keeps the three readers of the stream in step.
LEMMA QuietStep ==
  ASSUME HistoryInv, ~state.invalid, cut' = cut, retired' = retired,
         state' \in State,
         ~state'.invalid => Valid(state') /\ Quiet(state, state')
  PROVE  HistoryInv'
<1>1. TypeOK'
  BY DEF HistoryInv, TypeOK
<1>2. CleanIsValid'
  BY DEF CleanIsValid
<1>3. CutoverFoldAgrees'
  BY DEF HistoryInv, CutoverFoldAgrees, LiveCutover, Quiet
<1>4. /\ state.allocated \in Nat
      /\ cut.promoted \in Nat
      /\ cut.promoted <= state.allocated
      /\ state.live \notin retired
      /\ \A v \in retired : v \in Nat /\ v <= state.allocated
      /\ state.attempt \in AttemptState
      /\ state'.allocated \in Nat
      /\ state'.attempt \in AttemptState
  BY DEF HistoryInv, TypeOK, State, CutoverFold, CutoverLineage,
     RetiredNeverServes, RetiredBelowAllocated
<1>5. RetiredNeverServes'
  BY <1>4 DEF HistoryInv, RetiredNeverServes, AttemptState, Quiet
<1>6. RetiredBelowAllocated' \/ state'.invalid
  BY <1>4 DEF HistoryInv, RetiredBelowAllocated, Quiet
<1>7. CutoverLineage' \/ state'.invalid
  <2>1. SUFFICES ASSUME ~state'.invalid PROVE CutoverLineage'
    OBVIOUS
  <2>2. CASE /\ state'.attempt.target = state.attempt.target
             /\ state'.attempt.previous = state.attempt.previous
             /\ state.attempt.phase # "none"
             /\ state'.attempt.phase \in {"promoted", "retiring"}
                  <=> state.attempt.phase \in {"promoted", "retiring"}
    BY <1>4, <2>1, <2>2 DEF HistoryInv, CutoverLineage, AttemptState, Phase, Quiet
  <2>3. CASE state'.attempt.phase = "none"
    BY <1>4, <2>1, <2>3 DEF HistoryInv, CutoverLineage, Quiet
  <2>4. CASE /\ state'.attempt.phase = "created"
             /\ state'.attempt.target = state.allocated + 1
    BY <1>4, <2>1, <2>4 DEF HistoryInv, CutoverLineage, Quiet
  <2>5. QED
    BY <2>1, <2>2, <2>3, <2>4 DEF Quiet
<1>8. QED
  BY <1>1, <1>2, <1>3, <1>5, <1>6, <1>7 DEF HistoryInv

\* Every recorded event leaves the cutover fold well typed.
LEMMA CutoverFoldType ==
  ASSUME NEW f \in CutoverFold
  PROVE  /\ \A p, n, r, g \in Nat :
              ApplyCutoverEvent(Promoted(p, n, r, g), f) \in CutoverFold
         /\ \A q, v, r \in Nat :
              ApplyCutoverEvent(RolledBack(q, v, r), f) \in CutoverFold
<1>1. ASSUME NEW p \in Nat, NEW n \in Nat, NEW r \in Nat, NEW g \in Nat
      PROVE  ApplyCutoverEvent(Promoted(p, n, r, g), f) \in CutoverFold
  BY DEF ApplyCutoverEvent, DecodeCutover, Promoted, CutoverFold, Cutover
<1>2. ASSUME NEW q \in Nat, NEW v \in Nat, NEW r \in Nat
      PROVE  ApplyCutoverEvent(RolledBack(q, v, r), f) \in CutoverFold
  BY DEF ApplyCutoverEvent, DecodeCutover, RolledBack, CutoverFold, Cutover
<1>3. QED
  BY <1>1, <1>2

\* When cutoverFold.apply accepts a promotion, and what it keeps.
LEMMA CutoverFoldPromotes ==
  ASSUME NEW f \in CutoverFold,
         NEW p \in Nat, NEW n \in Nat, NEW r \in Nat, NEW g \in Nat,
         n >= 1, r = f.current.revision + 1, p = f.current.live, f.promoted < n
  PROVE  ApplyCutoverEvent(Promoted(p, n, r, g), f)
           = [current  |-> [live |-> n, revision |-> r],
              rollback |-> p, promoted |-> n, broken |-> f.broken]
<1> DEFINE e == Promoted(p, n, r, g)
<1>1. DecodeCutover(e) = [cutover |-> [live |-> n, revision |-> r],
                          from |-> p, rollback |-> FALSE]
  BY DEF DecodeCutover, Promoted
<1>2. IsCutover(e)
  BY DEF IsCutover, Promoted
<1>3. f.current.revision \in Nat /\ f.promoted \in Nat
  BY DEF CutoverFold, Cutover
<1> HIDE DEF e
<1>4. QED
  BY <1>1, <1>2, <1>3 DEF ApplyCutoverEvent, e

\* When cutoverFold.apply accepts a rollback, and what it keeps.
LEMMA CutoverFoldReverts ==
  ASSUME NEW f \in CutoverFold,
         NEW q \in Nat, NEW v \in Nat, NEW r \in Nat,
         v >= 1, v = f.rollback, f.current.revision # 0,
         r = f.current.revision + 1, q = f.current.live
  PROVE  ApplyCutoverEvent(RolledBack(q, v, r), f)
           = [current  |-> [live |-> v, revision |-> r],
              rollback |-> 0, promoted |-> f.promoted, broken |-> f.broken]
<1> DEFINE e == RolledBack(q, v, r)
<1>1. DecodeCutover(e) = [cutover |-> [live |-> v, revision |-> r],
                          from |-> q, rollback |-> TRUE]
  BY DEF DecodeCutover, RolledBack
<1>2. IsCutover(e)
  BY DEF IsCutover, RolledBack
<1>3. f.current.revision \in Nat
  BY DEF CutoverFold, Cutover
<1> HIDE DEF e
<1>4. QED
  BY <1>1, <1>2, <1>3 DEF ApplyCutoverEvent, e

\* A promotion the aggregate's fold accepts is one the cutover fold accepts.
LEMMA PromotedStep ==
  ASSUME HistoryInv, NEW p \in Nat, NEW n \in Nat, NEW r \in Nat, NEW g \in Nat,
         Record(Promoted(p, n, r, g))
  PROVE  HistoryInv'
<1> DEFINE e == Promoted(p, n, r, g)
<1>1. /\ state \in State /\ ~state.invalid /\ Valid(state) /\ cut \in CutoverFold
      /\ state' = ApplyPromoted(e, state)
      /\ cut' = ApplyCutoverEvent(e, cut)
      /\ retired' = retired
  BY ApplyToCases DEF Record, Promoted, HistoryInv, TypeOK, CleanIsValid
<1>2. TypeOK'
  BY <1>1, RecordedType, CutoverFoldType DEF TypeOK, HistoryInv
<1>3. CASE state'.invalid
  BY <1>2, <1>3 DEF HistoryInv, CleanIsValid, CutoverFoldAgrees, RetiredNeverServes
<1>4. CASE ~state'.invalid
  <2>1. Valid(state') /\ PromotedEffect(state, state')
    BY <1>1, <1>4, PromotedSound
  <2>2. /\ p = state.live
        /\ n = state.attempt.target
        /\ r = state.cutoverRevision + 1
    BY <1>1, <1>4 DEF ApplyPromoted, PromotedContradicts, Promoted, Poison, State
  <2>3. /\ cut.current.live = state.live
        /\ cut.current.revision = state.cutoverRevision
        /\ ~cut.broken
        /\ cut.promoted < state.attempt.target
        /\ cut.promoted <= state.allocated
    BY <1>1, <2>1 DEF HistoryInv, CutoverFoldAgrees, LiveCutover, CutoverLineage,
       PromotedEffect
  <2>4. n >= 1 /\ r >= 1 /\ n = state.allocated
    BY <1>1, <2>1, <2>2, InFlight DEF PromotedEffect, State
  <2>5. cut' = [current  |-> [live |-> n, revision |-> r],
                rollback |-> p, promoted |-> n, broken |-> cut.broken]
    BY <1>1, <2>2, <2>3, <2>4, CutoverFoldPromotes
  <2>6. CutoverFoldAgrees'
    BY <2>1, <2>2, <2>3, <2>5 DEF CutoverFoldAgrees, LiveCutover, PromotedEffect
  <2>7. CutoverLineage'
    BY <1>1, <2>1, <2>2, <2>4, <2>5 DEF CutoverLineage, PromotedEffect, State
  <2>8. RetiredNeverServes' /\ RetiredBelowAllocated'
    BY <1>1, <2>1 DEF HistoryInv, RetiredNeverServes, RetiredBelowAllocated,
       PromotedEffect
  <2>9. QED
    BY <1>2, <2>1, <2>6, <2>7, <2>8 DEF HistoryInv, CleanIsValid
<1>5. QED
  BY <1>3, <1>4

\* A rollback the aggregate's fold accepts is one the cutover fold accepts.
LEMMA RolledBackStep ==
  ASSUME HistoryInv, NEW f \in Nat, NEW v \in Nat, NEW r \in Nat,
         Record(RolledBack(f, v, r))
  PROVE  HistoryInv'
<1> DEFINE e == RolledBack(f, v, r)
<1>1. /\ state \in State /\ ~state.invalid /\ Valid(state) /\ cut \in CutoverFold
      /\ state' = ApplyRolledBack(e, state)
      /\ cut' = ApplyCutoverEvent(e, cut)
      /\ retired' = retired
  BY ApplyToCases DEF Record, RolledBack, HistoryInv, TypeOK, CleanIsValid
<1>2. TypeOK'
  BY <1>1, RecordedType, CutoverFoldType DEF TypeOK, HistoryInv
<1>3. CASE state'.invalid
  BY <1>2, <1>3 DEF HistoryInv, CleanIsValid, CutoverFoldAgrees, RetiredNeverServes
<1>4. CASE ~state'.invalid
  <2>1. Valid(state') /\ RolledBackEffect(state, state')
    BY <1>1, <1>4, RolledBackSound
  <2>2. /\ f = state.live
        /\ v = state.attempt.previous
        /\ r = state.cutoverRevision + 1
    BY <1>1, <1>4 DEF ApplyRolledBack, RolledBackContradicts, RolledBack, Poison,
       State
  <2>3. /\ cut.current.live = state.live
        /\ cut.current.revision = state.cutoverRevision
        /\ ~cut.broken
        /\ cut.rollback = state.attempt.previous
        /\ cut.promoted <= state.allocated
    BY <1>1, <2>1 DEF HistoryInv, CutoverFoldAgrees, LiveCutover, CutoverLineage,
       RolledBackEffect
  <2>4. /\ state.live = state.attempt.target
        /\ state.attempt.target = state.allocated
        /\ state.allocated >= 1
        /\ state.cutoverRevision # 0
    BY <1>1, <2>1, InFlight DEF RolledBackEffect, ValidAttempt, State
  <2>5. cut' = [current  |-> [live |-> v, revision |-> r],
                rollback |-> 0, promoted |-> cut.promoted, broken |-> cut.broken]
    BY <1>1, <2>1, <2>2, <2>3, <2>4, CutoverFoldReverts DEF RolledBackEffect
  <2>6. CutoverFoldAgrees'
    BY <2>1, <2>2, <2>3, <2>5 DEF CutoverFoldAgrees, LiveCutover, RolledBackEffect
  <2>7. CutoverLineage'
    BY <1>1, <2>1, <2>3, <2>5 DEF CutoverLineage, RolledBackEffect
  <2>8. RetiredNeverServes' /\ RetiredBelowAllocated'
    BY <1>1, <2>1 DEF HistoryInv, RetiredNeverServes, RetiredBelowAllocated,
       RolledBackEffect
  <2>9. QED
    BY <1>2, <2>1, <2>6, <2>7, <2>8 DEF HistoryInv, CleanIsValid
<1>5. QED
  BY <1>3, <1>4

\* The version a retirement names lies below the live one for good.
LEMMA PreviousRetiredStep ==
  ASSUME HistoryInv, NEW v \in Nat, NEW R \in BoundedReceipts,
         Record(PreviousRetired(v, R))
  PROVE  HistoryInv'
<1> DEFINE e == PreviousRetired(v, R)
<1>1. /\ state \in State /\ ~state.invalid /\ Valid(state)
      /\ state' = ApplyPreviousRetired(e, state)
      /\ cut' = cut
      /\ retired' = retired \cup (IF v # 0 THEN {v} ELSE {})
  BY ApplyToCases DEF Record, PreviousRetired, ApplyCutoverEvent, IsCutover,
     HistoryInv, TypeOK, CleanIsValid
<1>2. TypeOK'
  BY <1>1, RecordedType DEF TypeOK, HistoryInv
<1>3. CASE state'.invalid
  BY <1>2, <1>3 DEF HistoryInv, CleanIsValid, CutoverFoldAgrees, RetiredNeverServes
<1>4. CASE ~state'.invalid
  <2>1. Valid(state') /\ PreviousRetiredEffect(state, state')
    BY <1>1, <1>4, PreviousRetiredSound
  <2>2. v = state.attempt.previous
    BY <1>1, <1>4 DEF ApplyPreviousRetired, PreviousRetiredContradicts,
       PreviousRetired, Poison, State
  <2>3. /\ state.live = state.attempt.target
        /\ state.attempt.target = state.allocated
        /\ v # 0 => v < state.allocated
    BY <1>1, <2>1, <2>2, InFlight DEF PreviousRetiredEffect, ValidAttempt, State
  <2>4. CutoverFoldAgrees'
    BY <1>1, <2>1 DEF HistoryInv, CutoverFoldAgrees, LiveCutover,
       PreviousRetiredEffect
  <2>5. CutoverLineage'
    BY <1>1, <2>1 DEF HistoryInv, CutoverLineage, PreviousRetiredEffect
  <2>6. RetiredNeverServes' /\ RetiredBelowAllocated'
    BY <1>1, <2>1, <2>3 DEF HistoryInv, RetiredNeverServes, RetiredBelowAllocated,
       PreviousRetiredEffect, State
  <2>7. QED
    BY <1>2, <2>1, <2>4, <2>5, <2>6 DEF HistoryInv, CleanIsValid
<1>5. QED
  BY <1>3, <1>4

\* The dispatch of a quiet event: only the aggregate's fold moves.
LEMMA QuietRecord ==
  ASSUME NEW e, Record(e), ~IsCutover(e), e.type # "PreviousRetired", HistoryInv
  PROVE  /\ state' = ApplyTo(e, state)
         /\ cut' = cut
         /\ retired' = retired
         /\ state \in State
         /\ ~state.invalid
         /\ Valid(state)
  BY DEF Record, ApplyCutoverEvent, HistoryInv, TypeOK, CleanIsValid

\* Every recorded event preserves the inductive invariant, one step per event type.
LEMMA InductiveStep == HistoryInv /\ Next => HistoryInv'
<1> SUFFICES ASSUME HistoryInv, Next PROVE HistoryInv'
  OBVIOUS
<1>0. Version \subseteq Nat /\ Counter \subseteq Nat /\ 0 .. MaxPosition \subseteq Nat
  BY HistoryBounds, MaxInt64Assumption DEF Version, Counter
<1>1. ASSUME NEW a \in Version, NEW t \in Version, NEW p \in Version,
             Record(RebuildInitiated(a, t, p))
      PROVE  HistoryInv'
  <2>1. /\ state' = ApplyRebuildInitiated(RebuildInitiated(a, t, p), state)
        /\ cut' = cut /\ retired' = retired
        /\ state \in State /\ ~state.invalid /\ Valid(state)
    BY <1>1, QuietRecord, ApplyToCases DEF IsCutover, RebuildInitiated
  <2>2. QED
    BY <1>0, <2>1, QuietStep, RecordedType, RebuildInitiatedSound
<1>2. ASSUME NEW a \in Version, NEW r \in Runner \cup {NoRunner},
             NEW k \in Attestation, Record(RunnerClaimed(a, r, k))
      PROVE  HistoryInv'
  <2>1. /\ state' = ApplyRunnerClaimed(RunnerClaimed(a, r, k), state)
        /\ cut' = cut /\ retired' = retired
        /\ state \in State /\ ~state.invalid /\ Valid(state)
    BY <1>2, QuietRecord, ApplyToCases DEF IsCutover, RunnerClaimed
  <2>2. QED
    BY <1>0, <2>1, QuietStep, RecordedType, RunnerClaimedSound
<1>3. ASSUME NEW a \in Version, NEW r \in Runner \cup {NoRunner},
             Record(RunnerReleased(a, r))
      PROVE  HistoryInv'
  <2>1. /\ state' = ApplyRunnerReleased(RunnerReleased(a, r), state)
        /\ cut' = cut /\ retired' = retired
        /\ state \in State /\ ~state.invalid /\ Valid(state)
    BY <1>3, QuietRecord, ApplyToCases DEF IsCutover, RunnerReleased
  <2>2. QED
    BY <1>0, <2>1, QuietStep, RecordedType, RunnerReleasedSound
<1>4. ASSUME Record(BuildStarted)
      PROVE  HistoryInv'
  <2>1. /\ state' = ApplyBuildStarted(BuildStarted, state)
        /\ cut' = cut /\ retired' = retired
        /\ state \in State /\ ~state.invalid /\ Valid(state)
    BY <1>4, QuietRecord, ApplyToCases DEF IsCutover, BuildStarted
  <2>2. QED
    BY <2>1, QuietStep, RecordedType, BuildStartedSound
<1>5. ASSUME NEW p \in 0 .. MaxPosition, Record(CaughtUp(p))
      PROVE  HistoryInv'
  <2>1. /\ state' = ApplyCaughtUp(CaughtUp(p), state)
        /\ cut' = cut /\ retired' = retired
        /\ state \in State /\ ~state.invalid /\ Valid(state)
    BY <1>5, QuietRecord, ApplyToCases DEF IsCutover, CaughtUp
  <2>2. QED
    BY <1>0, <2>1, QuietStep, RecordedType, CaughtUpSound
<1>6. ASSUME NEW p \in Version, NEW n \in Version, NEW r \in Counter,
             NEW g \in Counter, Record(Promoted(p, n, r, g))
      PROVE  HistoryInv'
  BY <1>0, <1>6, PromotedStep
<1>7. ASSUME NEW f \in Version, NEW t \in Version, NEW r \in Counter,
             Record(RolledBack(f, t, r))
      PROVE  HistoryInv'
  BY <1>0, <1>7, RolledBackStep
<1>8. ASSUME Record(Abandoned)
      PROVE  HistoryInv'
  <2>1. /\ state' = ApplyAbandoned(Abandoned, state)
        /\ cut' = cut /\ retired' = retired
        /\ state \in State /\ ~state.invalid /\ Valid(state)
    BY <1>8, QuietRecord, ApplyToCases DEF IsCutover, Abandoned
  <2>2. QED
    BY <2>1, QuietStep, RecordedType, AbandonedSound
<1>9. ASSUME NEW v \in Version, NEW g \in Counter, NEW W \in SUBSET Witness,
             NEW R \in BoundedReceipts, NEW o \in Attestation,
             Record(RetireStarted(v, g, W, R, o))
      PROVE  HistoryInv'
  <2>1. /\ state' = ApplyRetireStarted(RetireStarted(v, g, W, R, o), state)
        /\ cut' = cut /\ retired' = retired
        /\ state \in State /\ ~state.invalid /\ Valid(state)
    BY <1>9, QuietRecord, ApplyToCases DEF IsCutover, RetireStarted
  <2>2. QED
    BY <1>0, <2>1, QuietStep, RecordedType, RetireStartedSound
<1>10. ASSUME NEW v \in Version, NEW R \in BoundedReceipts,
              Record(PreviousRetired(v, R))
       PROVE  HistoryInv'
  BY <1>0, <1>10, PreviousRetiredStep
<1>11. ASSUME NEW g \in Counter, NEW W \in SUBSET Witness, NEW u \in BOOLEAN,
              NEW k \in Attestation, Record(RetirementPolicySet(g, W, u, k))
       PROVE  HistoryInv'
  <2>1. /\ state' = ApplyRetirementPolicySet(RetirementPolicySet(g, W, u, k), state)
        /\ cut' = cut /\ retired' = retired
        /\ state \in State /\ ~state.invalid /\ Valid(state)
    BY <1>11, QuietRecord, ApplyToCases DEF IsCutover, RetirementPolicySet
  <2>2. QED
    BY <1>0, <2>1, QuietStep, RecordedType, RetirementPolicySetSound
<1>12. QED
  BY <1>1, <1>2, <1>3, <1>4, <1>5, <1>6, <1>7, <1>8, <1>9, <1>10, <1>11, Zenon
     DEF Next

\* The empty stream satisfies the inductive invariant.
LEMMA InitialStates == Init => HistoryInv
<1> SUFFICES ASSUME Init PROVE HistoryInv
  OBVIOUS
<1>1. NewState \in State
  BY NoAttemptType DEF NewState, State, NoPolicy, RetirementPolicy
<1>2. NewCutoverFold \in CutoverFold
  BY DEF NewCutoverFold, CutoverFold, Cutover
<1>3. TypeOK
  BY <1>1, <1>2 DEF Init, TypeOK
<1>4. CleanIsValid
  BY DEF Init, CleanIsValid, Valid, NewState
<1>5. CutoverFoldAgrees
  BY DEF Init, CutoverFoldAgrees, NewState, NewCutoverFold, LiveCutover
<1>6. RetiredNeverServes /\ RetiredBelowAllocated
  BY DEF Init, RetiredNeverServes, RetiredBelowAllocated
<1>7. CutoverLineage
  BY DEF Init, CutoverLineage, NewState, NewCutoverFold, NoAttempt
<1>8. QED
  BY <1>3, <1>4, <1>5, <1>6, <1>7 DEF HistoryInv

-----------------------------------------------------------------------------
(* The theorems.                                                            *)

\* The inductive invariant of every history of lifecycle events.
THEOREM HistoryInvariance == Spec => []HistoryInv
<1>1. HistoryInv /\ [Next]_vars => HistoryInv'
  <2>1. HistoryInv /\ UNCHANGED vars => HistoryInv'
    BY DEF HistoryInv, TypeOK, CleanIsValid, CutoverFoldAgrees, RetiredNeverServes,
       CutoverLineage, RetiredBelowAllocated, vars
  <2>2. QED
    BY <2>1, InductiveStep
<1>2. QED
  BY <1>1, InitialStates, PTL DEF Spec

\* Histories the fold does not mark are exactly what the command gate of
\* state.go's validate lets through.
THEOREM FoldGate == Spec => []CleanIsValid
<1>1. HistoryInv => CleanIsValid
  BY DEF HistoryInv
<1>2. QED
  BY <1>1, HistoryInvariance, PTL

\* cutoverFold in router.go and the aggregate's fold never disagree about the
\* live version of an unmarked history.
THEOREM FoldsAgree == Spec => []CutoverFoldAgrees
<1>1. HistoryInv => CutoverFoldAgrees
  BY DEF HistoryInv
<1>2. QED
  BY <1>1, HistoryInvariance, PTL

\* A retired version never becomes live, a rollback target or a target again.
THEOREM RetirementIsFinal == Spec => []RetiredNeverServes
<1>1. HistoryInv => RetiredNeverServes
  BY DEF HistoryInv
<1>2. QED
  BY <1>1, HistoryInvariance, PTL
=============================================================================
