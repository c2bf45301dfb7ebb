--------------------------- MODULE LifecycleFold ---------------------------
(***************************************************************************)
(* The fold of a projection lifecycle stream: the state that its events    *)
(* rebuild (state.go), what each event does to it (events.go), the         *)
(* validation every command runs before it acts (state.go, retirement.go,  *)
(* orchestrator.go) and the independent fold of the cutover history that   *)
(* routers and the cutover worker run over the same events (router.go).    *)
(*                                                                         *)
(* One projection name is modelled, so a projection.ID is its version      *)
(* number, 0 standing for the zero ID.  UUIDs, timestamps and the texts of *)
(* reasons and actors are left out; an actor/reason pair is one of "none", *)
(* "attested" (both present) and "partial" (one is missing).               *)
(*                                                                         *)
(* A definition named Mutant... is a deliberately wrong variant of one     *)
(* below it, used to show that a property notices; nothing refers to it.   *)
(***************************************************************************)
EXTENDS Integers, FiniteSets

CONSTANTS
  Runner,      \* identities a run can claim an attempt under
  NoRunner,    \* the nil runner UUID
  Witness,     \* stable IDs of retirement witnesses
  MaxInt64     \* the largest revision and generation (math.MaxInt64)

ASSUME NoRunnerAssumption == NoRunner \notin Runner
ASSUME MaxInt64Assumption == MaxInt64 \in Nat /\ MaxInt64 >= 2

-----------------------------------------------------------------------------
(* State                                                                    *)

Phase == {"none", "created", "building", "caught_up", "promoted", "retiring"}

Cutover == [live : Nat, revision : Nat]

\* One receipt per witness that vouched, each for the cutover it serves.
Receipts == UNION {[W -> Cutover] : W \in SUBSET Witness}

Attestation == {"none", "attested", "partial"}

AttemptState ==
  [id : Nat, target : Nat, previous : Nat, phase : Phase,
   runner : Runner \cup {NoRunner}, released : BOOLEAN,
   caughtUpPos : Int, retiringWitnesses : SUBSET Witness]

\* The zero AttemptState: AttemptState.Vacant is equality with it.
NoAttempt ==
  [id |-> 0, target |-> 0, previous |-> 0, phase |-> "none",
   runner |-> NoRunner, released |-> FALSE,
   caughtUpPos |-> 0, retiringWitnesses |-> {}]

RetirementPolicy ==
  [generation : Nat, witnesses : SUBSET Witness, unwitnessed : BOOLEAN]

NoPolicy == [generation |-> 0, witnesses |-> {}, unwitnessed |-> FALSE]

State ==
  [named : BOOLEAN, live : Nat, cutoverRevision : Nat, allocated : Nat,
   attempt : AttemptState, policy : RetirementPolicy, invalid : BOOLEAN]

NewState ==
  [named |-> FALSE, live |-> 0, cutoverRevision |-> 0, allocated |-> 0,
   attempt |-> NoAttempt, policy |-> NoPolicy, invalid |-> FALSE]

-----------------------------------------------------------------------------
(* Events                                                                   *)

RebuildInitiated(attempt, target, previous) ==
  [type |-> "RebuildInitiated", attempt |-> attempt, target |-> target,
   previous |-> previous]

RunnerClaimed(attempt, runner, takeover) ==
  [type |-> "RunnerClaimed", attempt |-> attempt, runner |-> runner,
   takeover |-> takeover]

RunnerReleased(attempt, runner) ==
  [type |-> "RunnerReleased", attempt |-> attempt, runner |-> runner]

BuildStarted == [type |-> "BuildStarted"]

CaughtUp(position) == [type |-> "CaughtUp", position |-> position]

Promoted(previous, next, revision, generation) ==
  [type |-> "Promoted", previous |-> previous, next |-> next,
   revision |-> revision, generation |-> generation]

RolledBack(from, revertedTo, revision) ==
  [type |-> "RolledBack", from |-> from, revertedTo |-> revertedTo,
   revision |-> revision]

Abandoned == [type |-> "Abandoned"]

RetireStarted(retiring, generation, witnesses, receipts, override) ==
  [type |-> "RetireStarted", retiring |-> retiring, generation |-> generation,
   witnesses |-> witnesses, receipts |-> receipts, override |-> override]

PreviousRetired(retired, receipts) ==
  [type |-> "PreviousRetired", retired |-> retired, receipts |-> receipts]

RetirementPolicySet(generation, witnesses, unwitnessed, audit) ==
  [type |-> "RetirementPolicySet", generation |-> generation,
   witnesses |-> witnesses, unwitnessed |-> unwitnessed, audit |-> audit]

EventType ==
  {"RebuildInitiated", "RunnerClaimed", "RunnerReleased", "BuildStarted", "CaughtUp",
   "Promoted", "RolledBack", "Abandoned", "RetireStarted", "PreviousRetired",
   "RetirementPolicySet"}

-----------------------------------------------------------------------------
(* ApplyTo: the fold is total.  An event that contradicts the state still   *)
(* applies, and leaves the permanent mark of State.poison.                  *)

MaxOf(a, b) == IF a >= b THEN a ELSE b

Poison(s, contradiction) == [s EXCEPT !.invalid = @ \/ contradiction]

LiveCutover(s) == [live |-> s.live, revision |-> s.cutoverRevision]

\* A receipt from every required witness, and no other, for exactly this cutover.
InvalidReceipts(receipts, witnesses, cutover) ==
  receipts # [w \in witnesses |-> cutover]

Standing(attempt) == attempt.runner # NoRunner /\ ~attempt.released

RebuildInitiatedContradicts(e, s) ==
  \/ e.attempt = 0
  \/ e.target < 1
  \/ s.attempt.phase # "none"
  \/ e.previous # s.live
  \/ e.target # s.allocated + 1

ApplyRebuildInitiated(e, s) ==
  [Poison(s, RebuildInitiatedContradicts(e, s))
     EXCEPT !.named = TRUE,
            !.allocated = MaxOf(@, e.target),
            !.attempt = [id |-> e.attempt, target |-> e.target,
                         previous |-> e.previous, phase |-> "created",
                         runner |-> NoRunner, released |-> FALSE,
                         caughtUpPos |-> 0, retiringWitnesses |-> {}]]

RunnerClaimedContradicts(e, s) ==
  \/ e.attempt = 0
  \/ e.runner = NoRunner
  \/ s.attempt.phase = "none"
  \/ e.attempt # s.attempt.id
  \/ e.takeover = "partial"
  \/ Standing(s.attempt) /\ e.takeover = "none"
  \/ ~Standing(s.attempt) /\ e.takeover # "none"

ApplyRunnerClaimed(e, s) ==
  [Poison(s, RunnerClaimedContradicts(e, s))
     EXCEPT !.attempt = [@ EXCEPT !.runner = e.runner, !.released = FALSE]]

RunnerReleasedContradicts(e, s) ==
  \/ e.attempt = 0
  \/ e.runner = NoRunner
  \/ s.attempt.phase = "none"
  \/ e.attempt # s.attempt.id
  \/ e.runner # s.attempt.runner
  \/ s.attempt.released

ApplyRunnerReleased(e, s) ==
  [Poison(s, RunnerReleasedContradicts(e, s))
     EXCEPT !.attempt = [@ EXCEPT !.released = TRUE]]

BuildStartedContradicts(e, s) ==
  \/ s.attempt.phase # "created"
  \/ s.attempt.runner = NoRunner

ApplyBuildStarted(e, s) ==
  [Poison(s, BuildStartedContradicts(e, s))
     EXCEPT !.attempt = [@ EXCEPT !.phase = "building"]]

CaughtUpContradicts(e, s) == s.attempt.phase \notin {"building", "caught_up"}

ApplyCaughtUp(e, s) ==
  [Poison(s, CaughtUpContradicts(e, s))
     EXCEPT !.attempt = [@ EXCEPT !.phase = "caught_up",
                                  !.caughtUpPos = e.position]]

PromotedContradicts(e, s) ==
  \/ s.attempt.phase # "caught_up"
  \/ e.previous # s.live
  \/ e.next # s.attempt.target
  \/ s.cutoverRevision = MaxInt64
  \/ e.revision # s.cutoverRevision + 1
  \/ e.generation # s.policy.generation

ApplyPromoted(e, s) ==
  [Poison(s, PromotedContradicts(e, s))
     EXCEPT !.live = e.next,
            !.cutoverRevision = MaxOf(@, e.revision),
            !.attempt = [@ EXCEPT !.phase = "promoted"]]

MutantRollsBackToNothing(e, s) ==
  \/ s.attempt.phase # "promoted"
  \/ e.from # s.live
  \/ e.revertedTo # s.attempt.previous
  \/ s.cutoverRevision = MaxInt64
  \/ e.revision # s.cutoverRevision + 1

RolledBackContradicts(e, s) ==
  \/ s.attempt.phase # "promoted"
  \/ e.from # s.live
  \/ s.attempt.previous = 0
  \/ e.revertedTo # s.attempt.previous
  \/ s.cutoverRevision = MaxInt64
  \/ e.revision # s.cutoverRevision + 1

ApplyRolledBack(e, s) ==
  [Poison(s, RolledBackContradicts(e, s))
     EXCEPT !.live = e.revertedTo,
            !.cutoverRevision = MaxOf(@, e.revision),
            !.attempt = NoAttempt]

AbandonedContradicts(e, s) ==
  s.attempt.phase \notin {"created", "building", "caught_up"}

MutantReusesVersion(e, s) ==
  [Poison(s, AbandonedContradicts(e, s)) EXCEPT !.attempt = NoAttempt,
                                                !.allocated = s.live]

ApplyAbandoned(e, s) ==
  [Poison(s, AbandonedContradicts(e, s)) EXCEPT !.attempt = NoAttempt]

\* What a reservation must carry: the active policy's exact witness set with
\* their receipts, nothing under an unwitnessed policy, nothing under an
\* audited override, and one of the three.
UnauthorizedReservation(e, s) ==
  LET noEvidence == e.witnesses = {} /\ DOMAIN e.receipts = {}
  IN  CASE e.override # "none" -> e.override = "partial" \/ ~noEvidence
        [] e.override = "none" /\ s.policy = NoPolicy -> TRUE
        [] e.override = "none" /\ s.policy # NoPolicy /\ s.policy.unwitnessed ->
             ~noEvidence
        [] OTHER -> \/ e.witnesses # s.policy.witnesses
                    \/ InvalidReceipts(e.receipts, e.witnesses, LiveCutover(s))

RetireStartedContradicts(e, s) ==
  \/ s.attempt.phase # "promoted"
  \/ s.attempt.previous = 0
  \/ e.retiring # s.attempt.previous
  \/ e.generation # s.policy.generation
  \/ UnauthorizedReservation(e, s)

ApplyRetireStarted(e, s) ==
  [Poison(s, RetireStartedContradicts(e, s))
     EXCEPT !.attempt = [@ EXCEPT !.phase = "retiring",
                                  !.retiringWitnesses = e.witnesses]]

PreviousRetiredContradicts(e, s) ==
  LET reserved     == s.attempt.phase = "retiring" /\ s.attempt.previous # 0
      firstVersion == s.attempt.phase = "promoted" /\ s.attempt.previous = 0
  IN  \/ ~reserved /\ ~firstVersion
      \/ e.retired # s.attempt.previous
      \/ firstVersion /\ DOMAIN e.receipts # {}
      \/ reserved /\ InvalidReceipts(e.receipts, s.attempt.retiringWitnesses,
                                     LiveCutover(s))

MutantKeepsAttempt(e, s) ==
  [Poison(s, PreviousRetiredContradicts(e, s))
     EXCEPT !.attempt = IF @.phase = "retiring"
                          THEN [@ EXCEPT !.phase = "promoted", !.retiringWitnesses = {}]
                          ELSE NoAttempt]

ApplyPreviousRetired(e, s) ==
  [Poison(s, PreviousRetiredContradicts(e, s)) EXCEPT !.attempt = NoAttempt]

RetirementPolicySetContradicts(e, s) ==
  \/ ~s.named
  \/ s.policy.generation >= MaxInt64 - 1
  \/ e.generation # s.policy.generation + 1
  \/ e.audit # "attested"
  \/ e.unwitnessed /\ e.witnesses # {}
  \/ ~e.unwitnessed /\ e.witnesses = {}

ApplyRetirementPolicySet(e, s) ==
  [Poison(s, RetirementPolicySetContradicts(e, s))
     EXCEPT !.policy = [generation |-> e.generation,
                        witnesses |-> e.witnesses,
                        unwitnessed |-> e.unwitnessed]]

ApplyTo(e, s) ==
  CASE e.type = "RebuildInitiated"    -> ApplyRebuildInitiated(e, s)
    [] e.type = "RunnerClaimed"       -> ApplyRunnerClaimed(e, s)
    [] e.type = "RunnerReleased"      -> ApplyRunnerReleased(e, s)
    [] e.type = "BuildStarted"        -> ApplyBuildStarted(e, s)
    [] e.type = "CaughtUp"            -> ApplyCaughtUp(e, s)
    [] e.type = "Promoted"            -> ApplyPromoted(e, s)
    [] e.type = "RolledBack"          -> ApplyRolledBack(e, s)
    [] e.type = "Abandoned"           -> ApplyAbandoned(e, s)
    [] e.type = "RetireStarted"       -> ApplyRetireStarted(e, s)
    [] e.type = "PreviousRetired"     -> ApplyPreviousRetired(e, s)
    [] e.type = "RetirementPolicySet" -> ApplyRetirementPolicySet(e, s)

-----------------------------------------------------------------------------
(* Validation                                                               *)

ValidPolicy(p) ==
  /\ p.generation # MaxInt64
  /\ p.generation = 0 => p.witnesses = {} /\ ~p.unwitnessed
  /\ p.generation > 0 => (p.unwitnessed <=> p.witnesses = {})

\* unreachableRest: no history of this many completed allocations comes to
\* rest with this version live at this revision.
UnreachableRest(live, recorded, completed) ==
  \/ live = 0 /\ recorded # 0
  \/ live # 0 /\ recorded < 1
  \/ recorded > 0 /\ recorded \div 2 >= completed
  \/ live = 1 /\ recorded % 2 = 0
  \/ live > 1 /\ (recorded - 1) \div 2 >= completed - 1

\* The rest state that the in-flight attempt started from, or the present one.
ReachableHistory(s) ==
  LET past == s.attempt.phase \in {"promoted", "retiring"}
  IN  ~UnreachableRest(IF past THEN s.attempt.previous ELSE s.live,
                       IF past THEN s.cutoverRevision - 1 ELSE s.cutoverRevision,
                       IF s.attempt = NoAttempt THEN s.allocated ELSE s.allocated - 1)

ValidCapture(s) ==
  LET captured == s.attempt.retiringWitnesses
  IN  captured # {} =>
        /\ s.attempt.phase = "retiring"
        /\ s.policy.generation # 0
        /\ s.policy.generation = 1 => captured = s.policy.witnesses

ValidAttempt(s) ==
  LET a == s.attempt
  IN  IF a.phase = "none"
        THEN a = NoAttempt
        ELSE /\ ValidCapture(s)
             /\ a.id # 0
             /\ a.target >= 1
             /\ a.target = s.allocated
             /\ a.runner = NoRunner => a.phase = "created" /\ ~a.released
             /\ a.previous # 0 => a.previous < a.target
             /\ a.phase \in {"created", "building", "caught_up"} =>
                  s.live = a.previous
             /\ a.phase \in {"promoted", "retiring"} => s.live = a.target
             /\ a.phase = "retiring" => a.previous # 0

\* State.validate.
Valid(s) ==
  /\ ~s.invalid
  /\ IF ~s.named
       THEN s = NewState
       ELSE /\ ValidPolicy(s.policy)
            /\ s.allocated >= 1
            /\ s.live <= s.allocated
            /\ s.live = 0 <=> s.cutoverRevision = 0
            /\ ReachableHistory(s)
            /\ ValidAttempt(s)

-----------------------------------------------------------------------------
(* cutoverFold: what routers and the cutover worker make of the same stream *)

CutoverFold ==
  [current : Cutover, rollback : Nat, promoted : Nat, broken : BOOLEAN]

NewCutoverFold ==
  [current |-> [live |-> 0, revision |-> 0], rollback |-> 0, promoted |-> 0,
   broken |-> FALSE]

IsCutover(e) == e.type \in {"Promoted", "RolledBack"}

MutantSwapsLineage(e) ==
  IF e.type = "Promoted"
    THEN [cutover |-> [live |-> e.next, revision |-> e.revision],
          from |-> e.previous, rollback |-> FALSE]
    ELSE [cutover |-> [live |-> e.from, revision |-> e.revision],
          from |-> e.revertedTo, rollback |-> TRUE]

\* decodeCutover: the flip the event records and the lineage it claims.
DecodeCutover(e) ==
  IF e.type = "Promoted"
    THEN [cutover |-> [live |-> e.next, revision |-> e.revision],
          from |-> e.previous, rollback |-> FALSE]
    ELSE [cutover |-> [live |-> e.revertedTo, revision |-> e.revision],
          from |-> e.from, rollback |-> TRUE]

\* cutoverFold.apply behind the decoder's own checks; `broken' is its error.
ApplyCutoverEvent(e, f) ==
  LET raw == DecodeCutover(e)
      refused ==
        \/ raw.cutover.live < 1
        \/ raw.cutover.revision < 1
        \/ raw.rollback /\ f.current.revision = 0
        \/ raw.rollback /\ f.rollback = 0
        \/ raw.cutover.revision # f.current.revision + 1
        \/ raw.from # f.current.live
        \/ raw.rollback /\ raw.cutover.live # f.rollback
        \/ ~raw.rollback /\ raw.cutover.live <= f.promoted
  IN  IF ~IsCutover(e) THEN f
      ELSE IF refused THEN [f EXCEPT !.broken = TRUE]
      ELSE [current  |-> raw.cutover,
            rollback |-> IF raw.rollback THEN 0 ELSE raw.from,
            promoted |-> IF raw.rollback THEN f.promoted ELSE raw.cutover.live,
            broken   |-> f.broken]
=============================================================================
