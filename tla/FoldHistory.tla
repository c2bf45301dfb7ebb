---------------------------- MODULE FoldHistory ----------------------------
(***************************************************************************)
(* A lifecycle stream on which any event may be recorded next, well formed *)
(* or not: state.go rejects nothing at append time ("the fold is total"),  *)
(* so what protects commands is that the fold marks an inconsistent        *)
(* history and validate refuses the mark.  Three readers follow the        *)
(* stream: the aggregate's fold, the routers' cutover fold, and `retired', *)
(* the versions whose storage a recorded retirement has destroyed.         *)
(***************************************************************************)
EXTENDS LifecycleFold

CONSTANTS
  MaxVersion,    \* bound: version numbers an event may carry
  MaxPosition    \* bound: global positions a catch-up may carry

ASSUME HistoryBounds == MaxVersion \in Nat /\ MaxPosition \in Nat

VARIABLES
  state,     \* the lifecycle aggregate's folded State
  cut,       \* the cutoverFold a router or worker has of the same stream
  retired    \* versions named by a recorded PreviousRetired

vars == <<state, cut, retired>>

Version    == 0 .. MaxVersion
Counter    == 0 .. MaxInt64
BoundedReceipts ==
  UNION {[W -> [live : Version, revision : Counter]] : W \in SUBSET Witness}

TypeOK ==
  /\ state \in State
  /\ cut \in CutoverFold
  /\ retired \in SUBSET Nat

Init ==
  /\ state = NewState
  /\ cut = NewCutoverFold
  /\ retired = {}

\* A history is followed up to its first inconsistency: from there the mark
\* is permanent and no command acts.
Record(e) ==
  /\ ~state.invalid
  /\ state' = ApplyTo(e, state)
  /\ cut' = ApplyCutoverEvent(e, cut)
  /\ retired' = retired \cup (IF e.type = "PreviousRetired" /\ e.retired # 0
                                THEN {e.retired} ELSE {})

\* Every event the codec can decode, whatever wrote it.
Next ==
  \/ \E a, t, p \in Version : Record(RebuildInitiated(a, t, p))
  \/ \E a \in Version, r \in Runner \cup {NoRunner}, k \in Attestation :
       Record(RunnerClaimed(a, r, k))
  \/ \E a \in Version, r \in Runner \cup {NoRunner} : Record(RunnerReleased(a, r))
  \/ Record(BuildStarted)
  \/ \E p \in 0 .. MaxPosition : Record(CaughtUp(p))
  \/ \E p, n \in Version, r, g \in Counter : Record(Promoted(p, n, r, g))
  \/ \E f, t \in Version, r \in Counter : Record(RolledBack(f, t, r))
  \/ Record(Abandoned)
  \/ \E v \in Version, g \in Counter, W \in SUBSET Witness,
        R \in BoundedReceipts, o \in Attestation :
       Record(RetireStarted(v, g, W, R, o))
  \/ \E v \in Version, R \in BoundedReceipts : Record(PreviousRetired(v, R))
  \/ \E g \in Counter, W \in SUBSET Witness, u \in BOOLEAN, k \in Attestation :
       Record(RetirementPolicySet(g, W, u, k))

Spec == Init /\ [][Next]_vars

-----------------------------------------------------------------------------
(* Properties                                                               *)

\* Whatever is recorded, a state the fold has not marked passes State.validate:
\* the command gate adds no refusal of its own to histories the fold accepts.
CleanIsValid == ~state.invalid => Valid(state)

\* The router's and worker's fold accepts every cutover of a history the
\* aggregate's fold accepts, and serves exactly its live version and revision.
CutoverFoldAgrees ==
  ~state.invalid => ~cut.broken /\ cut.current = LiveCutover(state)

\* No accepted history puts a retired version back into service, keeps it as
\* a rollback target, or hands its number to a new rebuild.
RetiredNeverServes ==
  ~state.invalid =>
    /\ state.live \notin retired
    /\ state.attempt.phase # "none" =>
         state.attempt.previous \notin retired /\ state.attempt.target \notin retired

-----------------------------------------------------------------------------
(* The inductive strengthening of the three.                                *)

CutoverLineage ==
  /\ cut.promoted <= state.allocated
  /\ state.attempt.phase \in {"created", "building", "caught_up"} =>
       cut.promoted < state.attempt.target
  /\ state.attempt.phase \in {"promoted", "retiring"} =>
       cut.rollback = state.attempt.previous

RetiredBelowAllocated == \A v \in retired : v # 0 /\ v <= state.allocated

HistoryInv ==
  /\ TypeOK
  /\ CleanIsValid
  /\ CutoverFoldAgrees
  /\ RetiredNeverServes
  /\ ~state.invalid => CutoverLineage /\ RetiredBelowAllocated
=============================================================================
