--------------------------- MODULE CutoverWorkers ---------------------------
(***************************************************************************)
(* Cutover workers converging the routes that serve reads (worker.go,      *)
(* router.go).  Any number of workers follow the recorded cutovers of one  *)
(* projection, keep no durable progress, fail, and are replaced by fresh   *)
(* ones that fold the history again; every delivery may repeat or arrive   *)
(* late, and each setter absorbs that by applying only what is newer.      *)
(* A setter is also a retirement witness: Lifecycle's Deliver stands for   *)
(* what DeliversNewer says of this module.                                 *)
(*                                                                         *)
(* The record is one that the lifecycle could have written: the cutover    *)
(* fold accepts every event of it (FoldHistory shows the two folds agree). *)
(***************************************************************************)
EXTENDS LifecycleFold, Sequences

CONSTANTS
  Worker,        \* worker slots; a stopped worker is replaced in its slot
  Setters,       \* the registered setters, in registration order
  MaxVersion,    \* bound: version numbers promoted
  MaxCutovers    \* bound: cutovers recorded

ASSUME SettersAssumption == Setters \in Seq(Witness)
ASSUME WorkerBounds == MaxVersion \in Nat /\ MaxCutovers \in Nat

VARIABLES
  history,    \* the cutover events of the global sequence
  worker,     \* each worker's progress
  applied     \* the cutover each setter serves

vars == <<history, worker, applied>>

-----------------------------------------------------------------------------
\* A new Worker: nothing folded, nothing accepted for delivery.
NewWorker ==
  [phase  |-> "starting",      \* "starting", "initializing", "ready",
                               \* "delivering" or "stopped"
   mark   |-> 0,               \* the position read up to
   fold   |-> NewCutoverFold,
   queue  |-> <<>>,            \* cutovers still to deliver
   next   |-> 1,               \* the setter the head goes to next
   failed |-> FALSE]           \* the read failed behind the accepted prefix

Update(k, record) == worker' = [worker EXCEPT ![k] = record]

\* The cutover fold of the recorded history.
FoldFrom(start, fold) ==
  LET f[i \in start .. Len(history)] ==
        IF i = start THEN fold ELSE ApplyCutoverEvent(history[i], f[i - 1])
  IN  f

Recorded == FoldFrom(0, NewCutoverFold)[Len(history)]

CutoverEvents ==
  {Promoted(p, n, r, 0) : p, n \in 0 .. MaxVersion, r \in 1 .. MaxCutovers}
    \cup {RolledBack(f, t, r) : f, t \in 0 .. MaxVersion, r \in 1 .. MaxCutovers}

\* The lifecycle records its next cutover.
RecordCutover ==
  /\ \E e \in CutoverEvents :
       /\ ~ApplyCutoverEvent(e, Recorded).broken
       /\ history' = Append(history, e)
  /\ UNCHANGED <<worker, applied>>

-----------------------------------------------------------------------------
(* drain                                                                    *)

\* The initial fold delivers nothing but the final cutover.
MutantNothingFinal(fold) == <<>>
FinalCutover(fold) == IF fold.current.revision = 0 THEN <<>> ELSE <<fold.current>>

\* The cutovers accepted between two positions.
Accepted(from, to) ==
  [i \in 1 .. to - from |-> DecodeCutover(history[from + i]).cutover]

\* One read to the end of the sequence.
Drain(k) ==
  LET tip    == Len(history)
      record == [worker[k] EXCEPT
                   !.mark = tip, !.next = 1,
                   !.fold = FoldFrom(worker[k].mark, @)[tip]]
  IN  /\ \/ /\ worker[k].phase = "starting"
            /\ Update(k, [record EXCEPT !.phase = "initializing",
                                        !.queue = FinalCutover(record.fold)])
         \/ /\ worker[k].phase = "ready" /\ tip > worker[k].mark
            /\ Update(k, [record EXCEPT !.phase = "delivering",
                                        !.queue = Accepted(worker[k].mark, tip)])
      /\ UNCHANGED <<history, applied>>

\* The read fails after v: a tailing worker still delivers the accepted prefix.
DrainFails(k, v) ==
  LET mark == worker[k].mark
  IN  /\ v \in mark .. Len(history)
      /\ worker[k].phase = "ready"
      /\ Update(k, [worker[k] EXCEPT
           !.phase = "delivering", !.mark = v, !.next = 1, !.failed = TRUE,
           !.fold = FoldFrom(mark, @)[v],
           !.queue = Accepted(mark, v)])
      /\ UNCHANGED <<history, applied>>

-----------------------------------------------------------------------------
(* deliver                                                                  *)

\* MemoryRouter.ApplyCutover: higher revisions apply, the rest change nothing;
\* an equal revision with another live version is an error.
MutantLastWriteWins(s, cutover) == TRUE
Newer(s, cutover) == cutover.revision > applied[s].revision
Conflicts(s, cutover) ==
  cutover.revision = applied[s].revision /\ cutover.live # applied[s].live

\* The worker once the head has reached one more setter.
Delivered(k) ==
  IF worker[k].next < Len(Setters)
    THEN [worker[k] EXCEPT !.next = @ + 1]
    ELSE [worker[k] EXCEPT !.next = 1, !.queue = Tail(@)]

Deliver(k) ==
  LET cutover == Head(worker[k].queue)
      s       == Setters[worker[k].next]
  IN  /\ worker[k].phase \in {"initializing", "delivering"}
      /\ worker[k].queue # <<>>
      /\ applied' = IF Newer(s, cutover) THEN [applied EXCEPT ![s] = cutover]
                    ELSE applied
      /\ Update(k, IF Conflicts(s, cutover)
                     THEN [worker[k] EXCEPT !.phase = "stopped"]
                     ELSE Delivered(k))
      /\ UNCHANGED history

\* Everything is delivered: signal readiness, poll again, or report the read's
\* own failure.
Settle(k) ==
  /\ worker[k].phase \in {"initializing", "delivering"}
  /\ worker[k].queue = <<>>
  /\ Update(k, [worker[k] EXCEPT !.phase = IF worker[k].failed THEN "stopped"
                                           ELSE "ready"])
  /\ UNCHANGED <<history, applied>>

\* A canceled context, a failed read, close or setter: Run returns, and what
\* was accepted and not delivered is dropped.
Stop(k) ==
  /\ worker[k].phase # "stopped"
  /\ Update(k, [worker[k] EXCEPT !.phase = "stopped"])
  /\ UNCHANGED <<history, applied>>

\* The supervisor creates a new Worker, which folds from zero.
MutantKeepsCursor(k) ==
  [worker[k] EXCEPT !.phase = "ready", !.queue = <<>>, !.failed = FALSE]
Successor(k) == NewWorker

Restart(k) ==
  /\ worker[k].phase = "stopped"
  /\ Update(k, Successor(k))
  /\ UNCHANGED <<history, applied>>

-----------------------------------------------------------------------------
Init ==
  /\ history = <<>>
  /\ worker = [k \in Worker |-> NewWorker]
  /\ applied = [s \in Witness |-> [live |-> 0, revision |-> 0]]

WorkerStep(k) ==
  \/ Drain(k) \/ Deliver(k) \/ Settle(k) \/ Stop(k) \/ Restart(k)
  \/ \E v \in 0 .. Len(history) : DrainFails(k, v)

Next == RecordCutover \/ \E k \in Worker : WorkerStep(k)

Spec == Init /\ [][Next]_vars

-----------------------------------------------------------------------------
(* Properties                                                               *)

\* Ready means converged: every setter serves at least what the worker has
\* folded, but for the cutovers it is still delivering, whatever other workers,
\* restarts and stale deliveries do meanwhile.
ReadyConverged ==
  \A k \in Worker :
    worker[k].phase \in {"ready", "delivering"} =>
      /\ ~worker[k].fold.broken
      /\ \A i \in DOMAIN Setters :
           applied[Setters[i]].revision >=
             worker[k].fold.current.revision - Len(worker[k].queue)

\* A route only ever moves to a recorded cutover newer than the one it serves.
DeliversNewer ==
  [][\A s \in Witness : applied'[s] # applied[s] =>
       /\ applied'[s].revision > applied[s].revision
       /\ \E i \in DOMAIN history : DecodeCutover(history[i]).cutover = applied'[s]]_vars

\* Once the lifecycle records no more cutovers, every setter comes to serve the
\* live version at its revision.
Converges ==
  \A i \in DOMAIN Setters : <>[](applied[Setters[i]] = Recorded.current)
=============================================================================
