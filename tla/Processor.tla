------------------------------ MODULE Processor ------------------------------
(***************************************************************************)
(* The processors of one projection version (processor/processor.go): each *)
(* loads the checkpoint, drains the global sequence in bounded batches,    *)
(* handles and checkpoints what it read, certifies the first head it       *)
(* reaches, and polls.  A returned or crashed processor is replaced by a   *)
(* new one; a superseded one may still run beside its successor.           *)
(*                                                                         *)
(* A definition named Mutant... is a deliberately wrong variant of the one *)
(* that follows it, used to show that a property notices; no specification *)
(* refers to it.                                                           *)
(***************************************************************************)
EXTENDS Integers, FiniteSets

CONSTANTS
  Slot,             \* processes that may hold a processor
  BatchSize,        \* WithBatchSize of each slot's processors
  CheckpointEvery,  \* WithCheckpointEvery
  MaxPosition       \* bound: global positions given out

ASSUME ProcessorOptions ==
  /\ BatchSize \in [Slot -> Nat \ {0}]
  /\ CheckpointEvery \in Nat \ {0}
  /\ MaxPosition \in Nat

VARIABLES
  log,         \* the positions of the events in the global sequence
  counter,     \* the highest position given out
  checkpoint,  \* the projection's checkpoint
  behind,      \* positions whose event the handler accepted, or failed and a
               \* tolerant processor advanced past
  proc,        \* the processors
  overlapped   \* whether a processor was ever started beside another

vars == <<log, counter, checkpoint, behind, proc, overlapped>>

-----------------------------------------------------------------------------
NoCheckpoint == -1
NotCaughtUp == -1

\* A processor that has not run.  batch is what it has read and not handled,
\* failed whether the read ended in an error behind those events, full whether
\* the batch limit ended it, and opened the counter when it was opened.
New == [pc |-> "new", position |-> 0, sinceCheckpoint |-> 0, batch |-> {},
        failed |-> FALSE, full |-> FALSE, opened |-> 0, caughtUp |-> NotCaughtUp]

Running(i) == proc[i].pc # "new"
At(i, pc) == proc[i].pc = pc

\* The steps of the processor in slot i that leave the sequence alone.
Becomes(i, p) == proc' = [proc EXCEPT ![i] = p]

\* Run returns, and whoever owns the projection makes a new processor.
Returns(i) == Becomes(i, New)

-----------------------------------------------------------------------------
(* The global sequence: events join it at its end, gaps are allowed, and   *)
(* streams are deleted from it.                                            *)

Publish ==
  /\ \E p \in counter + 1 .. MaxPosition :
       /\ counter' = p
       /\ log' = log \cup {p}
  /\ UNCHANGED <<checkpoint, behind, proc, overlapped>>

DeleteEvent ==
  /\ \E p \in log : log' = log \ {p}
  /\ UNCHANGED <<counter, checkpoint, behind, proc, overlapped>>

-----------------------------------------------------------------------------
(* Run.                                                                    *)

MutantFromHead == IF checkpoint = NoCheckpoint THEN counter ELSE checkpoint
LoadPosition == IF checkpoint = NoCheckpoint THEN 0 ELSE checkpoint

Start(i) ==
  /\ ~Running(i)
  /\ Becomes(i, [New EXCEPT !.pc = "draining", !.position = LoadPosition])
  /\ overlapped' = (overlapped \/ \E j \in Slot \ {i} : Running(j))
  /\ UNCHANGED <<log, counter, checkpoint, behind>>

\* ReadAll from the position, settled when it is opened, yields the events of a
\* prefix of what lies above it, a batch being the set of their positions.
Unread(i) == {e \in log : e > proc[i].position}
Prefixes(S) == {B \in SUBSET S : \A b \in B, e \in S : e < b => e \in B}

\* A drain begins; its cadence counter is the processor's.
MutantCadencePerBatch(p) == [p EXCEPT !.sinceCheckpoint = 0]
Drains(p) == p

\* The read fails to open, or its iterator to close, and nothing is handled; or
\* a prefix is buffered that the head, BatchSize or an error ends.
Read(i) ==
  /\ At(i, "draining")
  /\ \/ Returns(i)
     \/ \E batch \in Prefixes(Unread(i)), failed \in BOOLEAN :
          LET full == Cardinality(batch) = BatchSize[i]
          IN  /\ Cardinality(batch) <= BatchSize[i]
              /\ IF failed THEN ~full ELSE full \/ batch = Unread(i)
              /\ Becomes(i, [Drains(proc[i]) EXCEPT
                   !.pc = "handling", !.batch = batch, !.failed = failed, !.full = full,
                   !.opened = IF proc[i].caughtUp = NotCaughtUp THEN counter ELSE 0])
  /\ UNCHANGED <<log, counter, checkpoint, behind, overlapped>>

\* An event is behind the processor, and a checkpoint due at every
\* CheckpointEvery-th.
Advanced(p, e) ==
  [p EXCEPT !.position = e,
            !.batch = @ \ {e},
            !.sinceCheckpoint = @ + 1,
            !.pc = IF p.sinceCheckpoint + 1 >= CheckpointEvery THEN "saving" ELSE "handling"]

\* The handler accepts the next event, or fails it and WithContinueOnHandlerError
\* advances past it; without the option a failed event ends Run.
Handle(i) ==
  /\ At(i, "handling")
  /\ \E e \in proc[i].batch :
       /\ \A d \in proc[i].batch : e <= d
       /\ \/ behind' = behind \cup {e} /\ Becomes(i, Advanced(proc[i], e))
          \/ Returns(i) /\ UNCHANGED behind
  /\ UNCHANGED <<log, counter, checkpoint, overlapped>>

\* saveCheckpoint, last write wins; its failure ends Run, whether or not the
\* store recorded it.
Save(i, pc, next) ==
  /\ proc[i].pc = pc
  /\ \/ /\ checkpoint' = proc[i].position
        /\ \/ Becomes(i, [proc[i] EXCEPT !.pc = next, !.sinceCheckpoint = 0])
           \/ Returns(i)
     \/ Returns(i) /\ UNCHANGED checkpoint
  /\ UNCHANGED <<log, counter, behind, overlapped>>

SaveHandled(i) == Save(i, "saving", "handling")

\* The batch is done: report its read error, read on after a full one, or touch
\* the checkpoint at the head.
MutantSignalFirst(p) == IF p.full THEN "draining" ELSE "certifying"
MutantAlwaysAtHead(p) == "touching"
AfterBatch(p) == IF p.full THEN "draining" ELSE "touching"
EndBatch(i) ==
  /\ At(i, "handling")
  /\ proc[i].batch = {}
  /\ IF proc[i].failed THEN Returns(i)
     ELSE Becomes(i, [proc[i] EXCEPT !.pc = AfterBatch(proc[i]), !.full = FALSE])
  /\ UNCHANGED <<log, counter, checkpoint, behind, overlapped>>

Touch(i) == Save(i, "touching", "certifying")

\* caughtUpOnce.
Certify(i) ==
  /\ At(i, "certifying")
  /\ Becomes(i, [proc[i] EXCEPT
       !.pc = "polling", !.opened = 0,
       !.caughtUp = IF @ = NotCaughtUp THEN proc[i].position ELSE @])
  /\ UNCHANGED <<log, counter, checkpoint, behind, overlapped>>

\* The poll timer fires.
MutantIdlesOn == "touching"
AfterPoll == "draining"
Poll(i) ==
  /\ At(i, "polling")
  /\ Becomes(i, [proc[i] EXCEPT !.pc = AfterPoll])
  /\ UNCHANGED <<log, counter, checkpoint, behind, overlapped>>

\* The context is canceled: Run returns where it next looks, which is before
\* every step but the save of what it has just handled.
Cancel(i) ==
  /\ proc[i].pc \notin {"new", "saving"}
  /\ Returns(i)
  /\ UNCHANGED <<log, counter, checkpoint, behind, overlapped>>

\* The process dies; the checkpoint and what the handler stored survive.
Crash(i) ==
  /\ Running(i)
  /\ Returns(i)
  /\ UNCHANGED <<log, counter, checkpoint, behind, overlapped>>

-----------------------------------------------------------------------------
Init ==
  /\ log = {}
  /\ counter = 0
  /\ checkpoint = NoCheckpoint
  /\ behind = {}
  /\ proc = [i \in Slot |-> New]
  /\ overlapped = FALSE

Step(i) ==
  \/ Read(i) \/ Handle(i) \/ SaveHandled(i) \/ EndBatch(i) \/ Touch(i)
  \/ Certify(i) \/ Poll(i)

Next ==
  \/ Publish \/ DeleteEvent
  \/ \E i \in Slot : Start(i) \/ Step(i) \/ Cancel(i) \/ Crash(i)

Spec == Init /\ [][Next]_vars

\* Reads, handlers and saves return, one way or the other, and timers fire.
FairSpec == Spec /\ \A i \in Slot : WF_vars(Step(i))

-----------------------------------------------------------------------------
(* Properties.                                                             *)

\* Nothing is lost: an event at or below the checkpoint has been handled, or
\* deliberately advanced past, whatever crashed, failed, was canceled or ran
\* side by side.  Restarts only look above it.
CheckpointCovers == \A e \in log : e <= checkpoint => e \in behind

\* A caught-up signal certifies a head: everything committed before the read
\* that found it is behind the processor.
CertifiesHead ==
  [][\A i \in Slot :
       proc[i].caughtUp = NotCaughtUp /\ proc'[i].caughtUp # NotCaughtUp =>
         \A e \in log : e <= proc[i].opened => e \in behind]_vars

\* Unless a superseded processor wrote an older position since, the certified
\* head is durable: a restart does not fall below it.
HeadIsDurable ==
  \A i \in Slot : overlapped \/ checkpoint >= proc[i].caughtUp

\* A restart redelivers at most CheckpointEvery events, batches and failed
\* saves notwithstanding.
RedeliveryBounded ==
  ~overlapped => Cardinality({e \in log \cap behind : e > checkpoint}) <= CheckpointEvery

\* A processor that no cancellation, error or crash ends gets whatever is
\* committed behind it, also after it has been idle at the head.
Progresses ==
  \A i \in Slot :
    <>[]Running(i) => []<>(log \subseteq behind)
=============================================================================
