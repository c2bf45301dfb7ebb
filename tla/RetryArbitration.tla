-------------------------- MODULE RetryArbitration --------------------------
(***************************************************************************)
(* The resolution of a promotion of unknown outcome (handle.go), at the    *)
(* grain of its two locks: the handle lock mu, which a retry holds through *)
(* a save that may stall until it is canceled, and retryMu, under which a  *)
(* terminal command announces itself and a retry registers its             *)
(* cancellation.  Lifecycle treats a retry as one guarded save; here are   *)
(* its waits: on mu, on commandsClear, on contexts, on the processor.      *)
(* Sections under retryMu alone are short, and are single actions.         *)
(*                                                                         *)
(* A definition named Mutant... is a deliberately wrong variant of the one *)
(* that follows it, used to show that a property notices; no specification *)
(* refers to it.                                                           *)
(***************************************************************************)
EXTENDS Integers

CONSTANTS
  Command,   \* terminal commands (Abandon, Rollback) called on the handle
  Free       \* mu held by nobody

ASSUME HoldersAssumption == Free \notin Command \cup {"retry"} /\ "retry" \notin Command

VARIABLES
  slot,       \* what the contended slot holds: "empty", this attempt's
              \* "promoted", or "foreign", an event that defeats it
  mu,         \* holder of the handle lock across steps
  stopped,    \* the run's story is told: a command's, or a recorded verdict
  ended,      \* a command of this handle durably ended the attempt
  pending,    \* pendingCommands
  registered, \* retryCancel is set
  interrupt,  \* it was called
  parked,     \* the resolution waits on an open commandsClear
  stage,      \* where the run's resolution is
  lost,       \* the loss it would report
  result,     \* what it reported
  processor,  \* "running", "returned", or "exited" once published
  stop,       \* the processor's context was canceled by the run or a command
  canceled,   \* the caller canceled the run
  reconciler, \* the reconcile loop
  cmd         \* the commands

flags   == <<stopped, ended>>
arbiter == <<pending, registered, interrupt, parked>>
outcome == <<lost, result>>
runtime == <<processor, stop, canceled, reconciler>>
vars == <<slot, mu, flags, arbiter, stage, outcome, runtime, cmd>>

-----------------------------------------------------------------------------
Unlocked == mu = Free

\* rctx ends with the caller's context or the processor's return, which, unlike
\* its publication, needs no lock.
MutantWatched == processor = "exited"
Watched == processor # "running"
LoopDone == canceled \/ Watched

\* processorCtx, and the context of a retry.
ProcessorDone == canceled \/ stop
AttemptDone == interrupt \/ LoopDone

Goes(next) == stage' = next

\* The resolution reports, and the run winds down.
Reports(r) == result' = r /\ Goes("winding") /\ UNCHANGED lost
Promoted == result' = "promoted" /\ Goes("tailing") /\ UNCHANGED lost

-----------------------------------------------------------------------------
(* The resolution: halt check, fold to the slot, gated retry, pause.       *)

\* reconcileHalted.
Check ==
  /\ stage = "checking" /\ Unlocked
  /\ IF stopped \/ processor = "exited" THEN Reports(lost)
     ELSE Goes("folding") /\ UNCHANGED outcome
  /\ UNCHANGED <<slot, mu, flags, arbiter, runtime, cmd>>

\* The authority answers the fold of the slot.
Fold ==
  /\ stage = "folding"
  /\ Goes(CASE slot = "empty" -> "gate" [] slot = "promoted" -> "refolding"
            [] slot = "foreign" -> "judging")
  /\ UNCHANGED <<slot, mu, flags, arbiter, outcome, runtime, cmd>>

\* It fails, at the latest when the loop's context ends.
FoldFails ==
  /\ stage = "folding" /\ LoopDone
  /\ Goes("pausing")
  /\ UNCHANGED <<slot, mu, flags, arbiter, outcome, runtime, cmd>>

\* observeReconciledPromotion: a full fold, answered or not, and its
\* installation under mu.
Refold ==
  /\ stage = "refolding"
  /\ Goes("observing")
  /\ UNCHANGED <<slot, mu, flags, arbiter, outcome, runtime, cmd>>
RefoldFails == LoopDone /\ Refold
Observe ==
  /\ stage = "observing" /\ Unlocked
  /\ Promoted
  /\ UNCHANGED <<slot, mu, flags, arbiter, runtime, cmd>>

\* recordSlotDefeat.
Judge ==
  /\ stage = "judging" /\ Unlocked
  /\ stopped' = TRUE
  /\ Reports(lost)
  /\ UNCHANGED <<slot, mu, ended, arbiter, runtime, cmd>>

\* retryPromotion under retryMu: register, or wait for the announced commands.
MutantRetriesAnyway == TRUE
MayRetry == pending = 0
Gate ==
  /\ stage = "gate"
  /\ IF MayRetry THEN registered' = TRUE /\ UNCHANGED parked /\ Goes("locking")
     ELSE parked' = TRUE /\ UNCHANGED registered /\ Goes("waiting")
  /\ interrupt' = FALSE
  /\ UNCHANGED <<slot, mu, flags, pending, outcome, runtime, cmd>>

\* commandsClear was closed, or the loop's context ends.
Cleared ==
  /\ stage = "waiting" /\ ~parked
  /\ Goes("gate")
  /\ UNCHANGED <<slot, mu, flags, arbiter, outcome, runtime, cmd>>
Unpark ==
  /\ stage = "waiting" /\ LoopDone
  /\ Goes("pausing")
  /\ UNCHANGED <<slot, mu, flags, arbiter, outcome, runtime, cmd>>

\* The retry leaves mu and its registration.
Retried ==
  /\ mu' = Free
  /\ registered' = FALSE
  /\ interrupt' = FALSE
  /\ UNCHANGED <<pending, parked, runtime, cmd>>

\* Promote, holding mu through its append, or refused before any: the run is
\* over, or a fold installed since has moved the certified view.
Promote ==
  /\ stage = "locking" /\ Unlocked
  /\ \/ /\ ~stopped /\ processor # "exited"
        /\ mu' = "retry" /\ Goes("appending")
        /\ UNCHANGED <<arbiter, runtime, cmd>>
     \/ /\ stopped \/ processor = "exited" \/ slot # "empty"
        /\ Retried /\ Goes("pausing")
  /\ UNCHANGED <<slot, flags, outcome>>

\* The authority answers the append, if ever: recorded, or a loss, the slot being
\* taken or the outcome unknown again.
Answer ==
  /\ stage = "appending"
  /\ Retried
  /\ \/ slot = "empty" /\ slot' = "promoted" /\ Promoted
     \/ lost' = "loss" /\ Goes("pausing") /\ UNCHANGED <<slot, result>>
  /\ UNCHANGED flags

\* The attempt's own cancellation ends it: it renders no verdict.
MutantVerdict == "interruption"
Verdict == lost
Interrupted ==
  /\ stage = "appending" /\ AttemptDone
  /\ Retried
  /\ lost' = Verdict
  /\ Goes("pausing")
  /\ UNCHANGED <<slot, flags, result>>

\* The interval passes, or the loop's context ends; both ready, select picks one.
Tick ==
  /\ stage = "pausing"
  /\ Goes("checking")
  /\ UNCHANGED <<slot, mu, flags, arbiter, outcome, runtime, cmd>>
Halt ==
  /\ stage = "pausing" /\ LoopDone
  /\ Reports(IF canceled THEN "canceled" ELSE lost)
  /\ UNCHANGED <<slot, mu, flags, arbiter, runtime, cmd>>

\* windDown, or tailing until the processor is done; classifyExit's join.
WindDown ==
  /\ stage = "winding" /\ ~stop
  /\ stop' = TRUE
  /\ UNCHANGED <<slot, mu, flags, arbiter, stage, outcome, processor, canceled,
                 reconciler, cmd>>
Done ==
  /\ stage \in {"winding", "tailing"} /\ processor = "exited"
  /\ stop' = TRUE
  /\ Goes("joining")
  /\ UNCHANGED <<slot, mu, flags, arbiter, outcome, processor, canceled, reconciler, cmd>>
Return ==
  /\ stage = "joining" /\ reconciler = "exited"
  /\ Goes("returned")
  /\ UNCHANGED <<slot, mu, flags, arbiter, outcome, runtime, cmd>>

-----------------------------------------------------------------------------
(* The processor and the reconcile loop.                                   *)

ProcessorReturn ==
  /\ processor = "running" /\ ProcessorDone
  /\ processor' = "returned"
  /\ UNCHANGED <<slot, mu, flags, arbiter, stage, outcome, stop, canceled, reconciler, cmd>>
ProcessorFail ==
  /\ processor = "running"
  /\ processor' = "returned"
  /\ UNCHANGED <<slot, mu, flags, arbiter, stage, outcome, stop, canceled, reconciler, cmd>>

PublishProcessorExit ==
  /\ processor = "returned" /\ Unlocked
  /\ processor' = "exited"
  /\ UNCHANGED <<slot, mu, flags, arbiter, stage, outcome, stop, canceled, reconciler, cmd>>

\* A tick's load sees the attempt over or claimed by another; one that does not
\* changes nothing here.
Load ==
  /\ reconciler = "ticking"
  /\ ended \/ slot = "foreign"
  /\ reconciler' = "loaded"
  /\ UNCHANGED <<slot, mu, flags, arbiter, stage, outcome, processor, stop, canceled, cmd>>

\* Its verdict, under mu, unless the run was stopped meanwhile.
Reconcile ==
  /\ reconciler = "loaded" /\ Unlocked
  /\ reconciler' = "exited"
  /\ stopped' = TRUE
  /\ stop' = (stop \/ ~stopped)
  /\ UNCHANGED <<slot, mu, ended, arbiter, stage, outcome, processor, canceled, cmd>>
ReconcileExit ==
  /\ reconciler = "ticking"
  /\ ProcessorDone \/ (stopped /\ Unlocked)
  /\ reconciler' = "exited"
  /\ UNCHANGED <<slot, mu, flags, arbiter, stage, outcome, processor, stop, canceled, cmd>>

-----------------------------------------------------------------------------
(* Terminal commands.                                                      *)

CommandGoes(c, next) == cmd' = [cmd EXCEPT ![c] = next]

\* pauseRetries, before mu is asked for.
MutantInterrupts == FALSE
Interrupts == registered
Announce(c) ==
  /\ cmd[c] = "idle"
  /\ CommandGoes(c, "announced")
  /\ pending' = pending + 1
  /\ interrupt' = (interrupt \/ Interrupts)
  /\ UNCHANGED <<slot, mu, flags, registered, parked, stage, outcome, runtime>>

Lock(c) ==
  /\ cmd[c] = "announced" /\ Unlocked
  /\ mu' = c
  /\ CommandGoes(c, "deciding")
  /\ UNCHANGED <<slot, flags, arbiter, stage, outcome, runtime>>

\* Its refold refuses it, or its event ends the attempt: an abandonment takes
\* the slot or follows a claim, a rollback follows the promotion.
Decide(c) ==
  /\ cmd[c] = "deciding"
  /\ mu' = Free
  /\ \/ /\ CommandGoes(c, "resuming")
        /\ UNCHANGED <<slot, stopped, ended>>
     \/ /\ ~ended
        /\ CommandGoes(c, "stopping")
        /\ slot' = IF slot = "empty" THEN "foreign" ELSE slot
        /\ stopped' = TRUE
        /\ ended' = TRUE
  /\ UNCHANGED <<arbiter, stage, outcome, runtime>>

\* awaitProcessorStop, which reads the stop function under mu.
Stop(c) ==
  /\ cmd[c] = "stopping" /\ Unlocked
  /\ CommandGoes(c, "awaiting")
  /\ stop' = TRUE
  /\ UNCHANGED <<slot, mu, flags, arbiter, stage, outcome, processor, canceled, reconciler>>
Await(c) ==
  /\ cmd[c] = "awaiting" /\ processor = "exited"
  /\ CommandGoes(c, "resuming")
  /\ UNCHANGED <<slot, mu, flags, arbiter, stage, outcome, runtime>>
\* Its caller gives up on the wait.
AwaitEnds(c) ==
  /\ cmd[c] = "awaiting"
  /\ CommandGoes(c, "resuming")
  /\ UNCHANGED <<slot, mu, flags, arbiter, stage, outcome, runtime>>

\* The last announced command closes commandsClear.
MutantParked(n) == parked
StillParked(n) == parked /\ n > 0
Resume(c) ==
  /\ cmd[c] = "resuming"
  /\ CommandGoes(c, "finished")
  /\ pending' = pending - 1
  /\ parked' = StillParked(pending - 1)
  /\ UNCHANGED <<slot, mu, flags, registered, interrupt, stage, outcome, runtime>>

-----------------------------------------------------------------------------
(* The environment.                                                        *)

\* A lost append lands after all, or another handle's claim or command does.
Land ==
  /\ slot = "empty"
  /\ slot' \in {"promoted", "foreign"}
  /\ UNCHANGED <<mu, flags, arbiter, stage, outcome, runtime, cmd>>

CancelRun ==
  /\ ~canceled
  /\ canceled' = TRUE
  /\ UNCHANGED <<slot, mu, flags, arbiter, stage, outcome, processor, stop, reconciler, cmd>>

-----------------------------------------------------------------------------
\* A certified run's promotion was answered with neither outcome.
Init ==
  /\ slot = "empty"
  /\ mu = Free
  /\ stopped = FALSE /\ ended = FALSE
  /\ pending = 0 /\ registered = FALSE /\ interrupt = FALSE /\ parked = FALSE
  /\ stage = "checking" /\ lost = "loss" /\ result = "none"
  /\ processor = "running" /\ stop = FALSE /\ canceled = FALSE
  /\ reconciler = "ticking"
  /\ cmd = [c \in Command |-> "idle"]

\* What the authority or the environment may do and need not.
Whims ==
  \/ Fold \/ Refold \/ Answer \/ Load \/ Land \/ CancelRun \/ ProcessorFail
  \/ \E c \in Command : Announce(c) \/ AwaitEnds(c)

\* What each goroutine does by itself.
Resolution ==
  \/ Check \/ FoldFails \/ RefoldFails \/ Observe \/ Judge \/ Gate \/ Cleared \/ Unpark
  \/ Promote \/ Interrupted \/ Tick \/ WindDown \/ Done \/ Return
Reconciliation == Reconcile \/ ReconcileExit
Commanding(c) == Lock(c) \/ Decide(c) \/ Stop(c) \/ Await(c) \/ Resume(c)

Next ==
  \/ Whims
  \/ Resolution \/ Halt
  \/ ProcessorReturn \/ PublishProcessorExit
  \/ Reconciliation
  \/ \E c \in Command : Commanding(c)

Spec == Init /\ [][Next]_vars

\* Goroutines run and a processor heeds its context; a mutex is handed to every
\* goroutine that keeps asking, and a select with two ready cases picks either
\* time and again.  The authority need not answer a run, but a command's own
\* calls return, at the latest at its caller's deadline.
FairSpec ==
  /\ Spec
  /\ SF_vars(Resolution) /\ SF_vars(Halt)
  /\ WF_vars(ProcessorReturn) /\ SF_vars(PublishProcessorExit)
  /\ SF_vars(Reconciliation)
  /\ \A c \in Command : SF_vars(Commanding(c))

-----------------------------------------------------------------------------
(* Properties.                                                             *)

\* A cancellation the caller never issued is never the run's result: an
\* interrupted retry keeps the loss it was resolving.
VerdictIsOurs ==
  /\ result # "interruption"
  /\ result = "canceled" => canceled
  /\ result = "promoted" => slot = "promoted"

\* Neither side waits for the other unheard: a retry that holds the lock over its
\* save while a command asks for it has been interrupted, and a parked resolution
\* has a command under way, whose end resumes it.
UnderWay == {"announced", "deciding", "stopping", "awaiting", "resuming"}
NobodyStranded ==
  /\ mu = "retry" /\ (\E c \in Command : cmd[c] = "announced") => interrupt
  /\ parked => \E c \in Command : cmd[c] \in UnderWay

\* A terminal command finishes, although the lock it needs may be held by a
\* retry whose save nobody answers.
CommandsFinish == \A c \in Command : cmd[c] = "announced" ~> cmd[c] = "finished"

\* A run that was canceled, whose attempt a command ended, or whose processor
\* returned, returns itself, out of a stalled fold, a stalled save, or a wait for
\* the commands.
ResolutionReturns == canceled \/ ended \/ processor # "running" ~> stage = "returned"

\* A refused command leaves the retries running: the resolution never stays
\* parked behind commands that have finished.
RetriesResume == stage = "waiting" ~> stage # "waiting"
=============================================================================
