------------------------ MODULE RetryArbitrationProofs ------------------------
(***************************************************************************)
(* For any number of terminal commands: a resolution reports only what     *)
(* happened, and retries and commands never wait for each other unheard.   *)
(* That each of them comes to an end is liveness, and is model-checked.    *)
(*                                                                         *)
(* Layout: the verdict depends on the slot and the resolution alone; the   *)
(* arbitration on who holds mu and on how many commands are announced,     *)
(* which is the number of commands under way.                              *)
(***************************************************************************)
EXTENDS RetryArbitration, FiniteSetTheorems, TLAPS

-----------------------------------------------------------------------------
(* The verdict.                                                             *)

Stages ==
  {"checking", "folding", "refolding", "observing", "judging", "gate", "locking",
   "waiting", "appending", "pausing", "winding", "tailing", "joining", "returned"}

\* What the resolution has seen of the slot is still so: a slot that is taken stays
\* with whoever took it.
VerdictInv ==
  /\ slot \in {"empty", "promoted", "foreign"}
  /\ stage \in Stages
  /\ lost = "loss"
  /\ result \in {"none", "loss", "canceled", "promoted"}
  /\ result = "canceled" => canceled
  /\ result = "promoted" \/ stage \in {"refolding", "observing"} => slot = "promoted"

LEMMA VerdictInit == Init => VerdictInv
BY DEF Init, VerdictInv, Stages

LEMMA VerdictStep == VerdictInv /\ [Next]_vars => VerdictInv'
<1> SUFFICES ASSUME VerdictInv, [Next]_vars PROVE VerdictInv'
  OBVIOUS
<1> USE DEF VerdictInv, Stages
<1>1. CASE Check
  BY <1>1 DEF Check, Reports, Goes, outcome, runtime
<1>2. CASE Fold
  BY <1>2 DEF Fold, Goes, outcome, runtime
<1>3. CASE FoldFails \/ RefoldFails \/ Refold
  BY <1>3 DEF FoldFails, RefoldFails, Refold, Goes, outcome, runtime
<1>4. CASE Observe \/ Judge
  BY <1>4 DEF Observe, Judge, Promoted, Reports, Goes, outcome, runtime
<1>5. CASE Gate \/ Cleared \/ Unpark
  BY <1>5 DEF Gate, Cleared, Unpark, Goes, outcome, runtime
<1>6. CASE Promote
  BY <1>6 DEF Promote, Retried, Goes, outcome, runtime
<1>7. CASE Answer
  BY <1>7 DEF Answer, Retried, Promoted, Goes, runtime
<1>8. CASE Interrupted
  BY <1>8 DEF Interrupted, Retried, Verdict, Goes, runtime
<1>9. CASE Tick
  BY <1>9 DEF Tick, Goes, outcome, runtime
<1>10. CASE Halt
  BY <1>10 DEF Halt, Reports, Goes, runtime
<1>11. CASE WindDown \/ Done \/ Return
  BY <1>11 DEF WindDown, Done, Return, Goes, outcome, runtime
<1>12. CASE ProcessorReturn \/ ProcessorFail \/ PublishProcessorExit
  BY <1>12 DEF ProcessorReturn, ProcessorFail, PublishProcessorExit, outcome
<1>13. CASE Load \/ Reconcile \/ ReconcileExit
  BY <1>13 DEF Load, Reconcile, ReconcileExit, outcome
<1>14. CASE Land
  BY <1>14 DEF Land, outcome, runtime
<1>15. CASE CancelRun
  BY <1>15 DEF CancelRun, outcome
<1>16. ASSUME NEW c \in Command, Announce(c) \/ AwaitEnds(c) \/ Commanding(c)
       PROVE  VerdictInv'
  BY <1>16 DEF Announce, AwaitEnds, Commanding, Lock, Decide, Stop, Await, Resume, outcome,
               runtime
<1>17. CASE UNCHANGED vars
  BY <1>17 DEF vars, outcome, runtime
<1>18. QED
  BY <1>1, <1>2, <1>3, <1>4, <1>5, <1>6, <1>7, <1>8, <1>9, <1>10, <1>11, <1>12, <1>13,
     <1>14, <1>15, <1>16, <1>17
  DEF Next, Whims, Resolution, Reconciliation

\* A cancellation the caller never issued is never the run's result, and a promotion
\* that is reported happened (handle.go, the resolution of an unknown promotion).
THEOREM RetryVerdictIsOurs == Spec => []VerdictIsOurs
<1>1. VerdictInv => VerdictIsOurs
  BY DEF VerdictInv, VerdictIsOurs
<1>2. QED
  BY <1>1, VerdictInit, VerdictStep, PTL DEF Spec

-----------------------------------------------------------------------------
(* The arbitration.                                                         *)

Active == {c \in Command : cmd[c] \in UnderWay}

\* pendingCommands counts the commands under way.
CountInv ==
  /\ cmd \in [Command -> UnderWay \cup {"idle", "finished"}]
  /\ IsFiniteSet(Active) /\ pending = Cardinality(Active)

\* A retry registers before it asks for mu and is registered while it holds it; who
\* is announced meanwhile interrupts it.
GateInv ==
  /\ registered \in BOOLEAN /\ interrupt \in BOOLEAN /\ parked \in BOOLEAN
  /\ registered <=> stage \in {"locking", "appending"}
  /\ mu = "retry" => stage = "appending"
  /\ registered /\ Active # {} => interrupt
  /\ parked => Active # {}

ArbitrationInv == CountInv /\ GateInv

LEMMA NonePending ==
  ASSUME CountInv
  PROVE  pending \in Nat /\ (pending = 0 <=> Active = {})
BY FS_EmptySet, FS_CardinalityType DEF CountInv

\* A command that goes on, and is neither announced nor finished by that.
LEMMA CommandMoves ==
  ASSUME CountInv, NEW c \in Command, cmd[c] \in UnderWay, NEW next \in UnderWay,
         CommandGoes(c, next)
  PROVE  /\ Active' = Active
         /\ cmd' \in [Command -> UnderWay \cup {"idle", "finished"}]
<1>1. cmd' \in [Command -> UnderWay \cup {"idle", "finished"}]
      /\ \A d \in Command : cmd'[d] = IF d = c THEN next ELSE cmd[d]
  BY DEF CountInv, CommandGoes
<1>2. QED
  BY <1>1 DEF Active

\* The commands leave the count alone.
LEMMA CountStays ==
  ASSUME CountInv, UNCHANGED <<pending, cmd>>
  PROVE  CountInv' /\ Active' = Active
BY DEF CountInv, Active

LEMMA AnnounceKeeps ==
  ASSUME ArbitrationInv, NEW c \in Command, Announce(c)
  PROVE  ArbitrationInv'
<1>1. cmd' \in [Command -> UnderWay \cup {"idle", "finished"}]
      /\ \A d \in Command : cmd'[d] = IF d = c THEN "announced" ELSE cmd[d]
  BY DEF Announce, CommandGoes, ArbitrationInv, CountInv, UnderWay
<1>2. Active' = Active \cup {c} /\ c \notin Active
  BY <1>1 DEF Active, UnderWay, Announce
<1>3. IsFiniteSet(Active') /\ Cardinality(Active') = Cardinality(Active) + 1
  BY <1>2, FS_AddElement DEF ArbitrationInv, CountInv
<1>4. CountInv'
  BY <1>1, <1>3 DEF CountInv, ArbitrationInv, Announce
<1>5. GateInv'
  <2>1. interrupt' = (interrupt \/ registered) /\ UNCHANGED <<mu, registered, parked, stage>>
    BY DEF Announce, Interrupts
  <2>2. Active' # {}
    BY <1>2
  <2>3. QED
    BY <2>1, <2>2 DEF GateInv, ArbitrationInv
<1>6. QED
  BY <1>4, <1>5 DEF ArbitrationInv

LEMMA ResumeKeeps ==
  ASSUME ArbitrationInv, NEW c \in Command, Resume(c)
  PROVE  ArbitrationInv'
<1>1. cmd' \in [Command -> UnderWay \cup {"idle", "finished"}]
      /\ \A d \in Command : cmd'[d] = IF d = c THEN "finished" ELSE cmd[d]
  BY DEF Resume, CommandGoes, ArbitrationInv, CountInv
<1>2. Active' = Active \ {c} /\ c \in Active
  BY <1>1 DEF Active, UnderWay, Resume
<1>3. IsFiniteSet(Active') /\ Cardinality(Active') = Cardinality(Active) - 1
  BY <1>2, FS_RemoveElement DEF ArbitrationInv, CountInv
<1>4. CountInv'
  BY <1>1, <1>3 DEF CountInv, ArbitrationInv, Resume
<1>5. GateInv'
  <2>1. /\ parked' = (parked /\ pending - 1 > 0)
        /\ UNCHANGED <<mu, registered, interrupt, stage>>
    BY DEF Resume, StillParked
  <2>2. pending' = pending - 1
    BY DEF Resume
  <2>3. pending' \in Nat /\ (pending' = 0 <=> Active' = {})
    BY <1>3, <1>4, FS_EmptySet, FS_CardinalityType DEF CountInv
  <2>4. parked' => Active' # {}
    <3>1. parked' => pending' > 0
      BY <2>1, <2>2
    <3>2. pending' > 0 => pending' # 0
      BY <2>3
    <3>3. QED
      BY <2>3, <3>1, <3>2
  <2>5. Active' # {} => Active # {}
    BY <1>2
  <2>6. QED
    BY <2>1, <2>4, <2>5 DEF GateInv, ArbitrationInv
<1>6. QED
  BY <1>4, <1>5 DEF ArbitrationInv

\* A command that asks for mu, decides, or waits for the processor.
LEMMA CommandKeeps ==
  ASSUME ArbitrationInv, NEW c \in Command,
         Lock(c) \/ Decide(c) \/ Stop(c) \/ Await(c) \/ AwaitEnds(c)
  PROVE  ArbitrationInv'
<1>1. /\ cmd[c] \in UnderWay
      /\ \E next \in UnderWay : CommandGoes(c, next)
      /\ UNCHANGED <<arbiter, stage>>
  BY DEF Lock, Decide, Stop, Await, AwaitEnds, UnderWay
<1>2. Active' = Active /\ cmd' \in [Command -> UnderWay \cup {"idle", "finished"}]
  BY <1>1, CommandMoves DEF ArbitrationInv
<1>3. mu' \in {c, Free, mu}
  BY DEF Lock, Decide, Stop, Await, AwaitEnds
<1>4. mu' = "retry" => mu = "retry"
  BY <1>3, HoldersAssumption
<1>5. QED
  BY <1>1, <1>2, <1>4 DEF ArbitrationInv, CountInv, GateInv, arbiter

\* A step of the resolution that leaves the gate, mu and the commands alone.
LEMMA ElsewhereKeeps ==
  ASSUME ArbitrationInv, UNCHANGED <<mu, arbiter, cmd>>,
         stage' = stage \/ stage \notin {"locking", "appending"},
         stage' = stage \/ stage' \notin {"locking", "appending"}
  PROVE  ArbitrationInv'
<1>1. CountInv' /\ Active' = Active
  BY CountStays DEF ArbitrationInv, arbiter
<1>2. QED
  BY <1>1 DEF ArbitrationInv, GateInv, arbiter

\* A retry registers where no command is announced, and otherwise parks behind one.
LEMMA GateKeeps ==
  ASSUME ArbitrationInv, Gate
  PROVE  ArbitrationInv'
<1>1. CountInv' /\ Active' = Active
  BY CountStays DEF ArbitrationInv, Gate
<1>2. pending = 0 <=> Active = {}
  BY NonePending DEF ArbitrationInv
<1>3. mu # "retry" /\ mu' = mu /\ ~registered
  BY DEF ArbitrationInv, GateInv, Gate
<1>4. QED
  BY <1>1, <1>2, <1>3 DEF ArbitrationInv, GateInv, Gate, MayRetry, Goes

\* A retry takes mu registered, and gives up both.
LEMMA RetryKeeps ==
  ASSUME ArbitrationInv, Promote \/ Answer \/ Interrupted
  PROVE  ArbitrationInv'
<1>1. UNCHANGED <<pending, cmd, parked>>
  BY DEF Promote, Answer, Interrupted, Retried, arbiter
<1>2. CountInv' /\ Active' = Active
  BY <1>1, CountStays DEF ArbitrationInv
<1>3. CASE Retried /\ stage' \notin {"locking", "appending"}
  <2>1. mu' # "retry" /\ registered' = FALSE /\ interrupt' = FALSE
    BY <1>3, HoldersAssumption DEF Retried
  <2>2. QED
    BY <1>1, <1>2, <1>3, <2>1 DEF ArbitrationInv, GateInv
<1>4. CASE stage = "locking" /\ stage' = "appending" /\ UNCHANGED arbiter
  BY <1>2, <1>4 DEF ArbitrationInv, GateInv, arbiter
<1>5. QED
  BY <1>3, <1>4 DEF Promote, Answer, Interrupted, Promoted, Goes

LEMMA ArbitrationInit == Init => ArbitrationInv
<1> SUFFICES ASSUME Init PROVE ArbitrationInv
  OBVIOUS
<1>1. cmd = [c \in Command |-> "idle"]
  BY DEF Init
<1>2. Active = {} /\ cmd \in [Command -> UnderWay \cup {"idle", "finished"}]
  BY <1>1 DEF Active, UnderWay
<1>3. CountInv
  BY <1>2, FS_EmptySet DEF CountInv, Init
<1>4. mu # "retry"
  BY HoldersAssumption DEF Init
<1>5. QED
  BY <1>2, <1>3, <1>4 DEF ArbitrationInv, GateInv, Init

LEMMA ArbitrationStep == VerdictInv /\ ArbitrationInv /\ [Next]_vars => ArbitrationInv'
<1> SUFFICES ASSUME VerdictInv, ArbitrationInv, [Next]_vars PROVE ArbitrationInv'
  OBVIOUS
<1>0. CASE Fold
  <2>1. stage' \in {"gate", "refolding", "judging"}
    BY <1>0 DEF Fold, Goes, VerdictInv
  <2>2. QED
    BY <1>0, <2>1, ElsewhereKeeps DEF Fold
<1>1. CASE Check \/ FoldFails \/ Refold \/ RefoldFails \/ Observe \/ Judge
  BY <1>1, ElsewhereKeeps
  DEF Check, FoldFails, Refold, RefoldFails, Observe, Judge, Reports, Promoted, Goes
<1>2. CASE Cleared \/ Unpark \/ Tick \/ Halt \/ WindDown \/ Done \/ Return
  BY <1>2, ElsewhereKeeps
  DEF Cleared, Unpark, Tick, Halt, WindDown, Done, Return, Reports, Goes, runtime
<1>3. CASE ProcessorReturn \/ ProcessorFail \/ PublishProcessorExit \/ Load \/ Reconcile
           \/ ReconcileExit \/ Land \/ CancelRun
  BY <1>3, ElsewhereKeeps
  DEF ProcessorReturn, ProcessorFail, PublishProcessorExit, Load, Reconcile, ReconcileExit,
      Land, CancelRun
<1>4. CASE Gate
  BY <1>4, GateKeeps
<1>5. CASE Promote \/ Answer \/ Interrupted
  BY <1>5, RetryKeeps
<1>6. ASSUME NEW c \in Command, Announce(c) \/ AwaitEnds(c) \/ Commanding(c)
      PROVE  ArbitrationInv'
  BY <1>6, AnnounceKeeps, ResumeKeeps, CommandKeeps DEF Commanding
<1>7. CASE UNCHANGED vars
  BY <1>7, ElsewhereKeeps DEF vars
<1>8. QED
  BY <1>0, <1>1, <1>2, <1>3, <1>4, <1>5, <1>6, <1>7
  DEF Next, Whims, Resolution, Reconciliation

\* A retry that holds the lock over its save is interrupted as soon as a command asks
\* for it, and a parked resolution has a command under way (handle.go, pauseRetries,
\* resumeRetries and retryPromotion).
THEOREM RetryNobodyStranded == Spec => []NobodyStranded
<1>1. ArbitrationInv => NobodyStranded
  BY DEF ArbitrationInv, GateInv, NobodyStranded, Active, UnderWay
<1>2. QED
  BY <1>1, VerdictInit, VerdictStep, ArbitrationInit, ArbitrationStep, PTL DEF Spec
=============================================================================
