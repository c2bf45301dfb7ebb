----------------------------- MODULE Lifecycle -----------------------------
(***************************************************************************)
(* Rebuild handles competing over one projection's lifecycle stream        *)
(* (handle.go, orchestrator.go).  Each handle is a client with its own     *)
(* retained view of the stream; every transition is an append guarded by   *)
(* the version of that view, and the stream arbitrates.  A handle's run    *)
(* claims the attempt, drives a processor, certifies its catch-up, perhaps *)
(* promotes, and winds down while a reconcile loop watches the stream and  *)
(* commands arrive on the same handle or on others.                        *)
(*                                                                         *)
(* r.mu is modelled by `cmd': a command that holds the lock across a load  *)
(* or a save is pending there, and whatever else needs the lock waits.     *)
(* A handle runs at most once, so it names its runner; an attempt's UUID   *)
(* is named by its target version, which is allocated once.                *)
(*                                                                         *)
(* A definition named Mutant... is a deliberately wrong variant of the one *)
(* that follows it, used to show that a property notices; no specification *)
(* refers to it.                                                           *)
(***************************************************************************)
EXTENDS LifecycleFold, Sequences

CONSTANTS
  Position,        \* global positions a drain can report as the head
  Start,           \* the stream's history when the model begins
  MaxLog,          \* bound: length of the stream
  MaxVersion,      \* bound: versions ever allocated
  AutoPromote,     \* orchestrator.autoPromote
  Commands,        \* the operations callers issue
  Faults,          \* the failures that happen
  HonestTakeover,  \* WithTakeover is used as documented: the claimant is gone
  ForeignRefold    \* a refolding command may reach a handle whose catching-up
                   \* run has lost its attempt and has not reconciled yet

ASSUME LifecycleBounds ==
  /\ MaxLog \in Nat
  /\ MaxVersion \in Nat
  /\ Position \subseteq Int
  /\ {AutoPromote, HonestTakeover, ForeignRefold} \subseteq BOOLEAN
  /\ Faults \subseteq {"appended", "unknown", "failed", "crash", "processor",
                       "reconcile", "handler"}

\* The start is a real history: each state is the fold of the ones before.
ASSUME StartAssumption ==
  /\ Start \in Seq([event : {Start[i].event : i \in DOMAIN Start}, state : State])
  /\ \A i \in DOMAIN Start :
       /\ Start[i].event.type \in EventType
       /\ Start[i].state =
            ApplyTo(Start[i].event, IF i = 1 THEN NewState ELSE Start[i - 1].state)
       /\ Valid(Start[i].state)
       /\ Start[i].state.allocated <= MaxVersion

\* The code's own runs recorded it, each attempt under the name its target gives
\* it, and nothing of it has been torn down.
ASSUME StartIsOwn ==
  \A i \in DOMAIN Start :
    /\ Start[i].event.type = "RebuildInitiated" =>
         Start[i].event.attempt = Start[i].event.target
    /\ Start[i].event.type = "Promoted" => i > 1 /\ Start[i - 1].event.type = "CaughtUp"
    /\ Start[i].event.type = "PreviousRetired" => Start[i].event.retired = 0

VARIABLES
  log,        \* the lifecycle stream: each event with the state it folds to
  inflight,   \* appends of unknown outcome that may still land at the tip
  handle,     \* one Rebuild handle, or the client that will open one
  applied,    \* the cutover each witness serves
  torn,       \* versions whose teardown has begun
  dropped     \* versions whose checkpoint was deleted

vars == <<log, inflight, handle, applied, torn, dropped>>

-----------------------------------------------------------------------------
(* The stream.                                                              *)

Tip == Len(log)

StateAt(v) == IF v = 0 THEN NewState ELSE log[v].state

\* The stream after an atomic append of one event or of two.
Recorded(evs) ==
  LET first  == [event |-> evs[1], state |-> ApplyTo(evs[1], StateAt(Tip))]
      second == [event |-> evs[2], state |-> ApplyTo(evs[2], first.state)]
  IN  IF Len(evs) = 1 THEN log \o <<first>> ELSE log \o <<first, second>>

Room(evs) == Tip + Len(evs) <= MaxLog

-----------------------------------------------------------------------------
(* The handle.                                                              *)

\* The command that holds the lock, the events it will save, and the
\* witnesses it has still to ask.
NoCommand == [op |-> "none", evs |-> <<>>, todo |-> {}]
Pending(op, evs) == [op |-> op, evs |-> evs, todo |-> {}]
SaveOps == {"begin", "policy", "claim", "catchup", "promote", "autopromote",
            "retry", "release", "rollback", "abandon", "reserve", "complete"}

NoCertificate == [attempt |-> 0, position |-> 0, version |-> 0]

Stage == {"idle", "claiming", "catchup", "promoting", "resolving", "tailing",
          "winding", "closing", "releasing", "done"}

NewHandle ==
  [alive       |-> "new",      \* "new", "open" (a usable Rebuild) or "gone"
   view        |-> 0,          \* aggregate.Version()
   cmd         |-> NoCommand,
   stage       |-> "idle",     \* where Run's goroutine stands
   entry       |-> 0,          \* the version Run's entry refold showed
   runAttempt  |-> 0,
   certificate |-> NoCertificate,
   processor   |-> "none",     \* "none", "running", "returned", "exited"
   reconciling |-> FALSE,      \* the reconcile loop has not exited
   cancel      |-> FALSE,      \* the processor's context is canceled
   ctxDone     |-> FALSE,      \* Run's own context is canceled
   stopped     |-> FALSE,
   failure     |-> "none",     \* "none", "displaced", "invalid", "reconcile"
   commandEnded |-> 0,
   slot        |-> 0,          \* the slot a lost append contended for
   result      |-> "none"]     \* "none", "nil", "displaced", "invalid",
                               \* "reconcile" or "error"

Update(h, record) == handle' = [handle EXCEPT ![h] = record]

Unlocked(h) == handle[h].cmd = NoCommand
Open(h) == handle[h].alive = "open" /\ Unlocked(h)
View(h) == StateAt(handle[h].view)

-----------------------------------------------------------------------------
(* appendLocked and the store's answer.                                     *)

\* The version guard of a save: the stream has not moved past the view.
MutantUnguarded(h) == TRUE
Unmoved(h) == Tip = handle[h].view

\* One save: recorded and observed, recorded but unobserved, refused by the
\* version guard, refused before it reached the stream, or vouching for
\* neither outcome, in which case it may land later.  A stream at its bound
\* refuses.
Saves(h, op, outcome) ==
  LET evs    == handle[h].cmd.evs
      holds  == Unmoved(h) /\ Room(evs)
  IN  /\ handle[h].cmd.op = op
      /\ \/ /\ outcome \in {"ok"} \cup (Faults \cap {"appended"})
            /\ holds
            /\ log' = Recorded(evs)
            /\ inflight' = {}
         \/ /\ outcome \in Faults \cap {"unknown"}
            /\ inflight' = inflight \cup (IF holds THEN {evs} ELSE {})
            /\ UNCHANGED log
         \/ /\ \/ outcome = "mismatch" /\ ~Unmoved(h)
               \/ outcome = "failed" /\ ("failed" \in Faults \/ ~Room(evs))
            /\ UNCHANGED <<log, inflight>>
      /\ UNCHANGED <<applied, torn, dropped>>

Outcome == {"ok", "appended", "mismatch", "unknown", "failed"}

MutantAnsweredPastEnd(h, outcome) ==
  [handle[h] EXCEPT
     !.cmd = NoCommand,
     !.view = IF outcome = "ok" THEN @ + Len(handle[h].cmd.evs) + 1 ELSE @,
     !.certificate = IF outcome = "appended" THEN NoCertificate ELSE @]

\* The handle once the save has answered and the lock is free.
Answered(h, outcome) ==
  [handle[h] EXCEPT
     !.cmd = NoCommand,
     !.view = IF outcome = "ok" THEN @ + Len(handle[h].cmd.evs) ELSE @,
     !.certificate = IF outcome = "appended" THEN NoCertificate ELSE @]

\* The slot a loss is classified from: known for a version conflict and for
\* an append of unknown outcome.
LostSlot(h, outcome) ==
  IF outcome \in {"mismatch", "unknown"} THEN handle[h].view + 1 ELSE 0

\* An append of unknown outcome reaches the stream after all.
Land ==
  \E evs \in inflight :
    /\ log' = Recorded(evs)
    /\ inflight' = {}
    /\ UNCHANGED <<handle, applied, torn, dropped>>

-----------------------------------------------------------------------------
(* Orchestrator: Begin, SetRetirementPolicy and Resume.                     *)

BeginLoad(h) ==
  LET s == StateAt(Tip)
      n == s.allocated + 1
  IN  /\ "begin" \in Commands
      /\ handle[h].alive = "new" /\ Unlocked(h)
      /\ Valid(s)
      /\ s.attempt.phase = "none"
      /\ n <= MaxVersion
      /\ Update(h, [handle[h] EXCEPT
           !.view = Tip, !.cmd = Pending("begin", <<RebuildInitiated(n, n, s.live)>>)])
      /\ UNCHANGED <<log, inflight, applied, torn, dropped>>

BeginSave(h, outcome) ==
  /\ Saves(h, "begin", outcome)
  /\ Update(h, IF outcome = "ok"
                 THEN [Answered(h, outcome) EXCEPT !.alive = "open"]
                 ELSE NewHandle)

PolicyLoad(h, W) ==
  LET s == StateAt(Tip)
  IN  /\ "policy" \in Commands
      /\ handle[h].alive = "new" /\ Unlocked(h)
      /\ Tip > 0 /\ Valid(s)
      /\ s.policy.generation < MaxInt64 - 1
      /\ Update(h, [handle[h] EXCEPT
           !.view = Tip,
           !.cmd = Pending("policy", <<RetirementPolicySet(
                     s.policy.generation + 1, W, W = {}, "attested")>>)])
      /\ UNCHANGED <<log, inflight, applied, torn, dropped>>

PolicySave(h, outcome) ==
  /\ Saves(h, "policy", outcome)
  /\ Update(h, NewHandle)

Resume(h) ==
  /\ "resume" \in Commands
  /\ handle[h].alive = "new" /\ Unlocked(h)
  /\ Tip > 0 /\ Valid(StateAt(Tip))
  /\ Update(h, [handle[h] EXCEPT !.alive = "open", !.view = Tip])
  /\ UNCHANGED <<log, inflight, applied, torn, dropped>>

-----------------------------------------------------------------------------
(* Run: the claim.                                                          *)

\* The claimant has no processor any more, and will not start one.
Gone(runner) ==
  /\ handle[runner].stage # "claiming"
  /\ handle[runner].processor \in {"none", "exited"}

\* The takeover gate: a standing claim is only taken over explicitly.
MutantRunRefusedUngated(s, takeover) == ~Valid(s) \/ s.attempt.phase = "none"
RunRefused(s, takeover) ==
  ~Valid(s) \/ s.attempt.phase = "none" \/ (Standing(s.attempt) /\ ~takeover)

\* The attestation is recorded exactly where there is a claim to take over.
MutantUnattested(a) == "none"
TakeoverAttestation(a) == IF Standing(a) THEN "attested" ELSE "none"

\* Refold, pass the takeover gate, and make the claim ready to save; or refuse.
RunEnter(h, takeover) ==
  LET s     == StateAt(Tip)
      a     == s.attempt
      claim == RunnerClaimed(a.id, h, TakeoverAttestation(a))
  IN  /\ "run" \in Commands
      /\ Open(h) /\ handle[h].stage = "idle"
      /\ takeover => Standing(a) /\ "takeover" \in Commands
      /\ takeover /\ HonestTakeover => Gone(a.runner)
      /\ Update(h, IF RunRefused(s, takeover)
           THEN [handle[h] EXCEPT !.view = Tip, !.stage = "done", !.result = "error"]
           ELSE [handle[h] EXCEPT
                   !.view = Tip, !.entry = Tip, !.stage = "claiming", !.runAttempt = a.id,
                   !.cmd = Pending("claim", IF a.phase = "created"
                                              THEN <<claim, BuildStarted>>
                                              ELSE <<claim>>)])
      /\ UNCHANGED <<log, inflight, applied, torn, dropped>>

\* What a fold says of the run's own attempt.
MutantEndedOncePromoted(h, s) ==
  s.attempt.id # handle[h].runAttempt \/ s.attempt.phase = "promoted"
Ended(h, s) == s.attempt.id # handle[h].runAttempt
Displaced(h, s) == ~Ended(h, s) /\ s.attempt.runner # h
MutantSupersededByEnd(h, s) == Ended(h, s)
Superseded(h, s) == Ended(h, s) \/ Displaced(h, s)

\* Claimed and observed: start the processor and the reconcile loop, or
\* release at once when no handler can be made.
Started(h, record) ==
  {[record EXCEPT
      !.processor = "running", !.reconciling = TRUE,
      !.stage = IF View(h).attempt.phase \in {"created", "building", "caught_up"}
                  THEN "catchup" ELSE "tailing"]}
    \cup (IF "handler" \in Faults
            THEN {[record EXCEPT !.stage = "releasing", !.result = "error"]} ELSE {})

Finished(record, result) == [record EXCEPT !.stage = "done", !.result = result]

\* A claimant other than the one the claim was appended against: an incumbent's
\* own transition is no new claim.
MutantOtherClaimant(h, s) == s.attempt.runner # h
NewClaimant(h, s) == s.attempt.runner # View(h).attempt.runner

\* claimDefeat: the verdict of the exact event that won the contended slot.
ClaimDefeat(h, record) ==
  LET slot == handle[h].view + 1
      s    == StateAt(slot)
  IN  IF ~Valid(s) THEN Finished(record, "error")
      ELSE IF Ended(h, s) THEN Finished([record EXCEPT !.view = slot], "nil")
      ELSE IF NewClaimant(h, s)
        THEN Finished([record EXCEPT !.view = slot], "displaced")
      ELSE Finished(record, "error")

ClaimSave(h, outcome) ==
  LET after == Answered(h, outcome)
  IN  /\ Saves(h, "claim", outcome)
      /\ \/ outcome = "ok" /\ \E record \in Started(h, after) : Update(h, record)
         \/ /\ outcome = "appended"
            /\ Update(h, [after EXCEPT !.cmd = Pending("observe", <<>>)])
         \/ outcome = "mismatch" /\ Update(h, ClaimDefeat(h, after))
         \/ outcome \in {"unknown", "failed"} /\ Update(h, Finished(after, "error"))

\* The claim is durable but unobserved: reload and see whether it still stands.
ObserveClaim(h) ==
  LET s      == StateAt(Tip)
      record == [handle[h] EXCEPT !.cmd = NoCommand, !.view = Tip]
  IN  /\ handle[h].cmd.op = "observe"
      /\ \/ /\ ~Valid(s) \/ "failed" \in Faults
            /\ Update(h, Finished([handle[h] EXCEPT !.cmd = NoCommand], "error"))
         \/ Valid(s) /\ Ended(h, s) /\ Update(h, Finished(record, "nil"))
         \/ Valid(s) /\ Displaced(h, s) /\ Update(h, Finished(record, "displaced"))
         \/ /\ Valid(s) /\ ~Ended(h, s) /\ ~Displaced(h, s)
            /\ \E r \in Started(h, record) : Update(h, r)
      /\ UNCHANGED <<log, inflight, applied, torn, dropped>>

-----------------------------------------------------------------------------
(* Run: catch-up and promotion.                                             *)

\* recordCatchUp's check: a command of this handle shares the aggregate, so a
\* stop would not show as a version conflict.
MutantStopIgnored(h) == FALSE
StoppedMeanwhile(h) == handle[h].stopped

\* runToCaughtUp: the drain reached the head at position p.  A run stopped
\* meanwhile waits for its processor; otherwise the transition is appended to
\* the retained view, whatever that view shows.
CatchUp(h, p) ==
  /\ Open(h) /\ handle[h].stage = "catchup"
  /\ handle[h].processor \in {"running", "returned"}
  /\ Update(h, IF StoppedMeanwhile(h)
       THEN [handle[h] EXCEPT
               !.stage = "tailing",
               !.result = IF handle[h].failure = "none" THEN "nil"
                          ELSE handle[h].failure]
       ELSE [handle[h] EXCEPT !.cmd = Pending("catchup", <<CaughtUp(p)>>)])
  /\ UNCHANGED <<log, inflight, applied, torn, dropped>>

CatchUpSave(h, outcome) ==
  LET after == Answered(h, outcome)
  IN  /\ Saves(h, "catchup", outcome)
      /\ Update(h, IF outcome = "ok"
           THEN [after EXCEPT
                   !.stage = IF AutoPromote THEN "promoting" ELSE "tailing",
                   !.certificate = [attempt  |-> handle[h].runAttempt,
                                    position |-> handle[h].cmd.evs[1].position,
                                    version  |-> after.view]]
           ELSE [after EXCEPT !.stage = "winding", !.cancel = TRUE,
                              !.slot = LostSlot(h, outcome)])

\* Nothing at all was recorded since the catch-up that the certificate is for.
CertifiedVersion(h) == handle[h].certificate.version = handle[h].view

\* Promote's licence: the certificate of this run, for the very version of the
\* view, while its processor has not published its exit.
Licensed(h) ==
  LET c == handle[h].certificate
      a == View(h).attempt
  IN  /\ handle[h].failure = "none" /\ ~handle[h].stopped
      /\ c # NoCertificate
      /\ c.attempt = a.id
      /\ a.runner = h
      /\ c.position = a.caughtUpPos
      /\ CertifiedVersion(h)
      /\ handle[h].processor # "exited"

Promotable(h) == Valid(View(h)) /\ View(h).attempt.phase = "caught_up"

MutantCanPromoteByPhase(h) == Promotable(h) /\ View(h).cutoverRevision # MaxInt64
CanPromote(h) ==
  Promotable(h) /\ Licensed(h) /\ View(h).cutoverRevision # MaxInt64

Promotion(h) ==
  LET s == View(h)
  IN  Promoted(s.live, s.attempt.target, s.cutoverRevision + 1, s.policy.generation)

\* A refusal past the phase check drops a certificate that can no longer serve.
PromotionRefused(h) ==
  IF Promotable(h) /\ ~Licensed(h)
    THEN [handle[h] EXCEPT !.certificate = NoCertificate] ELSE handle[h]

\* Promote, called by the operator.
Promote(h) ==
  /\ "promote" \in Commands
  /\ Open(h)
  /\ Update(h, IF CanPromote(h)
       THEN [handle[h] EXCEPT !.cmd = Pending("promote", <<Promotion(h)>>)]
       ELSE PromotionRefused(h))
  /\ UNCHANGED <<log, inflight, applied, torn, dropped>>

PromoteSave(h, outcome) ==
  /\ Saves(h, "promote", outcome)
  /\ Update(h, [Answered(h, outcome) EXCEPT
                  !.certificate = IF outcome = "ok" THEN NoCertificate ELSE @])

\* promoteAfterCatchUp.
PromoteAfterCatchUp(h) ==
  /\ Open(h) /\ handle[h].stage = "promoting"
  /\ Update(h, IF CanPromote(h)
       THEN [handle[h] EXCEPT !.cmd = Pending("autopromote", <<Promotion(h)>>)]
       ELSE [PromotionRefused(h) EXCEPT !.stage = "winding", !.cancel = TRUE])
  /\ UNCHANGED <<log, inflight, applied, torn, dropped>>

PromoteAfterCatchUpSave(h, outcome) ==
  LET after == Answered(h, outcome)
  IN  /\ Saves(h, "autopromote", outcome)
      /\ Update(h,
           CASE outcome = "ok" -> [after EXCEPT !.certificate = NoCertificate,
                                                !.stage = "tailing"]
             [] outcome = "appended" -> [after EXCEPT !.stage = "tailing"]
             [] outcome = "unknown" -> [after EXCEPT !.stage = "resolving",
                                                     !.slot = LostSlot(h, outcome)]
             [] OTHER -> [after EXCEPT !.stage = "winding", !.cancel = TRUE,
                                       !.slot = LostSlot(h, outcome)])

-----------------------------------------------------------------------------
(* Run: resolving a promotion of unknown outcome, and lost appends.         *)

\* recordTerminalStop.
TerminalStop(record, cause) ==
  IF record.stopped THEN record
  ELSE [record EXCEPT !.stopped = TRUE, !.failure = cause,
                      !.certificate = NoCertificate]

\* recordSlotDefeat: the verdict of the event that holds the contended slot.
SlotDefeat(h, slot) ==
  LET s      == StateAt(slot)
      record == handle[h]
      over   == Superseded(h, s)
  IN  IF ~Valid(s) THEN TerminalStop(record, "invalid")
      ELSE IF record.commandEnded = record.runAttempt THEN record
      ELSE IF record.stopped
        THEN [record EXCEPT !.failure = IF @ = "none" /\ Displaced(h, s)
                                          THEN "displaced" ELSE @]
      ELSE [record EXCEPT
              !.view = MaxOf(@, slot),
              !.stopped = over,
              !.failure = IF Displaced(h, s) THEN "displaced" ELSE @,
              !.certificate = IF over THEN NoCertificate ELSE @]

Winding(record, slot) ==
  [record EXCEPT !.stage = "winding", !.cancel = TRUE, !.slot = slot]

\* The loop cedes to a stop or to its processor's return.
Halted(h) ==
  \/ handle[h].stopped \/ handle[h].failure # "none"
  \/ handle[h].processor = "exited"
  \/ handle[h].processor = "returned" /\ ~handle[h].ctxDone

\* Canceled by the caller, it drops the loss it was resolving.
ResolveHalt(h) ==
  /\ Open(h) /\ handle[h].stage = "resolving"
  /\ \/ handle[h].ctxDone /\ Update(h, Winding(handle[h], 0))
     \/ Halted(h) /\ Update(h, Winding(handle[h], handle[h].slot))
  /\ UNCHANGED <<log, inflight, applied, torn, dropped>>

\* The slot is still empty: retry at the same expected version.
ResolveRetry(h) ==
  /\ Open(h) /\ handle[h].stage = "resolving"
  /\ Tip < handle[h].slot
  /\ Update(h, IF CanPromote(h)
       THEN [handle[h] EXCEPT !.cmd = Pending("retry", <<Promotion(h)>>)]
       ELSE PromotionRefused(h))
  /\ UNCHANGED <<log, inflight, applied, torn, dropped>>

ResolveRetrySave(h, outcome) ==
  LET after == Answered(h, outcome)
  IN  /\ Saves(h, "retry", outcome)
      /\ Update(h, IF outcome \in {"ok", "appended"}
           THEN [after EXCEPT !.certificate = NoCertificate, !.stage = "tailing"]
           ELSE after)

\* The slot is taken: by this attempt's promotion, which a fresh fold then
\* observes (no older than the slot, installed if no older than the view), or
\* by an event that defeats it.
ResolveSlot(h) ==
  LET slot == handle[h].slot
      s    == StateAt(slot)
  IN  /\ Open(h) /\ handle[h].stage = "resolving"
      /\ Tip >= slot
      /\ IF Valid(s) /\ ~Ended(h, s) /\ s.attempt.phase = "promoted"
           THEN \E v \in (slot .. Tip)
                         \cup (IF "failed" \in Faults THEN {0} ELSE {}) :
                  Update(h, [handle[h] EXCEPT !.view = MaxOf(@, v),
                                              !.certificate = NoCertificate,
                                              !.stage = "tailing"])
           ELSE Update(h, Winding(SlotDefeat(h, slot), 0))
      /\ UNCHANGED <<log, inflight, applied, torn, dropped>>

\* The processor's result has been received: its exit is published.
MutantUnjoined(h) == handle[h].cancel
Joined(h) == handle[h].processor = "exited"

\* recordLostAppend, once the processor has been stopped and joined.
Wound(h) ==
  /\ Open(h) /\ handle[h].stage = "winding" /\ Joined(h)
  /\ \E record \in
         {IF handle[h].slot \in 1 .. Tip /\ handle[h].commandEnded # handle[h].runAttempt
            THEN SlotDefeat(h, handle[h].slot) ELSE handle[h]}
           \cup (IF "failed" \in Faults THEN {handle[h]} ELSE {}) :
       Update(h, [record EXCEPT !.stage = "closing"])
  /\ UNCHANGED <<log, inflight, applied, torn, dropped>>

-----------------------------------------------------------------------------
(* The processor, the reconcile loop and the end of Run.                    *)

\* The processor's goroutine returns: canceled, or failed on its own.
ProcessorReturn(h) ==
  /\ handle[h].processor = "running"
  /\ handle[h].cancel \/ "processor" \in Faults
  /\ Update(h, [handle[h] EXCEPT !.processor = "returned"])
  /\ UNCHANGED <<log, inflight, applied, torn, dropped>>

\* publishProcessorExit: the exit and the certificate's death, under the lock.
PublishProcessorExit(h) ==
  /\ Unlocked(h) /\ handle[h].processor = "returned"
  /\ Update(h, [handle[h] EXCEPT !.processor = "exited",
                                 !.certificate = NoCertificate])
  /\ UNCHANGED <<log, inflight, applied, torn, dropped>>

Running(h) == handle[h].processor \in {"running", "returned"}

CancelRun(h) ==
  /\ "cancel" \in Commands
  /\ Running(h) /\ ~handle[h].ctxDone
  /\ Update(h, [handle[h] EXCEPT !.ctxDone = TRUE, !.cancel = TRUE])
  /\ UNCHANGED <<log, inflight, applied, torn, dropped>>

\* One tick of the reconcile loop.  The load runs outside the lock and may be
\* overtaken: it shows any version from its own start on, and one older than
\* the view renders no verdict.
Reconcile(h, v) ==
  LET s    == StateAt(v)
      over == Superseded(h, s)
  IN  /\ handle[h].reconciling /\ Unlocked(h) /\ ~handle[h].stopped
      /\ v \in handle[h].view .. Tip
      /\ v > handle[h].view \/ ~Valid(s) \/ over
      /\ Update(h, IF ~Valid(s)
           THEN [TerminalStop(handle[h], "invalid") EXCEPT
                   !.cancel = TRUE, !.reconciling = FALSE]
           ELSE [handle[h] EXCEPT
                   !.view = v,
                   !.stopped = over,
                   !.failure = IF Displaced(h, s) THEN "displaced" ELSE @,
                   !.certificate = IF over THEN NoCertificate ELSE @,
                   !.cancel = @ \/ over,
                   !.reconciling = ~over])
      /\ UNCHANGED <<log, inflight, applied, torn, dropped>>

\* A load that fails on anything but this run's cancellation is terminal.
ReconcileFail(h) ==
  /\ "reconcile" \in Faults
  /\ handle[h].reconciling /\ Unlocked(h)
  /\ Update(h, [TerminalStop(handle[h], "reconcile") EXCEPT
                  !.cancel = TRUE, !.reconciling = FALSE])
  /\ UNCHANGED <<log, inflight, applied, torn, dropped>>

\* The loop ends with the run's own wind-down as well as with a stop.
MutantLoopEndsOnStop(h) == handle[h].stopped
LoopEnds(h) == handle[h].cancel \/ handle[h].stopped

ReconcileExit(h) ==
  /\ handle[h].reconciling /\ LoopEnds(h)
  /\ Update(h, [handle[h] EXCEPT !.reconciling = FALSE])
  /\ UNCHANGED <<log, inflight, applied, torn, dropped>>

\* The processor's exit ends the catch-up or the tail.
Drained(h) ==
  /\ handle[h].stage \in {"catchup", "tailing"} /\ Unlocked(h)
  /\ Joined(h)
  /\ Update(h, [handle[h] EXCEPT !.stage = "closing", !.cancel = TRUE])
  /\ UNCHANGED <<log, inflight, applied, torn, dropped>>

\* processorExit: a recorded cause wins, then a deliberate stop is clean, then
\* the processor's own error is the result.
MutantExitStopFirst(record) ==
  IF record.result # "none" THEN record.result
  ELSE IF record.stopped THEN "nil"
  ELSE IF record.failure # "none" THEN record.failure
  ELSE "error"
ProcessorExit(record) ==
  IF record.result # "none" THEN record.result
  ELSE IF record.failure # "none" THEN record.failure
  ELSE IF record.stopped THEN "nil"
  ELSE "error"

\* classifyExit joins the reconcile loop first.
ClassifyExit(h) ==
  LET record == handle[h]
  IN  /\ record.stage = "closing" /\ Unlocked(h) /\ ~record.reconciling
      /\ Update(h, [record EXCEPT !.stage = "releasing",
                                  !.certificate = NoCertificate,
                                  !.result = ProcessorExit(record)])
      /\ UNCHANGED <<log, inflight, applied, torn, dropped>>

\* releaseClaim: best effort, from the retained view.
ReleaseClaim(h) ==
  LET a == View(h).attempt
  IN  /\ handle[h].stage = "releasing" /\ Unlocked(h)
      /\ Update(h, IF /\ a.phase # "none" /\ a.runner = h /\ ~a.released
                      /\ Valid(View(h))
           THEN [handle[h] EXCEPT !.cmd = Pending("release", <<RunnerReleased(a.id, h)>>)]
           ELSE [handle[h] EXCEPT !.stage = "done"])
      /\ UNCHANGED <<log, inflight, applied, torn, dropped>>

ReleaseClaimSave(h, outcome) ==
  /\ Saves(h, "release", outcome)
  /\ Update(h, [Answered(h, outcome) EXCEPT !.stage = "done"])

-----------------------------------------------------------------------------
(* Rollback and Abandon.                                                    *)

\* The refold at the entry of Rollback, Abandon and Retire installs the tip,
\* whatever the command then decides.
Refolds(h) ==
  /\ Open(h)
  /\ \/ ForeignRefold
     \/ handle[h].stage # "catchup" \/ handle[h].stopped
     \/ ~Superseded(h, StateAt(Tip))

MutantCanRollBackReserved(s) ==
  /\ Valid(s) /\ s.attempt.phase \in {"promoted", "retiring"}
  /\ s.attempt.previous # 0 /\ s.cutoverRevision # MaxInt64
CanRollBack(s) ==
  /\ Valid(s) /\ s.attempt.phase = "promoted"
  /\ s.attempt.previous # 0 /\ s.cutoverRevision # MaxInt64

Rollback(h) ==
  LET s == StateAt(Tip)
  IN  /\ "rollback" \in Commands
      /\ Refolds(h)
      /\ Update(h, [handle[h] EXCEPT
           !.view = Tip,
           !.cmd = IF CanRollBack(s)
                     THEN Pending("rollback", <<RolledBack(s.live, s.attempt.previous,
                                                           s.cutoverRevision + 1)>>)
                     ELSE NoCommand])
      /\ UNCHANGED <<log, inflight, applied, torn, dropped>>

Abandon(h) ==
  LET s == StateAt(Tip)
  IN  /\ "abandon" \in Commands
      /\ Refolds(h)
      /\ Update(h, [handle[h] EXCEPT
           !.view = Tip,
           !.cmd = IF Valid(s) /\ s.attempt.phase \in {"created", "building", "caught_up"}
                     THEN Pending("abandon", <<Abandoned>>) ELSE NoCommand])
      /\ UNCHANGED <<log, inflight, applied, torn, dropped>>

\* A durable end of the run's own attempt stops the run and its processor.
EndSave(h, op, outcome) ==
  LET after    == Answered(h, outcome)
      endedRun == outcome \in {"ok", "appended"}
                    /\ View(h).attempt.id = handle[h].runAttempt
  IN  /\ Saves(h, op, outcome)
      /\ Update(h, IF endedRun
           THEN [after EXCEPT !.stopped = TRUE, !.cancel = TRUE,
                              !.commandEnded = handle[h].runAttempt]
           ELSE after)

-----------------------------------------------------------------------------
(* Retire: attest, reserve, attest again, tear down, drop, record.          *)

\* One receipt from each required witness for the live cutover: attest
\* returns nothing else.
ReceiptsOf(required, s) == [w \in required |-> LiveCutover(s)]

\* The gate of a fresh retirement, and the captured one of a retry.
RequiredWitnesses(s, override) ==
  IF s.attempt.phase = "retiring" THEN s.attempt.retiringWitnesses
  ELSE IF override THEN {}
  ELSE s.policy.witnesses

MutantRetireRefusedReserved(s, override) ==
  \/ ~Valid(s)
  \/ s.attempt.phase # "promoted"
  \/ override /\ s.attempt.previous = 0
  \/ s.attempt.previous # 0 /\ ~override /\ s.policy = NoPolicy

RetireRefused(s, override) ==
  \/ ~Valid(s)
  \/ s.attempt.phase \notin {"promoted", "retiring"}
  \/ override /\ (s.attempt.previous = 0 \/ s.attempt.phase = "retiring")
  \/ /\ s.attempt.phase = "promoted" /\ s.attempt.previous # 0
     /\ ~override /\ s.policy = NoPolicy

\* No handler for the previous version, one that cannot tear down, or a
\* required witness that is not registered here.
NoTeardowner(s) == "handler" \in Faults /\ s.attempt.previous # 0

\* What Retire saves next: the completion of a first rebuild or of a retry, or
\* the reservation.
RetireEvent(s, override) ==
  LET required == RequiredWitnesses(s, override)
  IN  CASE s.attempt.previous = 0 -> PreviousRetired(0, ReceiptsOf({}, s))
        [] s.attempt.phase = "retiring" ->
             PreviousRetired(s.attempt.previous, ReceiptsOf(required, s))
        [] OTHER ->
             RetireStarted(s.attempt.previous, s.policy.generation, required,
                           ReceiptsOf(required, s),
                           IF override THEN "attested" ELSE "none")

Retire(h, override) ==
  LET s == StateAt(Tip)
  IN  /\ "retire" \in Commands
      /\ override => "override" \in Commands
      /\ Refolds(h)
      /\ \E refused \in {RetireRefused(s, override),
                         RetireRefused(s, override) \/ NoTeardowner(s)} :
         Update(h, [handle[h] EXCEPT
           !.view = Tip,
           !.cmd = IF refused THEN NoCommand
                   ELSE [op   |-> IF s.attempt.previous = 0 THEN "complete"
                                  ELSE "preflight",
                         evs  |-> <<RetireEvent(s, override)>>,
                         todo |-> IF s.attempt.previous = 0 THEN {}
                                  ELSE RequiredWitnesses(s, override)]])
      /\ UNCHANGED <<log, inflight, applied, torn, dropped>>

AbortRetire(h) == Update(h, [handle[h] EXCEPT !.cmd = NoCommand])

\* A witness vouches for the exact live cutover.
MutantServesAnything(w, s) == applied[w].live # 0
Vouches(w, s) == applied[w] = LiveCutover(s)

\* attest: ask one witness; one that serves anything else refuses the call.
Attest(h, w) ==
  /\ handle[h].cmd.op \in {"preflight", "recheck"}
  /\ w \in handle[h].cmd.todo
  /\ IF Vouches(w, View(h))
       THEN Update(h, [handle[h] EXCEPT !.cmd.todo = @ \ {w}])
       ELSE AbortRetire(h)
  /\ UNCHANGED <<log, inflight, applied, torn, dropped>>

\* A fresh retirement is reserved before anything is destroyed.
MutantNeverReserve(s) == FALSE
NeedsReservation(s) == s.attempt.phase = "promoted"

\* Every witness vouched: reserve a fresh retirement, tear down a reserved one.
Attested(h) ==
  /\ handle[h].cmd.op \in {"preflight", "recheck"}
  /\ handle[h].cmd.todo = {}
  /\ Update(h, [handle[h] EXCEPT
       !.cmd.op = IF NeedsReservation(View(h)) THEN "reserve" ELSE "teardown"])
  /\ UNCHANGED <<log, inflight, applied, torn, dropped>>

ReserveSave(h, outcome) ==
  LET after == Answered(h, outcome)
  IN  /\ Saves(h, "reserve", outcome)
      /\ Update(h, IF outcome = "ok"
           THEN [after EXCEPT !.cmd = Pending("reattest", handle[h].cmd.evs)]
           ELSE after)

\* reattestReservation: refold, and go on only under the reservation.
Reattest(h) ==
  LET s == StateAt(Tip)
  IN  /\ handle[h].cmd.op = "reattest"
      /\ \/ "failed" \in Faults /\ AbortRetire(h)
         \/ Update(h, [handle[h] EXCEPT
              !.view = Tip,
              !.cmd = IF /\ Valid(s) /\ s.attempt.phase = "retiring"
                         /\ s.attempt.previous = handle[h].cmd.evs[1].retiring
                        THEN [op   |-> "recheck",
                              evs  |-> <<RetireEvent(s, FALSE)>>,
                              todo |-> s.attempt.retiringWitnesses]
                        ELSE NoCommand])
      /\ UNCHANGED <<log, inflight, applied, torn, dropped>>

\* The version a retirement removes.
MutantTargetOf(s) == s.attempt.target
RetiredVersion(s) == s.attempt.previous

\* Teardown destroys, and may fail half way.
Teardown(h) ==
  /\ handle[h].cmd.op = "teardown"
  /\ torn' = torn \cup {RetiredVersion(View(h))}
  /\ \/ Update(h, [handle[h] EXCEPT !.cmd.op = "drop"])
     \/ "failed" \in Faults /\ AbortRetire(h)
  /\ UNCHANGED <<log, inflight, applied, dropped>>

MutantDropCheckpointLax(h) ==
  /\ handle[h].cmd.op = "drop"
  /\ \/ dropped' = dropped \cup {RetiredVersion(View(h))}
     \/ "failed" \in Faults /\ UNCHANGED dropped
  /\ Update(h, [handle[h] EXCEPT !.cmd.op = "complete"])
  /\ UNCHANGED <<log, inflight, applied, torn>>

\* The checkpoint goes only after the storage it marks.
DropCheckpoint(h) ==
  /\ handle[h].cmd.op = "drop"
  /\ \/ /\ dropped' = dropped \cup {RetiredVersion(View(h))}
        /\ Update(h, [handle[h] EXCEPT !.cmd.op = "complete"])
     \/ "failed" \in Faults /\ AbortRetire(h) /\ UNCHANGED dropped
  /\ UNCHANGED <<log, inflight, applied, torn>>

RecordRetirement(h, outcome) ==
  /\ Saves(h, "complete", outcome)
  /\ Update(h, Answered(h, outcome))

-----------------------------------------------------------------------------
(* The environment: routes converge, and processes die.                     *)

\* A setter applies a recorded cutover newer than the one it serves.
Deliver(w) ==
  /\ \E i \in 1 .. Tip :
       LET cutover == DecodeCutover(log[i].event).cutover
       IN  /\ IsCutover(log[i].event)
           /\ cutover.revision > applied[w].revision
           /\ applied' = [applied EXCEPT ![w] = cutover]
  /\ UNCHANGED <<log, inflight, handle, torn, dropped>>

\* The process dies; what it was saving may still land, what it was tearing
\* down may be half gone.
Crash(h) ==
  LET c == handle[h].cmd
  IN  /\ "crash" \in Faults
      /\ handle[h].alive = "open"
      /\ Update(h, [NewHandle EXCEPT !.alive = "gone"])
      /\ \/ UNCHANGED <<inflight, torn>>
         \/ /\ c.op \in SaveOps /\ Unmoved(h) /\ Room(c.evs)
            /\ inflight' = inflight \cup {c.evs}
            /\ UNCHANGED torn
         \/ /\ c.op = "teardown"
            /\ torn' = torn \cup {RetiredVersion(View(h))}
            /\ UNCHANGED inflight
      /\ UNCHANGED <<log, applied, dropped>>

-----------------------------------------------------------------------------
\* The runs of the starting history are over, and their handles with them.
PastRunners ==
  {Start[i].event.runner :
     i \in {j \in DOMAIN Start : Start[j].event.type = "RunnerClaimed"}}

Init ==
  /\ log = Start
  /\ inflight = {}
  /\ handle = [h \in Runner |-> IF h \in PastRunners
                                 THEN [NewHandle EXCEPT !.alive = "gone"]
                                 ELSE NewHandle]
  /\ applied = [w \in Witness |-> [live |-> 0, revision |-> 0]]
  /\ torn = {}
  /\ dropped = {}

\* A save's answer, whatever command is waiting for it.
SaveAnswers(h) ==
  \E outcome \in Outcome :
    \/ BeginSave(h, outcome)
    \/ PolicySave(h, outcome)
    \/ ClaimSave(h, outcome)
    \/ CatchUpSave(h, outcome)
    \/ PromoteSave(h, outcome)
    \/ PromoteAfterCatchUpSave(h, outcome)
    \/ ResolveRetrySave(h, outcome)
    \/ ReleaseClaimSave(h, outcome)
    \/ EndSave(h, "rollback", outcome)
    \/ EndSave(h, "abandon", outcome)
    \/ ReserveSave(h, outcome)
    \/ RecordRetirement(h, outcome)

\* What a handle's own goroutines do once started.
Internal(h) ==
  \/ SaveAnswers(h)
  \/ ObserveClaim(h)
  \/ PromoteAfterCatchUp(h)
  \/ ResolveHalt(h) \/ ResolveRetry(h) \/ ResolveSlot(h)
  \/ Wound(h) \/ Drained(h) \/ ClassifyExit(h) \/ ReleaseClaim(h)
  \/ PublishProcessorExit(h) \/ ReconcileExit(h)
  \/ \E w \in Witness : Attest(h, w)
  \/ Attested(h) \/ Reattest(h) \/ Teardown(h) \/ DropCheckpoint(h)

\* What callers and the environment bring about.
External(h) ==
  \/ BeginLoad(h)
  \/ \E W \in SUBSET Witness : PolicyLoad(h, W)
  \/ Resume(h)
  \/ \E takeover \in BOOLEAN : RunEnter(h, takeover)
  \/ \E p \in Position : CatchUp(h, p)
  \/ Promote(h) \/ Rollback(h) \/ Abandon(h)
  \/ \E override \in BOOLEAN : Retire(h, override)
  \/ CancelRun(h) \/ ReconcileFail(h) \/ Crash(h)

Next ==
  \/ \E h \in Runner : Internal(h) \/ External(h) \/ ProcessorReturn(h)
  \/ \E h \in Runner, v \in 0 .. Tip : Reconcile(h, v)
  \/ \E w \in Witness : Deliver(w)
  \/ Land

Spec == Init /\ [][Next]_vars

\* The steps of a goroutine that holds the lock: nothing can take it away.
LockHolder(h) ==
  \/ SaveAnswers(h) \/ ObserveClaim(h)
  \/ \E w \in Witness : Attest(h, w)
  \/ Attested(h) \/ Reattest(h) \/ Teardown(h) \/ DropCheckpoint(h)

\* The steps of Run's own goroutine, one enabled kind per stage; a retry of the
\* promotion is one the loop may go without.
RunGoroutine(h) ==
  \/ PromoteAfterCatchUp(h) \/ ResolveHalt(h) \/ ResolveSlot(h)
  \/ Wound(h) \/ Drained(h) \/ ClassifyExit(h) \/ ReleaseClaim(h)

\* Saves are answered and goroutines are scheduled; sync.Mutex starves no
\* waiter (strong fairness for what needs the lock); the ticker ticks and a
\* load returns the stream as it is; a canceled processor returns.
Fairness ==
  \A h \in Runner :
    /\ WF_vars(LockHolder(h))
    /\ WF_vars(ReconcileExit(h))
    /\ WF_vars(handle[h].cancel /\ ProcessorReturn(h))
    /\ SF_vars(RunGoroutine(h))
    /\ SF_vars(PublishProcessorExit(h))
    /\ SF_vars(Reconcile(h, Tip))

FairSpec == Spec /\ Fairness

\* Beyond that, an operator opens handles and keeps calling Retire, and cutover
\* workers deliver.
RepairSpec ==
  /\ FairSpec
  /\ \A h \in Runner : WF_vars(Resume(h)) /\ SF_vars(Retire(h, FALSE))
  /\ \A w \in Witness : WF_vars(Deliver(w))

-----------------------------------------------------------------------------
(* Properties.                                                              *)

Event == {log[i].event : i \in 1 .. Tip}

TypeOK ==
  /\ \A i \in 1 .. Tip : log[i].state \in State
  /\ DOMAIN handle = Runner
  /\ \A h \in Runner :
       /\ DOMAIN handle[h] = DOMAIN NewHandle
       /\ handle[h].view \in 0 .. Tip
       /\ handle[h].stage \in Stage
       /\ handle[h].cmd.op \in SaveOps \cup
            {"none", "observe", "preflight", "reattest", "recheck", "teardown", "drop"}
  /\ applied \in [Witness -> Cutover]
  /\ torn \subseteq 1 .. MaxVersion /\ dropped \subseteq 1 .. MaxVersion

\* Whatever handles, runs, commands and late appends do, every state the stream
\* records passes State.validate: no interleaving of the code's own writers
\* poisons the fold.
StreamSound == \A i \in 1 .. Tip : Valid(log[i].state)

\* A version whose storage was touched by a teardown is never live again, never
\* a rollback target, and never built again: from the teardown on it can only
\* be the one a standing reservation retires.
TornNeverServes ==
  LET s == StateAt(Tip)
      a == s.attempt
  IN  \A v \in torn :
        /\ s.live # v
        /\ a.phase # "none" => a.target # v
        /\ a.phase # "none" /\ a.previous = v => a.phase = "retiring"

\* A retirement recorded as complete has destroyed both the storage and the
\* checkpoint, and no checkpoint goes before its storage.
RetiredIsGone ==
  /\ dropped \subseteq torn
  /\ \A e \in Event : e.type = "PreviousRetired" /\ e.retired # 0 =>
       e.retired \in torn \cap dropped

\* The lifecycle implements the contract: one flip at a time, rollback only to
\* the version kept for it, and no teardown of what is live or kept.
Contract == INSTANCE ServingContract WITH
  live      <- StateAt(Tip).live,
  revision  <- StateAt(Tip).cutoverRevision,
  fallback  <- IF StateAt(Tip).attempt.phase = "promoted"
                 THEN StateAt(Tip).attempt.previous ELSE 0,
  destroyed <- torn

KeepsContract == Contract!Spec

\* No witness a reservation captured serves the version once it is torn down.
WitnessesMoved ==
  \A e \in Event : e.type = "RetireStarted" /\ e.retiring \in torn =>
    \A w \in e.witnesses : applied[w].live # e.retiring

\* Taken over only as documented, an attempt has at most one processor, and a
\* recorded release means the releasing run's processor is gone.
OneBuilder ==
  \A h \in Runner :
    Running(h) =>
      /\ \A g \in Runner \ {h} : Running(g) => handle[g].runAttempt # handle[h].runAttempt
      /\ RunnerReleased(handle[h].runAttempt, h) \notin Event

\* Every promotion stands on the catch-up certified immediately before it, by
\* the runner that holds the claim: nothing, in particular no takeover, is
\* recorded between certificate and flip.
PromotionIsCertified ==
  \A i \in 1 .. Tip : log[i].event.type = "Promoted" =>
    i > 1 /\ log[i - 1].event.type = "CaughtUp"

\* What the comment at the claim says of every exit: a run that has started and
\* ended without a crash never leaves its claim standing.
NoStrandedClaim ==
  LET a == StateAt(Tip).attempt
  IN  \A h \in Runner :
        handle[h].stage = "done" /\ handle[h].processor = "exited" =>
          ~(a.id = handle[h].runAttempt /\ a.runner = h /\ ~a.released)

\* Run's documented results: nil only for an attempt that has ended,
\* ErrRunnerDisplaced only once another runner has claimed the attempt, after the
\* fold this run started from.
RunVerdict ==
  \A h \in Runner :
    /\ handle[h].result = "nil" => StateAt(Tip).attempt.id # handle[h].runAttempt
    /\ handle[h].result = "displaced" =>
         \E i \in handle[h].entry + 1 .. Tip :
           /\ log[i].event.type = "RunnerClaimed"
           /\ log[i].event.attempt = handle[h].runAttempt
           /\ log[i].event.runner # h

\* A builder whose attempt has ended, or has been claimed by another runner,
\* stops: its reconcile loop bounds the life of a superseded processor.
SupersededStops ==
  \A h \in Runner :
    (Running(h) /\ (Ended(h, StateAt(Tip)) \/ Displaced(h, StateAt(Tip))))
      ~> ~Running(h)

\* A run that was canceled, or whose processor has returned, comes to its end:
\* no lock, join or resolving loop holds Run for ever.
RunReturns ==
  \A h \in Runner :
    (handle[h].cancel \/ handle[h].processor = "returned")
      ~> (handle[h].stage = "done" \/ handle[h].alive = "gone")

\* A reservation is completed by calling Retire again, wherever the one that
\* made it was interrupted, as long as some handle survives.
ReservationCompletes ==
  (StateAt(Tip).attempt.phase = "retiring")
    ~> (\/ StateAt(Tip).attempt.phase # "retiring"
        \/ \A h \in Runner : handle[h].alive = "gone")
=============================================================================
