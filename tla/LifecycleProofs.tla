-------------------------- MODULE LifecycleProofs --------------------------
(***************************************************************************)
(* For every number of handles, witnesses and versions, every bound, every *)
(* counter width and retry policy, every set of commands and faults:       *)
(* promotions follow their catch-up without an event between, and a        *)
(* recorded retirement has destroyed its version.  And when no foreign     *)
(* refold reads the stream: the recorded stream is sound, retirement never *)
(* takes down what serves, the whole lifecycle implements ServingContract, *)
(* a run's results are true of the stream, and an attempt has one builder  *)
(* when takeovers are honest.                                              *)
(*                                                                         *)
(* The first two say of an event on the stream what had to be so when the  *)
(* stream took it.  What a handle is about to save, and what may still     *)
(* land, is the event that was right at one version of the stream, and the *)
(* version guard lets it in at no other.                                   *)
(*                                                                         *)
(* Layout: (1) LifecycleInv, what makes one handle sound is a property of  *)
(* its record and of the stream (SoundHandle), most actions only adjust a  *)
(* record (Adjusts), and saves have lemmas of their own; (2) StreamInv,    *)
(* every recorded state is the fold of the events before it and every      *)
(* handle knows a prefix; (3) RetireInv, a retirement goes only after a    *)
(* recorded reservation and after each captured witness has moved on;      *)
(* (4) the properties that follow; (5) RunInv, what a run says of its      *)
(* attempt the stream shows; (6) BuildInv, who may be building holds the   *)
(* attempt's claim; (7) TypeInv, types and the bound on versions.  One     *)
(* lemma per step of a handle, one per step of the rest of the system.     *)
(***************************************************************************)
EXTENDS Lifecycle, LifecycleFoldProofs

-----------------------------------------------------------------------------
(* The inductive invariant.  Its parts are operators of the stream l and of *)
(* the destroyed versions, so that they can be said of either side of a     *)
(* step.                                                                    *)

\* Version v of stream l is a certified catch-up.
CertifiedIn(l, v) == v \in 1 .. Len(l) /\ l[v].event.type = "CaughtUp"

\* Event e may follow version v.
Licit(e, v, l, gone) ==
  /\ e.type = "Promoted" => CertifiedIn(l, v)
  /\ e.type = "PreviousRetired" /\ e.retired # 0 => e.retired \in gone

\* Events that may be appended at version v: one that is licit there, or two to
\* which the version makes no difference.
Ready(evs, v, l, gone) ==
  \/ evs = <<evs[1]>> /\ Licit(evs[1], v, l, gone)
  \/ /\ evs = <<evs[1], evs[2]>>
     /\ evs[1].type \notin {"Promoted", "PreviousRetired"}
     /\ evs[2].type \notin {"Promoted", "PreviousRetired"}

\* What Retire is going to record of state s: a reservation where one is needed, the
\* completion for the version it tears down.
Retiring(evs, s) ==
  /\ evs = <<evs[1]>>
  /\ evs[1].type \in {"RetireStarted", "PreviousRetired"}
  /\ evs[1].type = "PreviousRetired" =>
       ~NeedsReservation(s) /\ evs[1].retired = RetiredVersion(s)

RetireOps == {"preflight", "recheck", "teardown", "drop"}
IdleOps == {"none", "observe", "reattest"}

IsCommand(c) == DOMAIN c = {"op", "evs", "todo"}

\* Run's first save after the claim records its catch-up and nothing else.
Certifies(c) ==
  c.op = "catchup" => c.evs = <<c.evs[1]>> /\ c.evs[1].type = "CaughtUp"

SoundHandle(r, l, t, d) ==
  /\ DOMAIN r = DOMAIN NewHandle
  /\ IsCommand(r.cmd)
  /\ r.view \in 0 .. Len(l)
  /\ r.slot \in Nat
  /\ r.certificate = NoCertificate \/ CertifiedIn(l, r.certificate.version)
  /\ r.cmd.op \in SaveOps \cup RetireOps \cup IdleOps
  /\ r.cmd.op \in SaveOps => Ready(r.cmd.evs, r.view, l, t \cap d) /\ Certifies(r.cmd)
  /\ r.cmd.op \in RetireOps => Retiring(r.cmd.evs, StateIn(l, r.view))
  /\ r.cmd.op = "drop" => RetiredVersion(StateIn(l, r.view)) \in t

LogOK == log \in Seq({log[i] : i \in 1 .. Tip})

LifecycleInv ==
  /\ LogOK
  /\ PromotionIsCertified
  /\ RetiredIsGone
  /\ \A evs \in inflight : Ready(evs, Tip, log, torn \cap dropped)
  /\ DOMAIN handle = Runner
  /\ \A h \in Runner : SoundHandle(handle[h], log, torn, dropped)

-----------------------------------------------------------------------------
(* Records and streams.                                                     *)

\* A record that keeps its command and view, or gives up its command, or has ready
\* events to save, and has no certificate but its own, stays sound.
Adjusted(q, r, l, gone) ==
  /\ DOMAIN r = DOMAIN NewHandle
  /\ IsCommand(r.cmd)
  /\ r.view \in 0 .. Len(l)
  /\ r.slot \in Nat
  /\ r.certificate \in {NoCertificate, q.certificate}
  /\ \/ r.view = q.view /\ r.cmd = q.cmd
     \/ r.cmd.op \in IdleOps
     \/ r.cmd.op \in SaveOps /\ Ready(r.cmd.evs, r.view, l, gone) /\ Certifies(r.cmd)

LEMMA OpsDisjoint ==
  /\ \A op \in SaveOps : op \notin RetireOps \cup IdleOps
  /\ \A op \in RetireOps : op \notin IdleOps
  /\ "drop" \in RetireOps
BY DEF SaveOps, Certifies, RetireOps, IdleOps

LEMMA AdjustedIsSound ==
  ASSUME NEW l, NEW t, NEW d, NEW q, NEW r,
         SoundHandle(q, l, t, d), Adjusted(q, r, l, t \cap d)
  PROVE  SoundHandle(r, l, t, d)
BY OpsDisjoint DEF SoundHandle, Adjusted

LEMMA NewIsSound ==
  ASSUME NEW l, NEW t, NEW d, NEW a, Len(l) \in Nat
  PROVE  /\ SoundHandle(NewHandle, l, t, d)
         /\ SoundHandle([NewHandle EXCEPT !.alive = a], l, t, d)
BY OpsDisjoint DEF SoundHandle, NewHandle, NoCommand, IsCommand, IdleOps

\* A stream that grows and destruction that goes on keep a record sound.
LEMMA ReadyLater ==
  ASSUME NEW l, NEW m, NEW gone, NEW now, NEW evs, NEW v,
         Extends(l, m), gone \subseteq now, Ready(evs, v, l, gone)
  PROVE  Ready(evs, v, m, now)
BY DEF Extends, Ready, Licit, CertifiedIn

LEMMA SoundLater ==
  ASSUME NEW l, NEW t, NEW d, NEW m, NEW u, NEW e, NEW r,
         Extends(l, m), t \subseteq u, d \subseteq e, SoundHandle(r, l, t, d)
  PROVE  SoundHandle(r, m, u, e)
<1>1. t \cap d \subseteq u \cap e
  OBVIOUS
<1>2. StateIn(m, r.view) = StateIn(l, r.view)
  BY DEF StateIn, SoundHandle, Extends
<1>3. r.cmd.op \in SaveOps => Ready(r.cmd.evs, r.view, m, u \cap e)
  BY <1>1, ReadyLater DEF SoundHandle
<1>4. r.view \in 0 .. Len(m)
  BY DEF SoundHandle, Extends
<1>5. r.certificate = NoCertificate \/ CertifiedIn(m, r.certificate.version)
  BY DEF SoundHandle, CertifiedIn, Extends
<1>6. QED
  BY <1>2, <1>3, <1>4, <1>5 DEF SoundHandle

\* A step of one handle that leaves the stream and what is destroyed alone.
LEMMA HandleStep ==
  ASSUME LifecycleInv, NEW h \in Runner, NEW r, Update(h, r),
         SoundHandle(r, log, torn, dropped),
         UNCHANGED <<log, inflight, torn, dropped>>
  PROVE  LifecycleInv'
<1>1. DOMAIN handle' = Runner
  BY DEF LifecycleInv, Update
<1>2. ASSUME NEW g \in Runner
      PROVE  SoundHandle(handle'[g], log', torn', dropped')
  BY DEF LifecycleInv, Update
<1>3. QED
  BY <1>1, <1>2 DEF LifecycleInv, LogOK, PromotionIsCertified, RetiredIsGone, Event, Tip

\* What a handle's record always is.
LEMMA Shape ==
  ASSUME LifecycleInv, NEW h \in Runner
  PROVE  /\ SoundHandle(handle[h], log, torn, dropped)
         /\ DOMAIN handle[h] = DOMAIN NewHandle
         /\ IsCommand(handle[h].cmd)
         /\ handle[h].view \in 0 .. Tip
         /\ handle[h].slot \in Nat
         /\ Tip \in Nat
<1>1. SoundHandle(handle[h], log, torn, dropped)
  BY DEF LifecycleInv
<1>2. Tip \in Nat
  BY DEF LifecycleInv, LogOK, Tip
<1>3. QED
  BY <1>1, <1>2 DEF SoundHandle, Tip

\* The step neither begins a retirement nor carries one on, and destroys nothing.
StandsAside ==
  /\ \A g \in Runner : handle'[g].cmd.op \in RetireOps =>
       handle'[g].cmd = handle[g].cmd /\ handle'[g].view = handle[g].view
  /\ Extends(log, log') /\ UNCHANGED <<applied, torn>>

LEMMA Aside ==
  ASSUME LifecycleInv, NEW h \in Runner, NEW r, Update(h, r),
         r.cmd.op \in RetireOps => r.cmd = handle[h].cmd /\ r.view = handle[h].view,
         Extends(log, log'), UNCHANGED <<applied, torn>>
  PROVE  StandsAside
BY DEF StandsAside, LifecycleInv, Update

LEMMA Adjustment ==
  ASSUME LifecycleInv, NEW h \in Runner, NEW r, Update(h, r),
         Adjusted(handle[h], r, log, torn \cap dropped),
         UNCHANGED <<log, inflight, applied, torn, dropped>>
  PROVE  LifecycleInv' /\ StandsAside
<1>1. LifecycleInv'
  BY Shape, AdjustedIsSound, HandleStep
<1>2. Extends(log, log')
  BY Shape DEF Extends, Tip
<1>3. r.cmd.op \in RetireOps => r.cmd = handle[h].cmd /\ r.view = handle[h].view
  BY OpsDisjoint DEF Adjusted
<1>4. QED
  BY <1>1, <1>2, <1>3, Aside

-----------------------------------------------------------------------------
(* Actions that adjust a record.  Each case names the record it writes.     *)

LEMMA BeginLoadKeeps ==
  ASSUME LifecycleInv, NEW h \in Runner, BeginLoad(h)
  PROVE  LifecycleInv' /\ StandsAside
<1>1. PICK a, b, c, r : /\ r = [handle[h] EXCEPT !.view = Tip,
                                                 !.cmd = Pending("begin", <<RebuildInitiated(a, b, c)>>)]
                        /\ Update(h, r)
  BY Zenon DEF BeginLoad
<1>2. Adjusted(handle[h], r, log, torn \cap dropped)
  BY <1>1, Shape DEF Adjusted, NewHandle, Tip, Pending, Ready, Licit, SaveOps,
                     Certifies, IsCommand, RebuildInitiated
<1>3. QED
  BY <1>1, <1>2, Adjustment DEF BeginLoad

LEMMA PolicyLoadKeeps ==
  ASSUME LifecycleInv, NEW h \in Runner, NEW W, PolicyLoad(h, W)
  PROVE  LifecycleInv' /\ StandsAside
<1>1. PICK a, b, c, d, r : /\ r = [handle[h] EXCEPT !.view = Tip,
                                                    !.cmd = Pending("policy", <<RetirementPolicySet(a, b, c, d)>>)]
                           /\ Update(h, r)
  BY Zenon DEF PolicyLoad
<1>2. Adjusted(handle[h], r, log, torn \cap dropped)
  BY <1>1, Shape DEF Adjusted, NewHandle, Tip, Pending, Ready, Licit, SaveOps,
                     Certifies, IsCommand, RetirementPolicySet
<1>3. QED
  BY <1>1, <1>2, Adjustment DEF PolicyLoad

LEMMA ResumeKeeps ==
  ASSUME LifecycleInv, NEW h \in Runner, Resume(h)
  PROVE  LifecycleInv' /\ StandsAside
<1>1. PICK r : /\ r = [handle[h] EXCEPT !.alive = "open", !.view = Tip]
               /\ Update(h, r)
               /\ handle[h].cmd = NoCommand
  BY DEF Resume, Unlocked
<1>2. Adjusted(handle[h], r, log, torn \cap dropped)
  BY <1>1, Shape DEF Adjusted, NewHandle, Tip, NoCommand, IsCommand, IdleOps
<1>3. QED
  BY <1>1, <1>2, Adjustment DEF Resume

LEMMA RunEnterKeeps ==
  ASSUME LifecycleInv, NEW h \in Runner, NEW takeover, RunEnter(h, takeover)
  PROVE  LifecycleInv' /\ StandsAside
<1>1. handle[h].cmd = NoCommand
  BY DEF RunEnter, Open, Unlocked
<1>2. PICK id, claim :
        /\ id = StateAt(Tip).attempt.id
        /\ claim = RunnerClaimed(id, h, TakeoverAttestation(StateAt(Tip).attempt))
  OBVIOUS
<1>3. PICK evs : evs = IF StateAt(Tip).attempt.phase = "created"
                         THEN <<claim, BuildStarted>> ELSE <<claim>>
  OBVIOUS
<1>4. Ready(evs, Tip, log, torn \cap dropped)
  BY <1>2, <1>3 DEF Ready, Licit, RunnerClaimed, BuildStarted
<1>5. CASE RunRefused(StateAt(Tip), takeover)
  <2>1. PICK r : /\ r = [handle[h] EXCEPT !.view = Tip, !.stage = "done", !.result = "error"]
                 /\ Update(h, r)
    BY <1>5 DEF RunEnter
  <2>2. Adjusted(handle[h], r, log, torn \cap dropped)
    BY <1>1, <2>1, Shape DEF Adjusted, NewHandle, Tip, NoCommand, IsCommand, IdleOps
  <2>3. QED
    BY <2>1, <2>2, Adjustment DEF RunEnter
<1>6. CASE ~RunRefused(StateAt(Tip), takeover)
  <2>1. PICK r : /\ r = [handle[h] EXCEPT !.view = Tip, !.entry = Tip, !.stage = "claiming",
                                          !.runAttempt = id, !.cmd = Pending("claim", evs)]
                 /\ Update(h, r)
    BY <1>2, <1>3, <1>6 DEF RunEnter
  <2>2. Adjusted(handle[h], r, log, torn \cap dropped)
    BY <1>4, <2>1, Shape DEF Adjusted, NewHandle, Tip, Pending, SaveOps, Certifies,
                             IsCommand
  <2>3. QED
    BY <2>1, <2>2, Adjustment DEF RunEnter
<1>7. QED
  BY <1>5, <1>6

LEMMA CatchUpKeeps ==
  ASSUME LifecycleInv, NEW h \in Runner, NEW p, CatchUp(h, p)
  PROVE  LifecycleInv' /\ StandsAside
<1>1. CASE StoppedMeanwhile(h)
  <2>1. PICK x, r : /\ r = [handle[h] EXCEPT !.stage = "tailing", !.result = x]
                    /\ Update(h, r)
    BY <1>1, Zenon DEF CatchUp
  <2>2. Adjusted(handle[h], r, log, torn \cap dropped)
    BY <2>1, Shape DEF Adjusted, NewHandle, Tip
  <2>3. QED
    BY <2>1, <2>2, Adjustment DEF CatchUp
<1>2. CASE ~StoppedMeanwhile(h)
  <2>1. PICK r : /\ r = [handle[h] EXCEPT !.cmd = Pending("catchup", <<CaughtUp(p)>>)]
                 /\ Update(h, r)
    BY <1>2 DEF CatchUp
  <2>2. Adjusted(handle[h], r, log, torn \cap dropped)
    BY <2>1, Shape DEF Adjusted, NewHandle, Tip, Pending, Ready, Licit, SaveOps,
                       Certifies, IsCommand, CaughtUp
  <2>3. QED
    BY <2>1, <2>2, Adjustment DEF CatchUp
<1>3. QED
  BY <1>1, <1>2

LEMMA ProcessorReturnKeeps ==
  ASSUME LifecycleInv, NEW h \in Runner, ProcessorReturn(h)
  PROVE  LifecycleInv' /\ StandsAside
<1>1. PICK r : /\ r = [handle[h] EXCEPT !.processor = "returned"]
               /\ Update(h, r)
  BY DEF ProcessorReturn
<1>2. Adjusted(handle[h], r, log, torn \cap dropped)
  BY <1>1, Shape DEF Adjusted, NewHandle, Tip
<1>3. QED
  BY <1>1, <1>2, Adjustment DEF ProcessorReturn

LEMMA PublishProcessorExitKeeps ==
  ASSUME LifecycleInv, NEW h \in Runner, PublishProcessorExit(h)
  PROVE  LifecycleInv' /\ StandsAside
<1>1. PICK r : /\ r = [handle[h] EXCEPT !.processor = "exited", !.certificate = NoCertificate]
               /\ Update(h, r)
  BY DEF PublishProcessorExit
<1>2. Adjusted(handle[h], r, log, torn \cap dropped)
  BY <1>1, Shape DEF Adjusted, NewHandle, Tip
<1>3. QED
  BY <1>1, <1>2, Adjustment DEF PublishProcessorExit

LEMMA CancelRunKeeps ==
  ASSUME LifecycleInv, NEW h \in Runner, CancelRun(h)
  PROVE  LifecycleInv' /\ StandsAside
<1>1. PICK r : /\ r = [handle[h] EXCEPT !.ctxDone = TRUE, !.cancel = TRUE]
               /\ Update(h, r)
  BY DEF CancelRun
<1>2. Adjusted(handle[h], r, log, torn \cap dropped)
  BY <1>1, Shape DEF Adjusted, NewHandle, Tip
<1>3. QED
  BY <1>1, <1>2, Adjustment DEF CancelRun

LEMMA ReconcileExitKeeps ==
  ASSUME LifecycleInv, NEW h \in Runner, ReconcileExit(h)
  PROVE  LifecycleInv' /\ StandsAside
<1>1. PICK r : /\ r = [handle[h] EXCEPT !.reconciling = FALSE]
               /\ Update(h, r)
  BY DEF ReconcileExit
<1>2. Adjusted(handle[h], r, log, torn \cap dropped)
  BY <1>1, Shape DEF Adjusted, NewHandle, Tip
<1>3. QED
  BY <1>1, <1>2, Adjustment DEF ReconcileExit

LEMMA DrainedKeeps ==
  ASSUME LifecycleInv, NEW h \in Runner, Drained(h)
  PROVE  LifecycleInv' /\ StandsAside
<1>1. PICK r : /\ r = [handle[h] EXCEPT !.stage = "closing", !.cancel = TRUE]
               /\ Update(h, r)
  BY DEF Drained
<1>2. Adjusted(handle[h], r, log, torn \cap dropped)
  BY <1>1, Shape DEF Adjusted, NewHandle, Tip
<1>3. QED
  BY <1>1, <1>2, Adjustment DEF Drained

LEMMA ClassifyExitKeeps ==
  ASSUME LifecycleInv, NEW h \in Runner, ClassifyExit(h)
  PROVE  LifecycleInv' /\ StandsAside
<1>1. PICK x, r : /\ r = [handle[h] EXCEPT !.stage = "releasing",
                                           !.certificate = NoCertificate, !.result = x]
                  /\ Update(h, r)
  BY Zenon DEF ClassifyExit
<1>2. Adjusted(handle[h], r, log, torn \cap dropped)
  BY <1>1, Shape DEF Adjusted, NewHandle, Tip
<1>3. QED
  BY <1>1, <1>2, Adjustment DEF ClassifyExit

LEMMA ReleaseClaimKeeps ==
  ASSUME LifecycleInv, NEW h \in Runner, ReleaseClaim(h)
  PROVE  LifecycleInv' /\ StandsAside
<1> DEFINE a == View(h).attempt
           Releases == /\ a.phase # "none" /\ a.runner = h /\ ~a.released
                       /\ Valid(View(h))
<1>1. CASE Releases
  <2>1. PICK id, r :
          /\ r = [handle[h] EXCEPT !.cmd = Pending("release", <<RunnerReleased(id, h)>>)]
          /\ Update(h, r)
    BY <1>1 DEF ReleaseClaim
  <2>2. Adjusted(handle[h], r, log, torn \cap dropped)
    BY <2>1, Shape DEF Adjusted, NewHandle, Tip, Pending, Ready, Licit, SaveOps,
                       Certifies,
                       IsCommand, RunnerReleased
  <2>3. QED
    BY <2>1, <2>2, Adjustment DEF ReleaseClaim
<1>2. CASE ~Releases
  <2>1. PICK r : r = [handle[h] EXCEPT !.stage = "done"] /\ Update(h, r)
    BY <1>2 DEF ReleaseClaim
  <2>2. Adjusted(handle[h], r, log, torn \cap dropped)
    BY <2>1, Shape DEF Adjusted, NewHandle, Tip
  <2>3. QED
    BY <2>1, <2>2, Adjustment DEF ReleaseClaim
<1>3. QED
  BY <1>1, <1>2

LEMMA RollbackKeeps ==
  ASSUME LifecycleInv, NEW h \in Runner, Rollback(h)
  PROVE  LifecycleInv' /\ StandsAside
<1>1. CASE CanRollBack(StateAt(Tip))
  <2>1. PICK a, b, c, r : /\ r = [handle[h] EXCEPT !.view = Tip,
                                                   !.cmd = Pending("rollback", <<RolledBack(a, b, c)>>)]
                          /\ Update(h, r)
    BY <1>1, Zenon DEF Rollback
  <2>2. Adjusted(handle[h], r, log, torn \cap dropped)
    BY <2>1, Shape DEF Adjusted, NewHandle, Tip, Pending, Ready, Licit, SaveOps,
                       Certifies, IsCommand, RolledBack
  <2>3. QED
    BY <2>1, <2>2, Adjustment DEF Rollback
<1>2. CASE ~CanRollBack(StateAt(Tip))
  <2>1. PICK r : /\ r = [handle[h] EXCEPT !.view = Tip, !.cmd = NoCommand]
                 /\ Update(h, r)
    BY <1>2 DEF Rollback
  <2>2. Adjusted(handle[h], r, log, torn \cap dropped)
    BY <2>1, Shape DEF Adjusted, NewHandle, Tip, NoCommand, IsCommand, IdleOps
  <2>3. QED
    BY <2>1, <2>2, Adjustment DEF Rollback
<1>3. QED
  BY <1>1, <1>2

LEMMA AbandonKeeps ==
  ASSUME LifecycleInv, NEW h \in Runner, Abandon(h)
  PROVE  LifecycleInv' /\ StandsAside
<1> DEFINE s == StateAt(Tip)
           open == Valid(s) /\ s.attempt.phase \in {"created", "building", "caught_up"}
<1>1. CASE open
  <2>1. PICK r : /\ r = [handle[h] EXCEPT !.view = Tip,
                                          !.cmd = Pending("abandon", <<Abandoned>>)]
                 /\ Update(h, r)
    BY <1>1 DEF Abandon
  <2>2. Adjusted(handle[h], r, log, torn \cap dropped)
    BY <2>1, Shape DEF Adjusted, NewHandle, Tip, Pending, Ready, Licit, SaveOps,
                       Certifies, IsCommand, Abandoned
  <2>3. QED
    BY <2>1, <2>2, Adjustment DEF Abandon
<1>2. CASE ~open
  <2>1. PICK r : /\ r = [handle[h] EXCEPT !.view = Tip, !.cmd = NoCommand]
                 /\ Update(h, r)
    BY <1>2 DEF Abandon
  <2>2. Adjusted(handle[h], r, log, torn \cap dropped)
    BY <2>1, Shape DEF Adjusted, NewHandle, Tip, NoCommand, IsCommand, IdleOps
  <2>3. QED
    BY <2>1, <2>2, Adjustment DEF Abandon
<1>3. QED
  BY <1>1, <1>2

LEMMA ReconcileKeeps ==
  ASSUME LifecycleInv, NEW h \in Runner, NEW v, Reconcile(h, v)
  PROVE  LifecycleInv' /\ StandsAside
<1>1. v \in 0 .. Tip
  BY Shape DEF Reconcile
<1>2. handle[h].cmd = NoCommand
  BY DEF Reconcile, Unlocked
<1>3. CASE ~Valid(StateAt(v))
  <2>1. PICK x, r : /\ r = [TerminalStop(handle[h], "invalid") EXCEPT
                              !.cancel = TRUE, !.reconciling = FALSE]
                    /\ Update(h, r)
    BY <1>3 DEF Reconcile
  <2>2. Adjusted(handle[h], r, log, torn \cap dropped)
    BY <2>1, Shape DEF Adjusted, NewHandle, Tip, TerminalStop
  <2>3. QED
    BY <2>1, <2>2, Adjustment DEF Reconcile
<1>4. CASE Valid(StateAt(v))
  <2>1. PICK a, b, c, d, e, r :
          /\ r = [handle[h] EXCEPT !.view = v, !.stopped = a, !.failure = b,
                                   !.certificate = c, !.cancel = d, !.reconciling = e]
          /\ c \in {NoCertificate, handle[h].certificate}
          /\ Update(h, r)
    BY <1>4, Zenon DEF Reconcile
  <2>2. Adjusted(handle[h], r, log, torn \cap dropped)
    BY <1>1, <1>2, <2>1, Shape DEF Adjusted, NewHandle, Tip, NoCommand, IsCommand,
                                   IdleOps
  <2>3. QED
    BY <2>1, <2>2, Adjustment DEF Reconcile
<1>5. QED
  BY <1>3, <1>4

LEMMA ReconcileFailKeeps ==
  ASSUME LifecycleInv, NEW h \in Runner, ReconcileFail(h)
  PROVE  LifecycleInv' /\ StandsAside
<1>1. PICK r : /\ r = [TerminalStop(handle[h], "reconcile") EXCEPT
                         !.cancel = TRUE, !.reconciling = FALSE]
               /\ Update(h, r)
  BY DEF ReconcileFail
<1>2. Adjusted(handle[h], r, log, torn \cap dropped)
  BY <1>1, Shape DEF Adjusted, NewHandle, Tip, TerminalStop
<1>3. QED
  BY <1>1, <1>2, Adjustment DEF ReconcileFail

-----------------------------------------------------------------------------
(* Promotions and lost appends.                                             *)

\* A licence covers the version the promotion would follow.
LEMMA LicensedIsReady ==
  ASSUME LifecycleInv, NEW h \in Runner, CanPromote(h)
  PROVE  Ready(<<Promotion(h)>>, handle[h].view, log, torn \cap dropped)
<1>1. CertifiedIn(log, handle[h].view)
  BY Shape DEF CanPromote, Licensed, CertifiedVersion, SoundHandle
<1>2. Promotion(h).type = "Promoted"
  BY DEF Promotion, Promoted
<1>3. QED
  BY <1>1, <1>2 DEF Ready, Licit

LEMMA PromotionPends ==
  ASSUME LifecycleInv, NEW h \in Runner, CanPromote(h), NEW r,
         NEW op \in {"promote", "autopromote", "retry"},
         r = [handle[h] EXCEPT !.cmd = Pending(op, <<Promotion(h)>>)]
  PROVE  Adjusted(handle[h], r, log, torn \cap dropped)
<1>1. Ready(<<Promotion(h)>>, handle[h].view, log, torn \cap dropped)
  BY LicensedIsReady
<1>2. QED
  BY <1>1, Shape DEF Adjusted, NewHandle, Tip, Pending, IsCommand, SaveOps, Certifies

LEMMA RefusalAdjusts ==
  ASSUME LifecycleInv, NEW h \in Runner, NEW r,
         \/ r = PromotionRefused(h)
         \/ r = [PromotionRefused(h) EXCEPT !.stage = "winding", !.cancel = TRUE]
  PROVE  Adjusted(handle[h], r, log, torn \cap dropped)
<1>1. PICK q : q = PromotionRefused(h)
  OBVIOUS
<1>2. \/ q = handle[h]
      \/ q = [handle[h] EXCEPT !.certificate = NoCertificate]
  BY <1>1 DEF PromotionRefused
<1>3. \/ r = q
      \/ r = [q EXCEPT !.stage = "winding", !.cancel = TRUE]
  BY <1>1
<1>4. /\ DOMAIN q = DOMAIN NewHandle /\ q.cmd = handle[h].cmd
      /\ q.view = handle[h].view /\ q.slot = handle[h].slot
      /\ q.certificate \in {NoCertificate, handle[h].certificate}
  BY <1>2, Shape DEF NewHandle
<1>5. /\ DOMAIN r = DOMAIN NewHandle /\ r.cmd = q.cmd /\ r.view = q.view
      /\ r.slot = q.slot /\ r.certificate = q.certificate
  BY ONLY <1>3, <1>4 DEF NewHandle
<1>6. QED
  BY <1>4, <1>5, Shape DEF Adjusted, Tip

LEMMA PromoteKeeps ==
  ASSUME LifecycleInv, NEW h \in Runner, Promote(h)
  PROVE  LifecycleInv' /\ StandsAside
<1>1. PICK r : /\ \/ /\ CanPromote(h)
                     /\ r = [handle[h] EXCEPT
                               !.cmd = Pending("promote", <<Promotion(h)>>)]
                  \/ r = PromotionRefused(h)
               /\ Update(h, r)
  BY DEF Promote
<1>2. Adjusted(handle[h], r, log, torn \cap dropped)
  BY <1>1, PromotionPends, RefusalAdjusts, Zenon
<1>3. QED
  BY <1>1, <1>2, Adjustment DEF Promote

LEMMA PromoteAfterCatchUpKeeps ==
  ASSUME LifecycleInv, NEW h \in Runner, PromoteAfterCatchUp(h)
  PROVE  LifecycleInv' /\ StandsAside
<1>1. PICK r : /\ \/ /\ CanPromote(h)
                     /\ r = [handle[h] EXCEPT
                               !.cmd = Pending("autopromote", <<Promotion(h)>>)]
                  \/ r = [PromotionRefused(h) EXCEPT !.stage = "winding", !.cancel = TRUE]
               /\ Update(h, r)
  BY DEF PromoteAfterCatchUp
<1>2. Adjusted(handle[h], r, log, torn \cap dropped)
  BY <1>1, PromotionPends, RefusalAdjusts, Zenon
<1>3. QED
  BY <1>1, <1>2, Adjustment DEF PromoteAfterCatchUp

LEMMA ResolveRetryKeeps ==
  ASSUME LifecycleInv, NEW h \in Runner, ResolveRetry(h)
  PROVE  LifecycleInv' /\ StandsAside
<1>1. PICK r : /\ \/ /\ CanPromote(h)
                     /\ r = [handle[h] EXCEPT
                               !.cmd = Pending("retry", <<Promotion(h)>>)]
                  \/ r = PromotionRefused(h)
               /\ Update(h, r)
  BY DEF ResolveRetry
<1>2. Adjusted(handle[h], r, log, torn \cap dropped)
  BY <1>1, PromotionPends, RefusalAdjusts, Zenon
<1>3. QED
  BY <1>1, <1>2, Adjustment DEF ResolveRetry

\* With no command on its hands a handle may install any recorded version.
Installs(q, r) ==
  /\ DOMAIN r = DOMAIN NewHandle
  /\ r.cmd = q.cmd
  /\ r.view \in 0 .. Tip
  /\ r.slot \in {0, q.slot}
  /\ r.certificate \in {NoCertificate, q.certificate}

LEMMA InstallAdjusts ==
  ASSUME LifecycleInv, NEW h \in Runner, handle[h].cmd = NoCommand,
         NEW r, Installs(handle[h], r)
  PROVE  Adjusted(handle[h], r, log, torn \cap dropped)
BY Shape DEF Installs, Adjusted, Tip, NoCommand, IsCommand, IdleOps

LEMMA DefeatInstalls ==
  ASSUME LifecycleInv, NEW h \in Runner, NEW slot \in 0 .. Tip
  PROVE  Installs(handle[h], SlotDefeat(h, slot))
<1> DEFINE q == handle[h]
           s == StateAt(slot)
<1>1. PICK r : r = SlotDefeat(h, slot)
  OBVIOUS
<1>2. Installs(q, q)
  BY Shape DEF Installs
<1>3. CASE ~Valid(s)
  <2>1. PICK x : r = q \/ r = [q EXCEPT !.stopped = TRUE, !.failure = x,
                                        !.certificate = NoCertificate]
    BY <1>1, <1>3, Zenon DEF SlotDefeat, TerminalStop
  <2>2. QED
    BY <1>1, <1>2, <2>1 DEF Installs, NewHandle
<1>4. CASE Valid(s) /\ (q.commandEnded = q.runAttempt \/ q.stopped)
  <2>1. PICK x : r = q \/ r = [q EXCEPT !.failure = x]
    BY <1>1, <1>4 DEF SlotDefeat
  <2>2. QED
    BY <1>1, <1>2, <2>1 DEF Installs, NewHandle
<1>5. CASE Valid(s) /\ ~(q.commandEnded = q.runAttempt \/ q.stopped)
  <2>1. PICK v, x, y, c : /\ r = [q EXCEPT !.view = v, !.stopped = x, !.failure = y,
                                           !.certificate = c]
                          /\ v = MaxOf(q.view, slot)
                          /\ c \in {NoCertificate, q.certificate}
    BY <1>1, <1>5, Zenon DEF SlotDefeat
  <2>2. v \in 0 .. Tip
    BY <2>1, Shape DEF MaxOf
  <2>3. QED
    BY <1>1, <1>2, <2>1, <2>2 DEF Installs, NewHandle
<1>6. QED
  BY <1>3, <1>4, <1>5

LEMMA ResolveHaltKeeps ==
  ASSUME LifecycleInv, NEW h \in Runner, ResolveHalt(h)
  PROVE  LifecycleInv' /\ StandsAside
<1>1. PICK slot \in {0, handle[h].slot} :
        \E r : /\ r = [handle[h] EXCEPT !.stage = "winding", !.cancel = TRUE, !.slot = slot]
              /\ Update(h, r)
  BY DEF ResolveHalt, Winding
<1>2. PICK r : /\ r = [handle[h] EXCEPT !.stage = "winding", !.cancel = TRUE, !.slot = slot]
               /\ Update(h, r)
  BY <1>1
<1>3. Adjusted(handle[h], r, log, torn \cap dropped)
  BY <1>1, <1>2, Shape DEF Adjusted, NewHandle, Tip
<1>4. QED
  BY <1>2, <1>3, Adjustment DEF ResolveHalt

LEMMA ResolveSlotKeeps ==
  ASSUME LifecycleInv, NEW h \in Runner, ResolveSlot(h)
  PROVE  LifecycleInv' /\ StandsAside
<1> DEFINE slot == handle[h].slot
           s == StateAt(slot)
<1>1. slot \in 0 .. Tip /\ handle[h].cmd = NoCommand
  <2>1. Tip >= slot /\ handle[h].cmd = NoCommand
    BY Zenon DEF ResolveSlot, Open, Unlocked
  <2>2. slot \in Nat /\ Tip \in Nat
    BY Shape
  <2>3. QED
    BY <2>1, <2>2
<1>2. CASE Valid(s) /\ ~Ended(h, s) /\ s.attempt.phase = "promoted"
  <2>1. PICK v \in (slot .. Tip) \cup {0} :
          \E r : /\ r = [handle[h] EXCEPT !.view = MaxOf(@, v),
                                          !.certificate = NoCertificate,
                                          !.stage = "tailing"]
                /\ Update(h, r)
    BY <1>2, Zenon DEF ResolveSlot
  <2>2. PICK r : /\ r = [handle[h] EXCEPT !.view = MaxOf(@, v),
                                          !.certificate = NoCertificate,
                                          !.stage = "tailing"]
                 /\ Update(h, r)
    BY <2>1
  <2>3. MaxOf(handle[h].view, v) \in 0 .. Tip
    BY <1>1, <2>1, Shape DEF MaxOf
  <2>4. Installs(handle[h], r)
    BY <2>2, <2>3, Shape DEF Installs, NewHandle
  <2>5. QED
    BY <1>1, <2>2, <2>4, InstallAdjusts, Adjustment, Zenon DEF ResolveSlot
<1>3. CASE ~(Valid(s) /\ ~Ended(h, s) /\ s.attempt.phase = "promoted")
  <2>1. PICK q, r : /\ q = SlotDefeat(h, slot)
                    /\ r = [q EXCEPT !.stage = "winding", !.cancel = TRUE, !.slot = 0]
                    /\ Update(h, r)
    BY <1>3, Zenon DEF ResolveSlot, Winding
  <2>2. Installs(handle[h], q)
    BY <1>1, <2>1, DefeatInstalls
  <2>3. Installs(handle[h], r)
    BY <2>1, <2>2 DEF Installs, NewHandle
  <2>4. QED
    BY <1>1, <2>1, <2>3, InstallAdjusts, Adjustment, Zenon DEF ResolveSlot
<1>4. QED
  BY <1>2, <1>3

LEMMA WoundKeeps ==
  ASSUME LifecycleInv, NEW h \in Runner, Wound(h)
  PROVE  LifecycleInv' /\ StandsAside
<1>1. handle[h].cmd = NoCommand
  BY DEF Wound, Open, Unlocked
<1>2. PICK q, r : /\ \/ q = handle[h]
                     \/ handle[h].slot \in 1 .. Tip /\ q = SlotDefeat(h, handle[h].slot)
                  /\ r = [q EXCEPT !.stage = "closing"]
                  /\ Update(h, r)
  BY DEF Wound
<1>3. Installs(handle[h], handle[h])
  BY Shape DEF Installs
<1>4. Installs(handle[h], q)
  BY <1>2, <1>3, DefeatInstalls
<1>5. Installs(handle[h], r)
  BY <1>2, <1>4 DEF Installs, NewHandle
<1>6. QED
  BY <1>1, <1>2, <1>5, InstallAdjusts, Adjustment DEF Wound

-----------------------------------------------------------------------------
(* Retire.                                                                  *)

\* A retirement on its way to the teardown, of the state its view shows.
LEMMA RetiringIsSound ==
  ASSUME LifecycleInv, NEW h \in Runner, NEW v \in 0 .. Tip,
         NEW op \in {"preflight", "recheck", "teardown"}, NEW evs, NEW todo, NEW r,
         Retiring(evs, StateAt(v)),
         r = [handle[h] EXCEPT !.view = v, !.cmd = [op |-> op, evs |-> evs, todo |-> todo]]
  PROVE  SoundHandle(r, log, torn, dropped)
<1>1. op \in RetireOps /\ op \notin SaveOps /\ op # "drop"
  BY DEF RetireOps, SaveOps
<1>2. /\ r.cmd = [op |-> op, evs |-> evs, todo |-> todo]
      /\ r.view = v /\ r.slot = handle[h].slot /\ r.certificate = handle[h].certificate
      /\ DOMAIN r = DOMAIN NewHandle
  BY Shape DEF NewHandle
<1>3. StateIn(log, v) = StateAt(v)
  BY DEF StateIn, StateAt
<1>4. QED
  BY <1>1, <1>2, <1>3, Shape DEF SoundHandle, IsCommand, Tip

\* What Retire records is what it tears down.
LEMMA RetireEventRetires ==
  ASSUME NEW s, NEW override, s.attempt.previous # 0 \/ s.attempt.phase = "retiring"
  PROVE  Retiring(<<RetireEvent(s, override)>>, s)
<1>1. CASE s.attempt.previous = 0
  <2>1. PICK x : RetireEvent(s, override) = PreviousRetired(0, x)
    BY <1>1 DEF RetireEvent
  <2>2. QED
    BY <1>1, <2>1 DEF Retiring, PreviousRetired, NeedsReservation, RetiredVersion
<1>2. CASE s.attempt.previous # 0 /\ s.attempt.phase = "retiring"
  <2>1. PICK x : RetireEvent(s, override) = PreviousRetired(s.attempt.previous, x)
    BY <1>2 DEF RetireEvent
  <2>2. QED
    BY <1>2, <2>1 DEF Retiring, PreviousRetired, NeedsReservation, RetiredVersion
<1>3. CASE s.attempt.previous # 0 /\ s.attempt.phase # "retiring"
  <2>1. PICK a, b, c, d, e : RetireEvent(s, override) = RetireStarted(a, b, c, d, e)
    BY <1>3 DEF RetireEvent
  <2>2. QED
    BY <2>1 DEF Retiring, RetireStarted
<1>4. QED
  BY <1>1, <1>2, <1>3

LEMMA RetireKeeps ==
  ASSUME LifecycleInv, NEW h \in Runner, NEW override, Retire(h, override)
  PROVE  LifecycleInv'
<1> DEFINE s == StateAt(Tip)
<1>1. Tip \in 0 .. Tip
  BY Shape
<1>2. PICK evs, todo, refused, r :
        /\ evs = <<RetireEvent(s, override)>>
        /\ r = [handle[h] EXCEPT
                  !.view = Tip,
                  !.cmd = IF refused THEN NoCommand
                          ELSE [op   |-> IF s.attempt.previous = 0 THEN "complete"
                                         ELSE "preflight",
                                evs  |-> evs, todo |-> todo]]
        /\ Update(h, r)
  BY Zenon DEF Retire
<1>3. CASE refused
  <2>1. r = [handle[h] EXCEPT !.view = Tip, !.cmd = NoCommand]
    BY <1>2, <1>3
  <2>2. Adjusted(handle[h], r, log, torn \cap dropped)
    BY <2>1, Shape DEF Adjusted, NewHandle, Tip, NoCommand, IsCommand, IdleOps
  <2>3. QED
    BY <1>2, <2>2, Adjustment DEF Retire
<1>4. CASE ~refused /\ s.attempt.previous = 0
  <2>1. r = [handle[h] EXCEPT !.view = Tip,
                              !.cmd = [op |-> "complete", evs |-> evs, todo |-> todo]]
    BY <1>2, <1>4
  <2>2. PICK x : RetireEvent(s, override) = PreviousRetired(0, x)
    BY <1>4 DEF RetireEvent
  <2>3. Ready(evs, Tip, log, torn \cap dropped)
    BY <1>2, <2>2 DEF Ready, Licit, PreviousRetired
  <2>4. Adjusted(handle[h], r, log, torn \cap dropped)
    BY <2>1, <2>3, Shape DEF Adjusted, NewHandle, Tip, IsCommand, SaveOps, Certifies
  <2>5. QED
    BY <1>2, <2>4, Adjustment DEF Retire
<1>5. CASE ~refused /\ s.attempt.previous # 0
  <2>1. r = [handle[h] EXCEPT !.view = Tip,
                              !.cmd = [op |-> "preflight", evs |-> evs, todo |-> todo]]
    BY <1>2, <1>5
  <2>2. Retiring(evs, s)
    BY <1>2, <1>5, RetireEventRetires
  <2>3. SoundHandle(r, log, torn, dropped)
    BY <1>1, <2>1, <2>2, RetiringIsSound, Zenon
  <2>4. QED
    BY <1>2, <2>3, HandleStep DEF Retire
<1>6. QED
  BY <1>3, <1>4, <1>5

LEMMA AbortKeeps ==
  ASSUME LifecycleInv, NEW h \in Runner, AbortRetire(h),
         UNCHANGED <<log, inflight, applied, torn, dropped>>
  PROVE  LifecycleInv' /\ StandsAside
<1>1. PICK r : r = [handle[h] EXCEPT !.cmd = NoCommand] /\ Update(h, r)
  BY DEF AbortRetire
<1>2. Adjusted(handle[h], r, log, torn \cap dropped)
  BY <1>1, Shape DEF Adjusted, NewHandle, Tip, NoCommand, IsCommand, IdleOps
<1>3. QED
  BY <1>1, <1>2, Adjustment

LEMMA AttestKeeps ==
  ASSUME LifecycleInv, NEW h \in Runner, NEW w, Attest(h, w)
  PROVE  LifecycleInv'
<1>1. CASE AbortRetire(h)
  BY <1>1, AbortKeeps DEF Attest
<1>2. CASE ~AbortRetire(h)
  <2>1. PICK todo, r : r = [handle[h] EXCEPT !.cmd.todo = todo] /\ Update(h, r)
    BY <1>2 DEF Attest
  <2>2. PICK op : op = handle[h].cmd.op
    OBVIOUS
  <2>3. op \in {"preflight", "recheck"}
    BY <2>2 DEF Attest
  <2>4. Retiring(handle[h].cmd.evs, StateAt(handle[h].view))
    BY <2>2, <2>3, Shape DEF SoundHandle, RetireOps, StateIn, StateAt
  <2>5. r.cmd = [op |-> op, evs |-> handle[h].cmd.evs, todo |-> todo]
    BY <2>1, <2>2, Shape DEF IsCommand, NewHandle
  <2>6. r = [handle[h] EXCEPT !.view = handle[h].view,
               !.cmd = [op |-> op, evs |-> handle[h].cmd.evs, todo |-> todo]]
    BY <2>1, <2>5, Shape DEF NewHandle
  <2>7. SoundHandle(r, log, torn, dropped)
    BY <2>3, <2>4, <2>6, Shape, RetiringIsSound, Zenon
  <2>8. QED
    BY <2>1, <2>7, HandleStep DEF Attest
<1>3. QED
  BY <1>1, <1>2

LEMMA AttestedKeeps ==
  ASSUME LifecycleInv, NEW h \in Runner, Attested(h)
  PROVE  LifecycleInv'
<1> DEFINE v == handle[h].view
           c == handle[h].cmd
<1>1. Retiring(c.evs, StateAt(v))
  BY Shape DEF Attested, SoundHandle, RetireOps, StateIn, StateAt
<1>2. CASE NeedsReservation(View(h))
  <2>1. PICK r : r = [handle[h] EXCEPT !.cmd.op = "reserve"] /\ Update(h, r)
    BY <1>2 DEF Attested
  <2>2. r.cmd = [op |-> "reserve", evs |-> c.evs, todo |-> c.todo]
    BY <2>1, Shape DEF IsCommand, NewHandle
  <2>3. Ready(c.evs, v, log, torn \cap dropped)
    BY <1>1, <1>2 DEF Retiring, View, Ready, Licit
  <2>4. Adjusted(handle[h], r, log, torn \cap dropped)
    BY <2>1, <2>2, <2>3, Shape DEF Adjusted, NewHandle, Tip, IsCommand, SaveOps,
                                   Certifies
  <2>5. QED
    BY <2>1, <2>4, Adjustment DEF Attested
<1>3. CASE ~NeedsReservation(View(h))
  <2>1. PICK r : r = [handle[h] EXCEPT !.cmd.op = "teardown"] /\ Update(h, r)
    BY <1>3 DEF Attested
  <2>2. r.cmd = [op |-> "teardown", evs |-> c.evs, todo |-> c.todo]
    BY <2>1, Shape DEF IsCommand, NewHandle
  <2>3. r = [handle[h] EXCEPT !.view = v,
               !.cmd = [op |-> "teardown", evs |-> c.evs, todo |-> c.todo]]
    BY <2>1, <2>2, Shape DEF NewHandle
  <2>4. SoundHandle(r, log, torn, dropped)
    BY <1>1, <2>3, Shape, RetiringIsSound, Zenon
  <2>5. QED
    BY <2>1, <2>4, HandleStep DEF Attested
<1>4. QED
  BY <1>2, <1>3

LEMMA ReattestKeeps ==
  ASSUME LifecycleInv, NEW h \in Runner, Reattest(h)
  PROVE  LifecycleInv'
<1> DEFINE s == StateAt(Tip)
           goes == /\ Valid(s) /\ s.attempt.phase = "retiring"
                   /\ s.attempt.previous = handle[h].cmd.evs[1].retiring
<1>1. CASE AbortRetire(h)
  BY <1>1, AbortKeeps DEF Reattest
<1>2. CASE ~AbortRetire(h) /\ ~goes
  <2>1. PICK r : r = [handle[h] EXCEPT !.view = Tip, !.cmd = NoCommand] /\ Update(h, r)
    BY <1>2 DEF Reattest
  <2>2. Adjusted(handle[h], r, log, torn \cap dropped)
    BY <2>1, Shape DEF Adjusted, NewHandle, Tip, NoCommand, IsCommand, IdleOps
  <2>3. QED
    BY <2>1, <2>2, Adjustment DEF Reattest
<1>3. CASE ~AbortRetire(h) /\ goes
  <2>1. PICK evs, todo, r :
          /\ evs = <<RetireEvent(s, FALSE)>>
          /\ r = [handle[h] EXCEPT !.view = Tip,
                                   !.cmd = [op |-> "recheck", evs |-> evs, todo |-> todo]]
          /\ Update(h, r)
    BY <1>3, Zenon DEF Reattest
  <2>2. Retiring(evs, s)
    BY <1>3, <2>1, RetireEventRetires
  <2>3. Tip \in 0 .. Tip
    BY Shape
  <2>4. SoundHandle(r, log, torn, dropped)
    BY <2>1, <2>2, <2>3, RetiringIsSound, Zenon
  <2>5. QED
    BY <2>1, <2>4, HandleStep DEF Reattest
<1>4. QED
  BY <1>1, <1>2, <1>3

-----------------------------------------------------------------------------
(* Destruction, and a crash in the middle of it.                            *)

\* A step that leaves the stream alone and destroys, checkpoint after storage.
LEMMA Destruction ==
  ASSUME LifecycleInv, NEW h \in Runner, NEW r, Update(h, r),
         UNCHANGED log, torn \subseteq torn', dropped \subseteq dropped', dropped' \subseteq torn',
         SoundHandle(r, log, torn', dropped'),
         \A evs \in inflight' : Ready(evs, Tip, log, torn' \cap dropped')
  PROVE  LifecycleInv'
<1>1. DOMAIN handle' = Runner
  BY DEF LifecycleInv, Update
<1>2. Extends(log, log)
  BY Shape DEF Extends, Tip
<1>3. ASSUME NEW g \in Runner
      PROVE  SoundHandle(handle'[g], log', torn', dropped')
  <2>1. SoundHandle(handle[g], log, torn', dropped')
    BY <1>2, SoundLater DEF LifecycleInv
  <2>2. QED
    BY <2>1 DEF LifecycleInv, Update
<1>4. LogOK' /\ PromotionIsCertified' /\ Tip' = Tip
  BY DEF LifecycleInv, LogOK, PromotionIsCertified, Tip
<1>5. RetiredIsGone'
  BY DEF LifecycleInv, RetiredIsGone, Event, Tip
<1>6. QED
  BY <1>1, <1>3, <1>4, <1>5 DEF LifecycleInv

\* What may still land stays ready while more is destroyed.
LEMMA InflightStaysReady ==
  ASSUME LifecycleInv, torn \subseteq torn', dropped \subseteq dropped'
  PROVE  \A evs \in inflight : Ready(evs, Tip, log, torn' \cap dropped')
<1>1. Extends(log, log)
  BY DEF LifecycleInv, LogOK, Extends
<1>2. torn \cap dropped \subseteq torn' \cap dropped'
  OBVIOUS
<1>3. QED
  BY <1>1, <1>2, ReadyLater DEF LifecycleInv

LEMMA TeardownKeeps ==
  ASSUME LifecycleInv, NEW h \in Runner, Teardown(h)
  PROVE  LifecycleInv'
<1> DEFINE v == handle[h].view
           c == handle[h].cmd
<1>1. /\ torn' = torn \cup {RetiredVersion(View(h))}
      /\ UNCHANGED <<log, inflight, dropped>>
  BY DEF Teardown
<1>2. dropped' \subseteq torn' /\ torn \subseteq torn' /\ dropped \subseteq dropped'
  BY <1>1 DEF LifecycleInv, RetiredIsGone
<1>3. \A evs \in inflight' : Ready(evs, Tip, log, torn' \cap dropped')
  BY <1>1, <1>2, InflightStaysReady
<1>4. SoundHandle(handle[h], log, torn', dropped')
  <2>1. Extends(log, log)
    BY Shape DEF Extends, Tip
  <2>2. QED
    BY <1>2, <2>1, Shape, SoundLater
<1>5. CASE AbortRetire(h)
  <2>1. PICK r : r = [handle[h] EXCEPT !.cmd = NoCommand] /\ Update(h, r)
    BY <1>5 DEF AbortRetire
  <2>2. Adjusted(handle[h], r, log, torn' \cap dropped')
    BY <2>1, Shape DEF Adjusted, NewHandle, Tip, NoCommand, IsCommand, IdleOps
  <2>3. SoundHandle(r, log, torn', dropped')
    BY <1>4, <2>2, AdjustedIsSound
  <2>4. QED
    BY <1>1, <1>2, <1>3, <2>1, <2>3, Destruction
<1>6. CASE ~AbortRetire(h)
  <2>1. PICK r : r = [handle[h] EXCEPT !.cmd.op = "drop"] /\ Update(h, r)
    BY <1>6 DEF Teardown
  <2>2. r.cmd = [op |-> "drop", evs |-> c.evs, todo |-> c.todo]
    BY <2>1, Shape DEF IsCommand, NewHandle
  <2>3. Retiring(c.evs, StateIn(log, v)) /\ c.op = "teardown"
    BY Shape DEF Teardown, SoundHandle, RetireOps
  <2>4. StateIn(log, v) = View(h)
    BY DEF StateIn, View, StateAt
  <2>5. /\ DOMAIN r = DOMAIN NewHandle /\ r.view = v /\ r.slot = handle[h].slot
        /\ r.certificate = handle[h].certificate
    BY <2>1, Shape DEF NewHandle
  <2>6. "drop" \in RetireOps /\ "drop" \notin SaveOps
    BY DEF RetireOps, SaveOps
  <2>7. SoundHandle(r, log, torn', dropped')
    BY <1>1, <1>4, <2>2, <2>3, <2>4, <2>5, <2>6 DEF SoundHandle, IsCommand
  <2>8. QED
    BY <1>1, <1>2, <1>3, <2>1, <2>7, Destruction
<1>7. QED
  BY <1>5, <1>6

LEMMA DropCheckpointKeeps ==
  ASSUME LifecycleInv, NEW h \in Runner, DropCheckpoint(h)
  PROVE  LifecycleInv'
<1> DEFINE v == handle[h].view
           c == handle[h].cmd
<1>1. CASE AbortRetire(h) /\ UNCHANGED dropped
  BY <1>1, AbortKeeps DEF DropCheckpoint
<1>2. CASE ~(AbortRetire(h) /\ UNCHANGED dropped)
  <2>1. PICK r : r = [handle[h] EXCEPT !.cmd.op = "complete"] /\ Update(h, r)
    BY <1>2 DEF DropCheckpoint
  <2>2. /\ dropped' = dropped \cup {RetiredVersion(View(h))}
        /\ UNCHANGED <<log, inflight, torn>> /\ c.op = "drop"
    BY <1>2 DEF DropCheckpoint
  <2>3. r.cmd = [op |-> "complete", evs |-> c.evs, todo |-> c.todo]
    BY <2>1, Shape DEF IsCommand, NewHandle
  <2>4. /\ DOMAIN r = DOMAIN NewHandle /\ r.view = v /\ r.slot = handle[h].slot
        /\ r.certificate = handle[h].certificate
    BY <2>1, Shape DEF NewHandle
  <2>5. View(h) = StateIn(log, v)
    BY DEF StateIn, View, StateAt
  <2>6. Retiring(c.evs, View(h)) /\ RetiredVersion(View(h)) \in torn
    BY <2>2, <2>5, Shape DEF SoundHandle, RetireOps
  <2>7. dropped' \subseteq torn' /\ torn \subseteq torn' /\ dropped \subseteq dropped'
    BY <2>2, <2>6 DEF LifecycleInv, RetiredIsGone
  <2>8. Ready(c.evs, v, log, torn' \cap dropped')
    BY <2>2, <2>6 DEF Retiring, Ready, Licit
  <2>9. "complete" \in SaveOps /\ "complete" \notin RetireOps
    BY DEF SaveOps, RetireOps
  <2>10. SoundHandle(r, log, torn', dropped')
    BY <2>3, <2>4, <2>8, <2>9, Shape DEF SoundHandle, IsCommand, Certifies, Tip
  <2>11. \A evs \in inflight' : Ready(evs, Tip, log, torn' \cap dropped')
    BY <2>2, <2>7, InflightStaysReady
  <2>12. QED
    BY <2>1, <2>2, <2>7, <2>10, <2>11, Destruction
<1>3. QED
  BY <1>1, <1>2

LEMMA CrashKeeps ==
  ASSUME LifecycleInv, NEW h \in Runner, Crash(h)
  PROVE  LifecycleInv'
<1> DEFINE c == handle[h].cmd
<1>1. PICK r : r = [NewHandle EXCEPT !.alive = "gone"] /\ Update(h, r)
  BY DEF Crash
<1>2. UNCHANGED <<log, dropped>> /\ torn \subseteq torn'
  BY DEF Crash
<1>3. dropped' \subseteq torn' /\ dropped \subseteq dropped'
  BY <1>2 DEF LifecycleInv, RetiredIsGone
<1>4. SoundHandle(r, log, torn', dropped')
  BY <1>1, Shape, NewIsSound DEF Tip
<1>5. \A evs \in inflight : Ready(evs, Tip, log, torn' \cap dropped')
  BY <1>2, <1>3, InflightStaysReady
<1>6. \A evs \in inflight' : Ready(evs, Tip, log, torn' \cap dropped')
  <2>1. CASE UNCHANGED inflight
    BY <1>5, <2>1
  <2>2. CASE /\ inflight' = inflight \cup {c.evs} /\ UNCHANGED torn
             /\ c.op \in SaveOps /\ Unmoved(h)
    <3>1. Ready(c.evs, Tip, log, torn \cap dropped)
      BY <2>2, Shape DEF SoundHandle, Unmoved
    <3>2. QED
      BY <1>2, <1>5, <2>2, <3>1
  <2>3. QED
    BY <2>1, <2>2 DEF Crash
<1>7. QED
  BY <1>1, <1>2, <1>3, <1>4, <1>6, Destruction

-----------------------------------------------------------------------------
(* Appends.                                                                 *)

\* A sequence is one over its own elements.
\* The promotions of the stream stay certified in any extension of it.
LEMMA CertifiedBefore ==
  ASSUME LifecycleInv, NEW l, \A i \in 1 .. Tip : l[i] = log[i],
         NEW i \in 1 .. Tip, l[i].event.type = "Promoted"
  PROVE  i > 1 /\ l[i - 1].event.type = "CaughtUp"
<1>1. log[i].event.type = "Promoted" /\ Tip \in Nat
  BY DEF LifecycleInv, LogOK, Tip
<1>2. i > 1 /\ log[i - 1].event.type = "CaughtUp"
  BY <1>1 DEF LifecycleInv, PromotionIsCertified
<1>3. i - 1 \in 1 .. Tip
  BY <1>1, <1>2
<1>4. QED
  BY <1>2, <1>3

\* Ready events appended at the tip extend the stream and harm nothing in it.
LEMMA Appends ==
  ASSUME LifecycleInv, NEW evs, Ready(evs, Tip, log, torn \cap dropped),
         log' = Recorded(evs), UNCHANGED <<torn, dropped>>
  PROVE  /\ Extends(log, log')
         /\ Tip' = Tip + Len(evs) /\ Len(evs) \in {1, 2}
         /\ log'[Tip + 1].event = evs[1]
         /\ LogOK' /\ PromotionIsCertified' /\ RetiredIsGone'
<1> DEFINE S == {log[i] : i \in 1 .. Tip}
<1>1. log \in Seq(S) /\ Tip \in Nat /\ Tip = Len(log)
  BY DEF LifecycleInv, LogOK, Tip
<1>2. PICK first, second :
        /\ first.event = evs[1] /\ second.event = evs[2]
        /\ log' = IF Len(evs) = 1 THEN log \o <<first>> ELSE log \o <<first, second>>
  <2> DEFINE one == [event |-> evs[1], state |-> ApplyTo(evs[1], StateAt(Tip))]
             two == [event |-> evs[2], state |-> ApplyTo(evs[2], one.state)]
  <2>1. log' = IF Len(evs) = 1 THEN log \o <<one>> ELSE log \o <<one, two>>
    BY DEF Recorded
  <2>2. one.event = evs[1] /\ two.event = evs[2]
    OBVIOUS
  <2> HIDE DEF one, two
  <2>3. QED
    BY <2>1, <2>2
<1>3. log \in Seq(S \cup {first, second})
  BY <1>1
<1>4. log' \in Seq(S \cup {first, second}) => LogOK'
  BY OwnElements DEF LogOK, Tip
<1>5. CASE evs = <<evs[1]>> /\ Licit(evs[1], Tip, log, torn \cap dropped)
  <2>1. Len(evs) = 1
    BY <1>5
  <2>2. log' = log \o <<first>> /\ log' \in Seq(S \cup {first, second})
    BY <1>2, <1>3, <2>1
  <2>3. /\ Len(log') = Tip + 1 /\ log'[Tip + 1] = first
        /\ \A i \in 1 .. Tip : log'[i] = log[i]
    BY <1>1, <2>2
  <2>4. LogOK'
    BY <1>4, <2>2
  <2>5. PromotionIsCertified'
    <3>1. ASSUME NEW i \in 1 .. Tip + 1, log'[i].event.type = "Promoted"
          PROVE  i > 1 /\ log'[i - 1].event.type = "CaughtUp"
      <4>1. CASE i \in 1 .. Tip
        BY <2>3, <3>1, <4>1, CertifiedBefore
      <4>2. CASE i = Tip + 1
        <5>1. CertifiedIn(log, Tip)
          BY <1>2, <1>5, <2>3, <3>1, <4>2 DEF Licit
        <5>2. QED
          BY <1>1, <2>3, <4>2, <5>1 DEF CertifiedIn
      <4>3. QED
        BY <1>1, <4>1, <4>2
    <3>2. QED
      BY <2>3, <3>1 DEF PromotionIsCertified, Tip
  <2>6. RetiredIsGone'
    <3>1. ASSUME NEW i \in 1 .. Tip + 1, log'[i].event.type = "PreviousRetired",
                 log'[i].event.retired # 0
          PROVE  log'[i].event.retired \in torn \cap dropped
      <4>1. CASE i \in 1 .. Tip
        BY <1>1, <2>3, <3>1, <4>1 DEF LifecycleInv, RetiredIsGone, Event
      <4>2. CASE i = Tip + 1
        BY <1>2, <1>5, <2>3, <3>1, <4>2 DEF Licit
      <4>3. QED
        BY <1>1, <4>1, <4>2
    <3>2. QED
      BY <2>3, <3>1 DEF LifecycleInv, RetiredIsGone, Event, Tip
  <2>7. QED
    BY <1>1, <1>2, <2>1, <2>3, <2>4, <2>5, <2>6 DEF Extends, Tip
<1>6. CASE /\ evs = <<evs[1], evs[2]>>
           /\ evs[1].type \notin {"Promoted", "PreviousRetired"}
           /\ evs[2].type \notin {"Promoted", "PreviousRetired"}
  <2>1. Len(evs) = 2
    BY <1>6
  <2>2. log' = log \o <<first, second>> /\ log' \in Seq(S \cup {first, second})
    BY <1>2, <1>3, <2>1
  <2>3. /\ Len(log') = Tip + 2 /\ log'[Tip + 1] = first /\ log'[Tip + 2] = second
        /\ \A i \in 1 .. Tip : log'[i] = log[i]
    BY <1>1, <2>2
  <2>4. LogOK'
    BY <1>4, <2>2
  <2>5. \A i \in 1 .. Tip + 2 : i \in 1 .. Tip \/ i = Tip + 1 \/ i = Tip + 2
    BY <1>1
  <2>6. PromotionIsCertified'
    <3>1. ASSUME NEW i \in 1 .. Tip + 2, log'[i].event.type = "Promoted"
          PROVE  i > 1 /\ log'[i - 1].event.type = "CaughtUp"
      <4>1. i \in 1 .. Tip
        BY <1>2, <1>6, <2>3, <2>5, <3>1
      <4>2. QED
        BY <2>3, <3>1, <4>1, CertifiedBefore
    <3>2. QED
      BY <2>3, <3>1 DEF PromotionIsCertified, Tip
  <2>7. RetiredIsGone'
    <3>1. ASSUME NEW i \in 1 .. Tip + 2, log'[i].event.type = "PreviousRetired",
                 log'[i].event.retired # 0
          PROVE  log'[i].event.retired \in torn \cap dropped
      <4>1. i \in 1 .. Tip
        BY <1>2, <1>6, <2>3, <2>5, <3>1
      <4>2. QED
        BY <1>1, <2>3, <3>1, <4>1 DEF LifecycleInv, RetiredIsGone, Event
    <3>2. QED
      BY <2>3, <3>1 DEF LifecycleInv, RetiredIsGone, Event, Tip
  <2>8. QED
    BY <1>1, <1>2, <2>1, <2>3, <2>4, <2>6, <2>7 DEF Extends, Tip
<1>7. QED
  BY <1>5, <1>6 DEF Ready

-----------------------------------------------------------------------------
(* Saves.                                                                   *)

\* A record with no events to save that does not run ahead of the stream.
Settled(r, l) ==
  /\ DOMAIN r = DOMAIN NewHandle
  /\ IsCommand(r.cmd) /\ r.cmd.op \in IdleOps
  /\ r.view \in 0 .. Len(l)
  /\ r.slot \in Nat
  /\ r.certificate = NoCertificate \/ CertifiedIn(l, r.certificate.version)

LEMMA SettledIsSound ==
  ASSUME NEW r, NEW l, NEW t, NEW d, Settled(r, l)
  PROVE  SoundHandle(r, l, t, d)
BY OpsDisjoint DEF Settled, SoundHandle, IdleOps

LEMMA NewIsSettled ==
  ASSUME NEW l, Len(l) \in Nat
  PROVE  Settled(NewHandle, l)
BY DEF Settled, NewHandle, NoCommand, IsCommand, IdleOps

\* What the stream records stays right while nothing is recorded or destroyed.
LEMMA StreamStays ==
  ASSUME LifecycleInv, UNCHANGED <<log, torn, dropped>>
  PROVE  LogOK' /\ PromotionIsCertified' /\ RetiredIsGone'
<1>1. Tip' = Tip
  BY DEF Tip
<1>2. LogOK'
  BY DEF LifecycleInv, LogOK, Tip
<1>3. PromotionIsCertified'
  BY <1>1 DEF LifecycleInv, PromotionIsCertified
<1>4. RetiredIsGone'
  BY <1>1 DEF LifecycleInv, RetiredIsGone, Event
<1>5. QED
  BY <1>2, <1>3, <1>4

\* What a save does to the stream, whatever it answers.
LEMMA SaveFacts ==
  ASSUME LifecycleInv, NEW h \in Runner, NEW op \in SaveOps,
         NEW outcome, Saves(h, op, outcome)
  PROVE  /\ Extends(log, log') /\ Tip' = Len(log')
         /\ LogOK' /\ PromotionIsCertified' /\ RetiredIsGone'
         /\ \A evs \in inflight' : Ready(evs, Tip', log', torn' \cap dropped')
         /\ UNCHANGED <<torn, dropped>>
         /\ outcome = "ok" =>
              /\ Tip' = handle[h].view + Len(handle[h].cmd.evs)
              /\ Len(handle[h].cmd.evs) \in {1, 2}
              /\ log'[handle[h].view + 1].event = handle[h].cmd.evs[1]
         /\ outcome = "mismatch" => UNCHANGED log /\ handle[h].view < Tip
<1> DEFINE evs == handle[h].cmd.evs
           v == handle[h].view
<1>1. Ready(evs, v, log, torn \cap dropped)
  BY Shape DEF Saves, SoundHandle
<1>2. v \in 0 .. Tip /\ Tip \in Nat /\ Tip' = Len(log') /\ UNCHANGED <<torn, dropped>>
  BY Shape DEF Saves, Tip
<1>3. CASE /\ outcome \in {"ok"} \cup (Faults \cap {"appended"})
           /\ Tip = v /\ log' = Recorded(evs) /\ inflight' = {}
  <2>1. /\ Extends(log, log')
        /\ Tip' = Tip + Len(evs) /\ Len(evs) \in {1, 2}
        /\ log'[Tip + 1].event = evs[1]
        /\ LogOK' /\ PromotionIsCertified' /\ RetiredIsGone'
    BY <1>1, <1>2, <1>3, Appends
  <2>2. QED
    BY <1>2, <1>3, <2>1
<1>4. CASE UNCHANGED log /\ outcome # "ok" /\ (outcome = "mismatch" => Tip # v)
           /\ inflight' \subseteq inflight \cup (IF Tip = v THEN {evs} ELSE {})
  <2>1. Extends(log, log') /\ Tip' = Tip
    BY <1>2, <1>4 DEF Extends, Tip
  <2>2. LogOK' /\ PromotionIsCertified' /\ RetiredIsGone'
    BY <1>2, <1>4, StreamStays
  <2>3. \A e \in inflight' : Ready(e, Tip, log, torn \cap dropped)
    BY <1>1, <1>4 DEF LifecycleInv
  <2>4. \A e \in inflight' : Ready(e, Tip', log', torn' \cap dropped')
    BY <1>2, <1>4, <2>1, <2>3
  <2>5. outcome = "mismatch" => UNCHANGED log /\ v < Tip
    BY <1>2, <1>4
  <2>6. QED
    BY <1>2, <1>4, <2>1, <2>2, <2>4, <2>5
<1>5. QED
  BY <1>3, <1>4 DEF Saves, Unmoved

\* A save keeps the invariant if the record it leaves is settled.
LEMMA SaveStep ==
  ASSUME LifecycleInv, NEW h \in Runner, NEW op \in SaveOps,
         NEW outcome, Saves(h, op, outcome),
         NEW r, Update(h, r), Settled(r, log')
  PROVE  LifecycleInv' /\ StandsAside
<1>1. DOMAIN handle' = Runner
  BY DEF LifecycleInv, Update
<1>2. ASSUME NEW g \in Runner
      PROVE  SoundHandle(handle'[g], log', torn', dropped')
  <2>1. SoundHandle(handle[g], log', torn', dropped')
    BY SaveFacts, SoundLater DEF LifecycleInv
  <2>2. SoundHandle(r, log', torn', dropped')
    BY SettledIsSound
  <2>3. QED
    BY <2>1, <2>2 DEF LifecycleInv, Update
<1>3. LifecycleInv'
  BY <1>1, <1>2, SaveFacts DEF LifecycleInv
<1>4. Extends(log, log') /\ UNCHANGED <<applied, torn>>
  BY SaveFacts DEF Saves
<1>5. r.cmd.op \notin RetireOps
  BY OpsDisjoint DEF Settled
<1>6. QED
  BY <1>3, <1>4, <1>5, Aside

LEMMA AnsweredIsSettled ==
  ASSUME LifecycleInv, NEW h \in Runner, NEW op \in SaveOps,
         NEW outcome, Saves(h, op, outcome)
  PROVE  /\ Settled(Answered(h, outcome), log')
         /\ Answered(h, outcome).slot = handle[h].slot
         /\ outcome = "ok" =>
              Answered(h, outcome).view = handle[h].view + Len(handle[h].cmd.evs)
<1> DEFINE q == handle[h]
<1>1. PICK v, c, r :
        /\ v = (IF outcome = "ok" THEN q.view + Len(q.cmd.evs) ELSE q.view)
        /\ c = (IF outcome = "appended" THEN NoCertificate ELSE q.certificate)
        /\ r = [q EXCEPT !.cmd = NoCommand, !.view = v, !.certificate = c]
        /\ r = Answered(h, outcome)
  BY Zenon DEF Answered
<1>2. /\ DOMAIN r = DOMAIN NewHandle /\ r.cmd = NoCommand /\ r.view = v
      /\ r.certificate = c /\ r.slot = q.slot
  BY <1>1, Shape DEF NewHandle
<1>3. v \in 0 .. Len(log')
  BY <1>1, SaveFacts, Shape DEF Extends, Tip
<1>4. c = NoCertificate \/ CertifiedIn(log', c.version)
  <2>1. q.certificate = NoCertificate \/ CertifiedIn(log, q.certificate.version)
    BY Shape DEF SoundHandle
  <2>2. Extends(log, log')
    BY SaveFacts
  <2>3. QED
    BY <1>1, <2>1, <2>2 DEF CertifiedIn, Extends
<1>5. QED
  BY <1>1, <1>2, <1>3, <1>4, Shape DEF Settled, NoCommand, IsCommand, IdleOps

\* A settled record stays so when all that changes are the run's own marks.
LEMMA MarksSettle ==
  ASSUME NEW q, NEW r, NEW l, Settled(q, l),
         DOMAIN r = DOMAIN q, r.cmd = q.cmd, r.view = q.view, r.slot \in Nat,
         r.certificate \in {NoCertificate, q.certificate}
  PROVE  Settled(r, l)
BY DEF Settled

LEMMA BeginSaveKeeps ==
  ASSUME LifecycleInv, NEW h \in Runner, NEW outcome, BeginSave(h, outcome)
  PROVE  LifecycleInv' /\ StandsAside
<1> DEFINE after == Answered(h, outcome)
<1>1. Saves(h, "begin", outcome) /\ "begin" \in SaveOps
  BY DEF BeginSave, SaveOps
<1>2. PICK q, r : /\ q = after
                  /\ r = [q EXCEPT !.alive = "open"] \/ r = NewHandle
                  /\ Update(h, r)
  BY DEF BeginSave
<1>3. Settled(q, log')
  BY <1>1, <1>2, AnsweredIsSettled
<1>4. CASE r = [q EXCEPT !.alive = "open"]
  <2>1. Settled(r, log')
    BY <1>3, <1>4 DEF Settled, NewHandle
  <2>2. QED
    BY <1>1, <1>2, <2>1, SaveStep
<1>5. CASE r = NewHandle
  <2>1. Settled(r, log')
    BY <1>3, <1>5, NewIsSettled DEF Settled
  <2>2. QED
    BY <1>1, <1>2, <2>1, SaveStep
<1>6. QED
  BY <1>2, <1>4, <1>5

LEMMA PolicySaveKeeps ==
  ASSUME LifecycleInv, NEW h \in Runner, NEW outcome, PolicySave(h, outcome)
  PROVE  LifecycleInv' /\ StandsAside
<1>1. Saves(h, "policy", outcome) /\ "policy" \in SaveOps
  BY DEF PolicySave, SaveOps
<1>2. Update(h, NewHandle)
  BY DEF PolicySave
<1>3. Settled(NewHandle, log')
  BY <1>1, SaveFacts, NewIsSettled DEF Extends
<1>4. QED
  BY <1>1, <1>2, <1>3, SaveStep

\* What a run makes of its observed claim.
LEMMA StartedSettles ==
  ASSUME NEW h, NEW q, NEW l, Settled(q, l), NEW r \in Started(h, q)
  PROVE  Settled(r, l)
<1>1. CASE r = [q EXCEPT !.stage = "releasing", !.result = "error"]
  BY <1>1 DEF Settled, NewHandle
<1>2. CASE r # [q EXCEPT !.stage = "releasing", !.result = "error"]
  <2>1. PICK x : r = [q EXCEPT !.processor = "running", !.reconciling = TRUE, !.stage = x]
    BY <1>2, Zenon DEF Started
  <2>2. QED
    BY <2>1 DEF Settled, NewHandle
<1>3. QED
  BY <1>1, <1>2

LEMMA FinishedSettles ==
  ASSUME NEW q, NEW l, NEW v \in 0 .. Len(l), NEW x, Settled(q, l)
  PROVE  /\ Settled(Finished(q, x), l)
         /\ Settled(Finished([q EXCEPT !.view = v], x), l)
<1>1. PICK r : r = [q EXCEPT !.view = v]
  OBVIOUS
<1>2. Settled(r, l)
  BY <1>1 DEF Settled, NewHandle
<1>3. ASSUME NEW p, Settled(p, l)
      PROVE  Settled(Finished(p, x), l)
  BY <1>3 DEF Finished, Settled, NewHandle
<1>4. QED
  BY <1>1, <1>2, <1>3

LEMMA ClaimSaveKeeps ==
  ASSUME LifecycleInv, NEW h \in Runner, NEW outcome, ClaimSave(h, outcome)
  PROVE  LifecycleInv' /\ StandsAside
<1>1. Saves(h, "claim", outcome) /\ "claim" \in SaveOps
  BY DEF ClaimSave, SaveOps
<1>2. PICK after : after = Answered(h, outcome) /\ Settled(after, log')
  BY <1>1, AnsweredIsSettled
<1>3. CASE outcome = "ok"
  <2>1. PICK r \in Started(h, after) : Update(h, r)
    BY <1>2, <1>3 DEF ClaimSave
  <2>2. Settled(r, log')
    BY <1>2, StartedSettles
  <2>3. QED
    BY <1>1, <2>1, <2>2, SaveStep
<1>4. CASE outcome = "appended"
  <2>1. PICK r : r = [after EXCEPT !.cmd = Pending("observe", <<>>)] /\ Update(h, r)
    BY <1>2, <1>4 DEF ClaimSave
  <2>2. Settled(r, log')
    BY <1>2, <2>1 DEF Settled, NewHandle, Pending, IsCommand, IdleOps
  <2>3. QED
    BY <1>1, <2>1, <2>2, SaveStep
<1>5. CASE outcome = "mismatch"
  <2>1. PICK slot, x, r : /\ slot = handle[h].view + 1
                          /\ \/ r = Finished(after, x)
                             \/ r = Finished([after EXCEPT !.view = slot], x)
                          /\ Update(h, r)
    BY <1>2, <1>5 DEF ClaimSave, ClaimDefeat
  <2>2. slot \in 0 .. Len(log')
    BY <1>1, <1>5, <2>1, SaveFacts, Shape DEF Tip
  <2>3. Settled(r, log')
    BY <1>2, <2>1, <2>2, FinishedSettles
  <2>4. QED
    BY <1>1, <2>1, <2>3, SaveStep
<1>6. CASE outcome \in {"unknown", "failed"}
  <2>1. Update(h, Finished(after, "error"))
    BY <1>2, <1>6 DEF ClaimSave
  <2>2. 0 \in 0 .. Len(log')
    BY <1>1, SaveFacts DEF Extends
  <2>3. Settled(Finished(after, "error"), log')
    BY <1>2, <2>2, FinishedSettles
  <2>4. QED
    BY <1>1, <2>1, <2>3, SaveStep
<1>7. QED
  BY <1>3, <1>4, <1>5, <1>6 DEF ClaimSave

LEMMA ObserveClaimKeeps ==
  ASSUME LifecycleInv, NEW h \in Runner, ObserveClaim(h)
  PROVE  LifecycleInv' /\ StandsAside
<1>1. ASSUME NEW r, Update(h, r), Settled(r, log)
      PROVE  LifecycleInv' /\ StandsAside
  <2>1. UNCHANGED <<log, inflight, applied, torn, dropped>>
    BY DEF ObserveClaim
  <2>2. LifecycleInv'
    BY <1>1, <2>1, SettledIsSound, HandleStep
  <2>3. r.cmd.op \notin RetireOps /\ Extends(log, log')
    BY <1>1, <2>1, OpsDisjoint, Shape DEF Settled, Extends, Tip
  <2>4. QED
    BY <1>1, <2>1, <2>2, <2>3, Aside
<1>2. PICK there, here : /\ there = [handle[h] EXCEPT !.cmd = NoCommand, !.view = Tip]
                         /\ here = [handle[h] EXCEPT !.cmd = NoCommand]
  OBVIOUS
<1>3. Settled(there, log) /\ Settled(here, log)
  BY <1>2, Shape DEF Settled, SoundHandle, NewHandle, Tip, NoCommand, IsCommand, IdleOps
<1>4. 0 \in 0 .. Len(log)
  BY Shape DEF Tip
<1>5. ASSUME NEW x, NEW q \in {here, there}
      PROVE  Settled(Finished(q, x), log)
  BY <1>3, <1>4, FinishedSettles
<1>6. \/ \E q \in {here, there}, x \in {"error", "nil", "displaced"} : Update(h, Finished(q, x))
      \/ \E r \in Started(h, there) : Update(h, r)
  BY <1>2 DEF ObserveClaim
<1>7. CASE \E q \in {here, there}, x \in {"error", "nil", "displaced"} : Update(h, Finished(q, x))
  BY <1>1, <1>5, <1>7
<1>8. CASE \E r \in Started(h, there) : Update(h, r)
  BY <1>1, <1>3, <1>8, StartedSettles
<1>9. QED
  BY <1>6, <1>7, <1>8

LEMMA CatchUpSaveKeeps ==
  ASSUME LifecycleInv, NEW h \in Runner, NEW outcome, CatchUpSave(h, outcome)
  PROVE  LifecycleInv' /\ StandsAside
<1>1. Saves(h, "catchup", outcome) /\ "catchup" \in SaveOps
  BY DEF CatchUpSave, SaveOps
<1>2. PICK after : after = Answered(h, outcome) /\ Settled(after, log')
  BY <1>1, AnsweredIsSettled
<1>3. CASE outcome = "ok"
  <2>1. PICK c : c = [attempt  |-> handle[h].runAttempt,
                      position |-> handle[h].cmd.evs[1].position,
                      version  |-> after.view]
    OBVIOUS
  <2>2. PICK x, r : r = [after EXCEPT !.stage = x, !.certificate = c] /\ Update(h, r)
    BY <1>2, <1>3, <2>1, Zenon DEF CatchUpSave
  <2>3. PICK e : handle[h].cmd.evs = <<e>> /\ e.type = "CaughtUp"
    <3>1. handle[h].cmd.op = "catchup"
      BY <1>1 DEF Saves
    <3>2. QED
      BY <1>1, <3>1, Shape DEF SoundHandle, Certifies
  <2>4. Len(handle[h].cmd.evs) = 1 /\ handle[h].cmd.evs[1] = e
    BY <2>3
  <2>5. after.view = handle[h].view + 1
    BY <1>1, <1>2, <1>3, <2>4, AnsweredIsSettled
  <2>6. log'[after.view].event.type = "CaughtUp"
    BY <1>1, <1>3, <2>3, <2>4, <2>5, SaveFacts
  <2>7. after.view \in 1 .. Len(log')
    BY <1>2, <2>5, Shape DEF Settled
  <2>8. CertifiedIn(log', c.version)
    BY <2>1, <2>6, <2>7 DEF CertifiedIn
  <2>9. Settled(r, log')
    BY <1>2, <2>2, <2>8 DEF Settled, NewHandle
  <2>10. QED
    BY <1>1, <2>2, <2>9, SaveStep
<1>4. CASE outcome # "ok"
  <2>1. PICK slot, r : /\ r = [after EXCEPT !.stage = "winding", !.cancel = TRUE, !.slot = slot]
                       /\ slot = LostSlot(h, outcome)
                       /\ Update(h, r)
    BY <1>2, <1>4, Zenon DEF CatchUpSave
  <2>2. slot \in Nat
    BY <2>1, Shape DEF LostSlot
  <2>3. Settled(r, log')
    BY <1>2, <2>1, <2>2 DEF Settled, NewHandle
  <2>4. QED
    BY <1>1, <2>1, <2>3, SaveStep
<1>5. QED
  BY <1>3, <1>4

LEMMA PromoteSaveKeeps ==
  ASSUME LifecycleInv, NEW h \in Runner, NEW outcome, PromoteSave(h, outcome)
  PROVE  LifecycleInv' /\ StandsAside
<1>1. Saves(h, "promote", outcome) /\ "promote" \in SaveOps
  BY DEF PromoteSave, SaveOps
<1>2. PICK after : after = Answered(h, outcome) /\ Settled(after, log')
  BY <1>1, AnsweredIsSettled
<1>3. PICK c, r : /\ r = [after EXCEPT !.certificate = c]
                  /\ c \in {NoCertificate, after.certificate}
                  /\ Update(h, r)
  BY <1>2 DEF PromoteSave
<1>4. Settled(r, log')
  BY <1>2, <1>3 DEF Settled, NewHandle
<1>5. QED
  BY <1>1, <1>3, <1>4, SaveStep

LEMMA PromoteAfterCatchUpSaveKeeps ==
  ASSUME LifecycleInv, NEW h \in Runner, NEW outcome, PromoteAfterCatchUpSave(h, outcome)
  PROVE  LifecycleInv' /\ StandsAside
<1>1. Saves(h, "autopromote", outcome) /\ "autopromote" \in SaveOps
  BY DEF PromoteAfterCatchUpSave, SaveOps
<1>2. PICK after : after = Answered(h, outcome) /\ Settled(after, log')
  BY <1>1, AnsweredIsSettled
<1>3. PICK slot : slot = LostSlot(h, outcome) /\ slot \in Nat
  BY Shape DEF LostSlot
<1>4. PICK r : /\ \/ r = [after EXCEPT !.certificate = NoCertificate, !.stage = "tailing"]
                  \/ r = [after EXCEPT !.stage = "tailing"]
                  \/ r = [after EXCEPT !.stage = "resolving", !.slot = slot]
                  \/ r = [after EXCEPT !.stage = "winding", !.cancel = TRUE, !.slot = slot]
               /\ Update(h, r)
  BY <1>2, <1>3 DEF PromoteAfterCatchUpSave
<1>5. Settled(r, log')
  BY <1>2, <1>3, <1>4 DEF Settled, NewHandle
<1>6. QED
  BY <1>1, <1>4, <1>5, SaveStep

LEMMA ResolveRetrySaveKeeps ==
  ASSUME LifecycleInv, NEW h \in Runner, NEW outcome, ResolveRetrySave(h, outcome)
  PROVE  LifecycleInv' /\ StandsAside
<1>1. Saves(h, "retry", outcome) /\ "retry" \in SaveOps
  BY DEF ResolveRetrySave, SaveOps
<1>2. PICK after : after = Answered(h, outcome) /\ Settled(after, log')
  BY <1>1, AnsweredIsSettled
<1>3. PICK r : /\ \/ r = [after EXCEPT !.certificate = NoCertificate, !.stage = "tailing"]
                  \/ r = after
               /\ Update(h, r)
  BY <1>2 DEF ResolveRetrySave
<1>4. Settled(r, log')
  BY <1>2, <1>3 DEF Settled, NewHandle
<1>5. QED
  BY <1>1, <1>3, <1>4, SaveStep

LEMMA ReleaseClaimSaveKeeps ==
  ASSUME LifecycleInv, NEW h \in Runner, NEW outcome, ReleaseClaimSave(h, outcome)
  PROVE  LifecycleInv' /\ StandsAside
<1>1. Saves(h, "release", outcome) /\ "release" \in SaveOps
  BY DEF ReleaseClaimSave, SaveOps
<1>2. PICK after : after = Answered(h, outcome) /\ Settled(after, log')
  BY <1>1, AnsweredIsSettled
<1>3. PICK r : r = [after EXCEPT !.stage = "done"] /\ Update(h, r)
  BY <1>2 DEF ReleaseClaimSave
<1>4. Settled(r, log')
  BY <1>2, <1>3 DEF Settled, NewHandle
<1>5. QED
  BY <1>1, <1>3, <1>4, SaveStep

LEMMA EndSaveKeeps ==
  ASSUME LifecycleInv, NEW h \in Runner, NEW op \in {"rollback", "abandon"}, NEW outcome,
         EndSave(h, op, outcome)
  PROVE  LifecycleInv' /\ StandsAside
<1>1. Saves(h, op, outcome) /\ op \in SaveOps
  BY DEF EndSave, SaveOps
<1>2. PICK after : after = Answered(h, outcome) /\ Settled(after, log')
  BY <1>1, AnsweredIsSettled
<1>3. PICK x, r : /\ \/ r = [after EXCEPT !.stopped = TRUE, !.cancel = TRUE, !.commandEnded = x]
                     \/ r = after
                  /\ Update(h, r)
  BY <1>2, Zenon DEF EndSave
<1>4. Settled(r, log')
  BY <1>2, <1>3 DEF Settled, NewHandle
<1>5. QED
  BY <1>1, <1>3, <1>4, SaveStep

LEMMA ReserveSaveKeeps ==
  ASSUME LifecycleInv, NEW h \in Runner, NEW outcome, ReserveSave(h, outcome)
  PROVE  LifecycleInv' /\ StandsAside
<1>1. Saves(h, "reserve", outcome) /\ "reserve" \in SaveOps
  BY DEF ReserveSave, SaveOps
<1>2. PICK after : after = Answered(h, outcome) /\ Settled(after, log')
  BY <1>1, AnsweredIsSettled
<1>3. PICK r : /\ \/ r = [after EXCEPT !.cmd = Pending("reattest", handle[h].cmd.evs)]
                  \/ r = after
               /\ Update(h, r)
  BY <1>2 DEF ReserveSave
<1>4. Settled(r, log')
  BY <1>2, <1>3 DEF Settled, NewHandle, Pending, IsCommand, IdleOps
<1>5. QED
  BY <1>1, <1>3, <1>4, SaveStep

LEMMA RecordRetirementKeeps ==
  ASSUME LifecycleInv, NEW h \in Runner, NEW outcome, RecordRetirement(h, outcome)
  PROVE  LifecycleInv' /\ StandsAside
<1>1. Saves(h, "complete", outcome) /\ "complete" \in SaveOps
  BY DEF RecordRetirement, SaveOps
<1>2. QED
  BY <1>1, AnsweredIsSettled, SaveStep DEF RecordRetirement

LEMMA SaveAnswersKeeps ==
  ASSUME LifecycleInv, NEW h \in Runner, SaveAnswers(h)
  PROVE  LifecycleInv' /\ StandsAside
<1>1. PICK outcome \in Outcome :
        \/ BeginSave(h, outcome)
        \/ PolicySave(h, outcome)
        \/ ClaimSave(h, outcome)
        \/ CatchUpSave(h, outcome)
        \/ PromoteSave(h, outcome)
        \/ PromoteAfterCatchUpSave(h, outcome)
        \/ ResolveRetrySave(h, outcome)
        \/ ReleaseClaimSave(h, outcome)
        \/ EndSave(h, "rollback", outcome)
        \/ EndSave(h, "abandon", outcome)
        \/ ReserveSave(h, outcome)
        \/ RecordRetirement(h, outcome)
  BY DEF SaveAnswers
<1>2. QED
  BY <1>1, BeginSaveKeeps, PolicySaveKeeps, ClaimSaveKeeps, CatchUpSaveKeeps,
     PromoteSaveKeeps, PromoteAfterCatchUpSaveKeeps, ResolveRetrySaveKeeps,
     ReleaseClaimSaveKeeps, EndSaveKeeps, ReserveSaveKeeps, RecordRetirementKeeps

\* An append of unknown outcome lands: at the version it was guarded by.
LEMMA LandKeeps ==
  ASSUME LifecycleInv, Land
  PROVE  LifecycleInv' /\ StandsAside
<1>1. PICK evs \in inflight : /\ log' = Recorded(evs) /\ inflight' = {}
                              /\ UNCHANGED <<handle, torn, dropped>>
  BY DEF Land
<1>2. Ready(evs, Tip, log, torn \cap dropped)
  BY DEF LifecycleInv
<1>3. Extends(log, log') /\ LogOK' /\ PromotionIsCertified' /\ RetiredIsGone'
  BY <1>1, <1>2, Appends
<1>4. ASSUME NEW g \in Runner
      PROVE  SoundHandle(handle'[g], log', torn', dropped')
  BY <1>1, <1>3, SoundLater DEF LifecycleInv
<1>5. LifecycleInv'
  BY <1>1, <1>3, <1>4 DEF LifecycleInv
<1>6. StandsAside
  BY <1>1, <1>3 DEF StandsAside, Land
<1>7. QED
  BY <1>5, <1>6

-----------------------------------------------------------------------------
(* The theorems.                                                            *)

\* The history the model starts from satisfies the invariant.
LEMMA InitEstablishes ==
  ASSUME Init
  PROVE  LifecycleInv
<1> DEFINE S == [event : {Start[i].event : i \in DOMAIN Start}, state : State]
<1>1. log = Start /\ inflight = {} /\ torn = {} /\ dropped = {}
  BY DEF Init
<1>2. log \in Seq(S) /\ Tip \in Nat /\ DOMAIN Start = 1 .. Tip
  BY <1>1, StartAssumption DEF Tip
<1>3. LogOK
  <2>1. log \in Seq({log[i] : i \in 1 .. Len(log)})
    BY ONLY <1>2, OwnElements
  <2>2. QED
    BY <2>1 DEF LogOK, Tip
<1>4. PromotionIsCertified
  BY <1>1, <1>2, StartIsOwn DEF PromotionIsCertified
<1>5. RetiredIsGone
  BY <1>1, <1>2, StartIsOwn DEF RetiredIsGone, Event
<1>6. ASSUME NEW h \in Runner
      PROVE  SoundHandle(handle[h], log, torn, dropped)
  <2>1. handle[h] \in {NewHandle, [NewHandle EXCEPT !.alive = "gone"]}
    BY DEF Init
  <2>2. Len(log) \in Nat
    BY <1>2 DEF Tip
  <2>3. /\ SoundHandle(NewHandle, log, torn, dropped)
        /\ SoundHandle([NewHandle EXCEPT !.alive = "gone"], log, torn, dropped)
    BY <2>2, NewIsSound
  <2>4. QED
    BY <2>1, <2>3
<1>7. DOMAIN handle = Runner
  BY DEF Init
<1>8. QED
  BY <1>1, <1>3, <1>4, <1>5, <1>6, <1>7 DEF LifecycleInv

LEMMA InternalKeeps ==
  ASSUME LifecycleInv, NEW h \in Runner, Internal(h)
  PROVE  LifecycleInv'
BY SaveAnswersKeeps, ObserveClaimKeeps, PromoteAfterCatchUpKeeps, ResolveHaltKeeps,
   ResolveRetryKeeps, ResolveSlotKeeps, WoundKeeps, DrainedKeeps, ClassifyExitKeeps,
   ReleaseClaimKeeps, PublishProcessorExitKeeps, ReconcileExitKeeps, AttestKeeps,
   AttestedKeeps, ReattestKeeps, TeardownKeeps, DropCheckpointKeeps
   DEF Internal

LEMMA ExternalKeeps ==
  ASSUME LifecycleInv, NEW h \in Runner, External(h)
  PROVE  LifecycleInv'
BY BeginLoadKeeps, PolicyLoadKeeps, ResumeKeeps, RunEnterKeeps, CatchUpKeeps,
   PromoteKeeps, RollbackKeeps, AbandonKeeps, RetireKeeps, CancelRunKeeps,
   ReconcileFailKeeps, CrashKeeps
   DEF External

\* Every step keeps the invariant.
LEMMA NextKeeps ==
  ASSUME LifecycleInv, [Next]_vars
  PROVE  LifecycleInv'
<1>1. ASSUME NEW h \in Runner, Internal(h) \/ External(h) \/ ProcessorReturn(h)
      PROVE  LifecycleInv'
  BY <1>1, InternalKeeps, ExternalKeeps, ProcessorReturnKeeps
<1>2. ASSUME NEW h \in Runner, NEW v \in 0 .. Tip, Reconcile(h, v)
      PROVE  LifecycleInv'
  BY <1>2, ReconcileKeeps
<1>3. ASSUME UNCHANGED <<log, inflight, handle, torn, dropped>>
      PROVE  LifecycleInv'
  <2>1. Tip' = Tip /\ LogOK' /\ PromotionIsCertified' /\ RetiredIsGone'
    BY <1>3, StreamStays DEF Tip
  <2>2. QED
    BY <1>3, <2>1 DEF LifecycleInv
<1>4. ASSUME NEW w \in Witness, Deliver(w)
      PROVE  LifecycleInv'
  BY <1>3, <1>4 DEF Deliver
<1>5. CASE UNCHANGED vars
  BY <1>3, <1>5 DEF vars
<1>6. QED
  BY <1>1, <1>2, <1>4, <1>5, LandKeeps DEF Next

\* The stream, what may still land, and every handle's record are sound in every
\* reachable state (handle.go, appendLocked: the version guard of every save).
THEOREM LifecycleInvariance == Spec => []LifecycleInv
<1>1. Init => LifecycleInv
  BY InitEstablishes
<1>2. LifecycleInv /\ [Next]_vars => LifecycleInv'
  BY NextKeeps
<1>3. QED
  BY <1>1, <1>2, PTL DEF Spec

\* Whichever handles run, whatever is lost, refused, lands late or crashes: nothing
\* is recorded between a catch-up and the promotion that stands on it (handle.go,
\* Promote, which appends to the very version its certificate is for).
THEOREM PromotionsAreCertified == Spec => []PromotionIsCertified
<1>1. LifecycleInv => PromotionIsCertified
  BY DEF LifecycleInv
<1>2. QED
  BY <1>1, LifecycleInvariance, PTL

\* A version recorded as retired has lost its storage and then its checkpoint, and
\* no checkpoint goes first (handle.go, Retire).
THEOREM RetirementIsDestruction == Spec => []RetiredIsGone
<1>1. LifecycleInv => RetiredIsGone
  BY DEF LifecycleInv
<1>2. QED
  BY <1>1, LifecycleInvariance, PTL

-----------------------------------------------------------------------------
(* What the code's writers record is accepted by the state they read.       *)

\* What Retire is going to record, of a state it does not refuse.
LEMMA RetirementAccepted ==
  ASSUME NEW s, Sound(s), NEW override \in BOOLEAN, ~RetireRefused(s, override)
  PROVE  LET e == RetireEvent(s, override)
         IN  /\ Accepts(e, s) /\ NamedEvent(e)
             /\ e.type \in {"RetireStarted", "PreviousRetired"}
<1> DEFINE a == s.attempt
           v == a.previous
           g == s.policy.generation
           W == RequiredWitnesses(s, override)
           R == ReceiptsOf(W, s)
           o == IF override THEN "attested" ELSE "none"
<1>1. /\ s \in State /\ Valid(s) /\ ~s.invalid
      /\ v \in Nat /\ g \in Nat /\ a.retiringWitnesses \in SUBSET Witness
      /\ s.policy.witnesses \in SUBSET Witness
      /\ a.phase \in {"promoted", "retiring"}
  BY SoundAttempt DEF Sound, Valid, State, RetirementPolicy, RetireRefused
<1>2. W \in SUBSET Witness /\ o \in Attestation
  BY <1>1 DEF RequiredWitnesses, Attestation
<1>3. CASE v = 0
  <2>1. a.phase = "promoted" /\ RetireEvent(s, override) = PreviousRetired(v, ReceiptsOf({}, s))
    BY <1>1, <1>3, SoundAttempt DEF RetireEvent
  <2>2. DOMAIN ReceiptsOf({}, s) = {}
    BY DEF ReceiptsOf
  <2>3. QED
    BY <1>3, <2>1, <2>2, CompletionAccepted DEF PreviousRetiredContradicts, PreviousRetired
<1>4. CASE v # 0 /\ a.phase = "retiring"
  <2>1. RetireEvent(s, override) = PreviousRetired(v, R) /\ W = a.retiringWitnesses
    BY <1>4 DEF RetireEvent, RequiredWitnesses
  <2>2. R = [w \in a.retiringWitnesses |-> LiveCutover(s)]
    BY <2>1 DEF ReceiptsOf
  <2>3. ~PreviousRetiredContradicts(PreviousRetired(v, R), s)
    BY <1>4, <2>2 DEF PreviousRetiredContradicts, PreviousRetired, InvalidReceipts
  <2> HIDE DEF R
  <2>4. QED
    BY <2>1, <2>3, CompletionAccepted DEF PreviousRetired
<1>5. CASE v # 0 /\ a.phase = "promoted"
  <2> DEFINE e == RetireStarted(v, g, W, R, o)
  <2>1. RetireEvent(s, override) = e
    BY <1>5 DEF RetireEvent
  <2>2. /\ e.type = "RetireStarted" /\ e.retiring = v /\ e.generation = g
        /\ e.witnesses = W /\ e.receipts = R /\ e.override = o
    BY DEF RetireStarted
  <2>3. ~UnauthorizedReservation(e, s)
    <3>1. CASE override
      <4>1. W = {} /\ o = "attested"
        BY <1>5, <3>1 DEF RequiredWitnesses
      <4>2. DOMAIN R = {}
        BY <4>1 DEF ReceiptsOf
      <4>3. QED
        BY <2>2, <4>1, <4>2 DEF UnauthorizedReservation
    <3>2. CASE ~override
      <4>1. W = s.policy.witnesses /\ o = "none" /\ s.policy # NoPolicy
        BY <1>5, <3>2 DEF RequiredWitnesses, RetireRefused
      <4>2. DOMAIN R = W /\ R = [w \in W |-> LiveCutover(s)]
        BY DEF ReceiptsOf
      <4>3. ValidPolicy(s.policy)
        BY <1>1, <1>5, SoundAttempt DEF Valid, NewState, NoAttempt
      <4>4. s.policy.unwitnessed => s.policy.witnesses = {}
        <5>1. s.policy.generation = 0 \/ s.policy.generation > 0
          BY <1>1
        <5>2. QED
          BY <4>3, <5>1, Zenon DEF ValidPolicy
      <4> HIDE DEF W, R, o, e
      <4>5. CASE s.policy.unwitnessed
        BY <2>2, <4>1, <4>2, <4>4, <4>5 DEF UnauthorizedReservation
      <4>6. CASE ~s.policy.unwitnessed
        BY <2>2, <4>1, <4>2, <4>6 DEF UnauthorizedReservation, InvalidReceipts
      <4>7. QED
        BY <4>5, <4>6
    <3>3. QED
      BY <3>1, <3>2
  <2>4. ~RetireStartedContradicts(e, s)
    BY <1>5, <2>2, <2>3 DEF RetireStartedContradicts
  <2> HIDE DEF W, R, o
  <2>5. QED
    BY <1>2, <2>1, <2>2, <2>4, ReservationAccepted
<1>6. QED
  BY <1>1, <1>3, <1>4, <1>5

-----------------------------------------------------------------------------
(* Appends, and who makes them.                                             *)

\* Events the stream accepts together, as the code appends them: one, or a claim of
\* an attempt just begun with the start of its build.
Accepted(evs, s) ==
  /\ Accepts(evs[1], s) /\ NamedEvent(evs[1])
  /\ \/ evs = <<evs[1]>>
     \/ /\ evs = <<evs[1], BuildStarted>> /\ evs[1].type = "RunnerClaimed"
        /\ Accepts(BuildStarted, ApplyTo(evs[1], s))

\* What runner h may append to state s: claims are its own, and so is the claim that
\* a promotion stands on.
Writes(h, evs, s) ==
  /\ Accepted(evs, s)
  /\ evs[1].type = "RunnerClaimed" =>
       /\ evs[1].runner = h
       /\ s.attempt.phase = "created" => evs = <<evs[1], BuildStarted>>
  /\ evs[1].type = "Promoted" => s.attempt.runner = h

\* What the appended states make of the attempt that was in flight.
Grown(l, m, h, evs) ==
  LET a == AttemptIn(l, Len(l))
      claimed(b) == evs[1].type = "RunnerClaimed" /\ b.runner = h
  IN  \A i \in Len(l) + 1 .. Len(m) :
        LET b == AttemptIn(m, i)
        IN  /\ b.runner \in {NoRunner, a.runner} \/ claimed(b)
            /\ b.phase \in Flipped =>
                 \/ a.phase \in Flipped /\ (b.runner = a.runner \/ claimed(b))
                 \/ evs[1].type = "Promoted" /\ b.runner = h
            /\ i = Len(m) /\ b.phase = "created" =>
                 \/ b.runner = NoRunner
                 \/ a.phase = "created" /\ b.runner = a.runner

LEMMA RecordedOne ==
  ASSUME LogOK, NEW evs, evs = <<evs[1]>>, log' = Recorded(evs)
  PROVE  /\ Extends(log, log') /\ Len(log') = Tip + 1 /\ Tip \in Nat
         /\ log'[Tip + 1].event = evs[1]
         /\ log'[Tip + 1].state = ApplyTo(evs[1], StateIn(log, Tip))
<1> DEFINE S == {log[i] : i \in 1 .. Tip}
           first == [event |-> evs[1], state |-> ApplyTo(evs[1], StateAt(Tip))]
<1>1. log \in Seq(S) /\ Tip \in Nat /\ Tip = Len(log)
  BY DEF LogOK, Tip
<1>2. Len(evs) = 1
  OBVIOUS
<1>3. log' = log \o <<first>>
  BY <1>2 DEF Recorded
<1>4. first.event = evs[1] /\ first.state = ApplyTo(evs[1], StateIn(log, Tip))
  BY DEF StateAt, StateIn
<1> HIDE DEF first, S
<1>5. log \in Seq(S \cup {first})
  BY <1>1
<1>6. /\ Len(log') = Tip + 1 /\ log'[Tip + 1] = first
      /\ \A i \in 1 .. Tip : log'[i] = log[i]
  BY <1>1, <1>3, <1>5
<1>7. QED
  BY <1>1, <1>4, <1>6 DEF Extends

LEMMA RecordedTwo ==
  ASSUME LogOK, NEW evs, evs = <<evs[1], evs[2]>>, log' = Recorded(evs)
  PROVE  /\ Extends(log, log') /\ Len(log') = Tip + 2 /\ Tip \in Nat
         /\ log'[Tip + 1].event = evs[1] /\ log'[Tip + 2].event = evs[2]
         /\ log'[Tip + 1].state = ApplyTo(evs[1], StateIn(log, Tip))
         /\ log'[Tip + 2].state = ApplyTo(evs[2], log'[Tip + 1].state)
<1> DEFINE S == {log[i] : i \in 1 .. Tip}
           first == [event |-> evs[1], state |-> ApplyTo(evs[1], StateAt(Tip))]
           second == [event |-> evs[2], state |-> ApplyTo(evs[2], first.state)]
<1>1. log \in Seq(S) /\ Tip \in Nat /\ Tip = Len(log)
  BY DEF LogOK, Tip
<1>2. Len(evs) = 2
  OBVIOUS
<1>3. log' = log \o <<first, second>>
  BY <1>2 DEF Recorded
<1>4. /\ first.event = evs[1] /\ first.state = ApplyTo(evs[1], StateIn(log, Tip))
      /\ second.event = evs[2] /\ second.state = ApplyTo(evs[2], first.state)
  BY DEF StateAt, StateIn
<1> HIDE DEF first, second, S
<1>5. log \in Seq(S \cup {first, second})
  BY <1>1
<1>6. /\ Len(log') = Tip + 2 /\ log'[Tip + 1] = first /\ log'[Tip + 2] = second
      /\ \A i \in 1 .. Tip : log'[i] = log[i]
  BY <1>1, <1>3, <1>5
<1>7. QED
  BY <1>1, <1>4, <1>6 DEF Extends

\* An append by h keeps the stream a history, and gives attempts to nobody but h.
LEMMA AppendGrows ==
  ASSUME LogOK, Folded(log), NEW h, NEW evs, Writes(h, evs, StateIn(log, Tip)),
         log' = Recorded(evs)
  PROVE  /\ Extends(log, log') /\ Folded(log') /\ Grown(log, log', h, evs)
         /\ Tip \in Nat /\ Len(log) = Tip /\ log'[Tip + 1].event = evs[1]
<1> DEFINE s == StateIn(log, Tip)
           a == AttemptIn(log, Tip)
           e == evs[1]
           t == ApplyTo(e, s)
<1>1. Tip \in Nat /\ Tip = Len(log) /\ Sound(s)
  BY FoldedIsSound DEF LogOK, Tip
<1>2. Accepts(e, s) /\ NamedEvent(e) /\ e.type \in EventType
  BY DEF Writes, Accepted, Accepts
<1>3. Sound(t)
  BY <1>1, <1>2, SoundStep
<1>4. CASE evs = <<evs[1]>>
  <2>1. /\ Extends(log, log') /\ Len(log') = Tip + 1
        /\ log'[Tip + 1].event = e /\ log'[Tip + 1].state = t
    BY <1>4, RecordedOne
  <2>2. Folded(log')
    BY <1>1, <1>2, <2>1, FoldedGrows
  <2>3. AttemptIn(log', Tip + 1) = t.attempt /\ a = s.attempt
    BY <1>1, <2>1 DEF AttemptIn, StateIn
  <2>4. e.type = "RunnerClaimed" => e.runner = h /\ a.phase # "created"
    <3>1. ASSUME evs = <<evs[1], BuildStarted>> PROVE FALSE
      <4>1. Len(evs) = 1 /\ Len(evs) = 2
        BY <1>4, <3>1
      <4>2. QED
        BY <4>1
    <3>2. QED
      BY <2>3, <3>1 DEF Writes
  <2>5. e.type = "Promoted" => a.runner = h
    BY <2>3 DEF Writes
  <2> HIDE DEF e, s, t, a
  <2>6. ASSUME NEW i \in Tip + 1 .. Len(log') PROVE i = Tip + 1
    BY <1>1, <2>1
  <2>7. Grown(log, log', h, evs)
    BY <1>1, <1>2, <2>1, <2>3, <2>4, <2>5, <2>6, AttemptAfter DEF Grown, a, s, e, t
  <2>8. QED
    BY <1>1, <2>1, <2>2, <2>7 DEF e
<1>5. CASE /\ evs = <<evs[1], BuildStarted>> /\ e.type = "RunnerClaimed"
           /\ Accepts(BuildStarted, t)
  <2> DEFINE b == BuildStarted
             u == ApplyTo(b, t)
  <2>0. evs[2] = b /\ evs = <<evs[1], evs[2]>>
    BY <1>5
  <2>1. /\ Extends(log, log') /\ Len(log') = Tip + 2
        /\ log'[Tip + 1].event = e /\ log'[Tip + 1].state = t
        /\ log'[Tip + 2].event = b /\ log'[Tip + 2].state = u
    BY <2>0, RecordedTwo
  <2>2. NamedEvent(b) /\ b.type = "BuildStarted"
    BY DEF NamedEvent, BuildStarted
  <2>3. /\ StateIn(log', Tip + 1) = t /\ StateIn(log', Tip + 2) = u
        /\ AttemptIn(log', Tip + 1) = t.attempt /\ AttemptIn(log', Tip + 2) = u.attempt
        /\ a = s.attempt
    BY <1>1, <2>1 DEF AttemptIn, StateIn
  <2>4. Folded(log')
    <3>1. ASSUME NEW i \in 1 .. Len(log')
          PROVE  /\ Accepts(log'[i].event, StateIn(log', i - 1)) /\ NamedEvent(log'[i].event)
                 /\ log'[i].state = ApplyTo(log'[i].event, StateIn(log', i - 1))
      <4>1. CASE i \in 1 .. Tip
        <5>1. i - 1 \in 0 .. Len(log) /\ log'[i] = log[i]
          BY <1>1, <2>1, <4>1 DEF Extends
        <5>2. StateIn(log', i - 1) = StateIn(log, i - 1)
          BY <2>1, <5>1, StatesStay
        <5>3. QED
          BY <1>1, <4>1, <5>1, <5>2 DEF Folded
      <4>2. CASE i = Tip + 1
        <5>1. StateIn(log', i - 1) = s
          BY <1>1, <2>1, <4>2, StatesStay
        <5>2. QED
          BY <1>2, <2>1, <4>2, <5>1
      <4>3. CASE i = Tip + 2
        <5>1. i - 1 = Tip + 1
          BY <1>1, <4>3
        <5>2. QED
          BY <1>5, <2>1, <2>2, <2>3, <4>3, <5>1
      <4>4. QED
        BY <1>1, <2>1, <4>1, <4>2, <4>3
    <3>2. QED
      BY <3>1 DEF Folded
  <2>5. e.runner = h
    BY <1>5 DEF Writes
  <2>6. u.attempt.phase = "building" /\ u.attempt.runner = t.attempt.runner
    BY <1>3, <1>5, <2>2, AttemptAfter DEF Accepts
  <2>7. t.attempt.runner = h /\ t.attempt.phase = a.phase
    BY <1>1, <1>2, <1>5, <2>3, <2>5, AttemptAfter
  <2>8. t.attempt.phase = "created"
    <3>1. Effect(b, t, u)
      BY <1>3, <1>5, AcceptedEffect DEF Sound
    <3>2. QED
      BY <2>2, <3>1 DEF Effect
  <2> HIDE DEF e, s, t, a, b, u
  <2>9. \A i \in Tip + 1 .. Len(log') : i = Tip + 1 \/ i = Tip + 2
    BY <1>1, <2>1
  <2>10. Grown(log, log', h, evs)
    <3>1. Len(log') # Tip + 1
      BY <1>1, <2>1
    <3>2. QED
      BY <1>1, <1>5, <2>3, <2>6, <2>7, <2>8, <2>9, <3>1 DEF Grown, Flipped, a, e
  <2>11. QED
    BY <1>1, <2>1, <2>4, <2>10 DEF e
<1>6. QED
  BY <1>4, <1>5 DEF Writes, Accepted

-----------------------------------------------------------------------------
(* The invariant of the stream: who may append what.                        *)

PromoteOps == {"promote", "autopromote", "retry"}

\* The operations that come between Retire's first decision and its last save.
RetireBusy == RetireOps \cup {"reserve", "reattest", "complete"}

Early == {"idle", "claiming", "catchup"}

\* The run has left its catch-up behind, or its process is gone.
Past(r) == r.alive = "gone" \/ r.stage \notin Early

CatchingUp(r) == r.stage = "catchup" /\ ~r.stopped

\* Where a handle can be while it holds a command or a certificate.
Stages(r) ==
  /\ r.alive = "gone" => r.cmd = NoCommand /\ r.stage = "idle"
  /\ r.alive = "new" => r.stage = "idle"
  /\ r.cmd.op \in {"begin", "policy"} => r.alive = "new"
  /\ r.cmd.op \in {"claim", "observe"} => r.stage = "claiming"
  /\ r.cmd.op \in {"catchup", "release"} => r.stage \notin {"idle", "claiming"}
  /\ r.cmd.op \in PromoteOps => r.stage \notin Early
  /\ r.cmd.op \in RetireBusy => ~CatchingUp(r)
  /\ r.certificate # NoCertificate => r.stage \notin Early

\* Whatever attempt h holds anywhere in the history, its run claimed; only a run past
\* its catch-up, or that never had one, holds a promoted attempt; and a standing
\* attempt it holds is being built.
Held(h, r, l) ==
  \A i \in 1 .. Len(l) : AttemptIn(l, i).runner = h =>
    /\ r.alive = "gone" \/ r.stage # "idle"
    /\ AttemptIn(l, i).phase \in Flipped =>
         /\ r.stage # "catchup"
         /\ r.cmd.op = "observe" => AttemptIn(l, r.view).phase \in Flipped
    /\ i = Len(l) /\ AttemptIn(l, i).phase = "created" => r.alive = "gone"

\* An unstopped catch-up has its own attempt in view, and it is being built.
Catching(h, r, l) ==
  CatchingUp(r) =>
    LET a == AttemptIn(l, r.view)
    IN  a.id = r.runAttempt /\ a.id # 0 /\ a.runner = h /\ a.phase # "created"

\* A run about to claim the attempt in view holds nothing yet.
Claims(h, r, l) ==
  r.cmd.op = "claim" =>
    /\ r.cmd.evs[1].type = "RunnerClaimed"
    /\ AttemptIn(l, r.view).id = r.runAttempt
    /\ \A i \in 1 .. Len(l) : AttemptIn(l, i).runner # h

\* What a pending command will save is right for the state in view.
Pends(h, r, l) ==
  r.cmd.op \in SaveOps \cup RetireOps =>
    /\ Writes(h, r.cmd.evs, StateIn(l, r.view))
    /\ r.cmd.op # "claim" => r.cmd.evs[1].type # "RunnerClaimed"
    /\ r.cmd.op \notin PromoteOps => r.cmd.evs[1].type # "Promoted"

Keeps(h, r, l) ==
  /\ Stages(r)
  /\ Held(h, r, l)
  /\ Catching(h, r, l)
  /\ Claims(h, r, l)
  /\ Pends(h, r, l)

\* What may still land was written by a handle that has gone past it.
Lands(evs, s) ==
  \E k \in Runner :
    /\ Writes(k, evs, s)
    /\ evs[1].type \in {"RunnerClaimed", "Promoted"} => Past(handle[k])

StreamInv ==
  /\ Folded(log)
  /\ \A h \in Runner : Keeps(h, handle[h], log)
  /\ \A evs \in inflight : Lands(evs, StateIn(log, Tip))

Onward(q, r) == Past(q) => Past(r)

-----------------------------------------------------------------------------
(* Steps of one handle that record nothing.                                 *)

\* A step of one handle that leaves the stream alone, and what may land in it.
LEMMA QuietStep ==
  ASSUME LifecycleInv, StreamInv, NEW h \in Runner, NEW r, Update(h, r),
         Keeps(h, r, log), Onward(handle[h], r), UNCHANGED <<log, inflight>>
  PROVE  StreamInv'
<1>1. \A g \in Runner : Keeps(g, handle'[g], log) /\ Onward(handle[g], handle'[g])
  BY DEF LifecycleInv, StreamInv, Update, Onward
<1>2. ASSUME NEW evs \in inflight PROVE Lands(evs, StateIn(log, Tip))'
  <2>1. PICK k \in Runner :
          /\ Writes(k, evs, StateIn(log, Tip))
          /\ evs[1].type \in {"RunnerClaimed", "Promoted"} => Past(handle[k])
    BY DEF StreamInv, Lands
  <2>2. QED
    BY <1>1, <2>1 DEF Lands, Onward, Tip
<1>3. QED
  BY <1>1, <1>2 DEF StreamInv

\* What may change of a record while the run stays where it is or moves past its
\* catch-up.
Carries(q, r) ==
  /\ r.alive = q.alive /\ r.runAttempt = q.runAttempt
  /\ q.stopped => r.stopped
  /\ r.stage = q.stage \/ (r.stage \notin Early /\ q.stage \notin {"idle", "claiming"})
  /\ r.certificate \in {NoCertificate, q.certificate} \/ r.stage \notin Early

LEMMA CarriesOnward ==
  ASSUME NEW q, NEW r, Stages(q), Carries(q, r)
  PROVE  /\ Onward(q, r)
         /\ CatchingUp(r) => CatchingUp(q)
BY DEF Stages, Carries, Onward, Past, Early, CatchingUp

\* The step installs a version, or gives up a command, or makes one pending.
LEMMA TurnKeeps ==
  ASSUME NEW l, NEW h, NEW q, NEW r, Keeps(h, q, l), Carries(q, r),
         Catching(h, r, l), Pends(h, r, l),
         q.alive = "gone" => r.cmd = NoCommand,
         r.cmd.op \notin {"claim", "observe", "begin", "policy"},
         r.cmd.op \in {"catchup", "release"} => r.stage \notin {"idle", "claiming"},
         r.cmd.op \in PromoteOps => r.stage \notin Early,
         r.cmd.op \in RetireBusy => ~CatchingUp(r)
  PROVE  Keeps(h, r, l) /\ Onward(q, r)
<1>1. Stages(r)
  BY DEF Keeps, Stages, Carries, Early
<1>2. Held(h, r, l)
  BY DEF Keeps, Held, Carries, Early
<1>3. Onward(q, r)
  BY CarriesOnward DEF Keeps
<1>4. QED
  BY <1>1, <1>2, <1>3 DEF Keeps, Claims

\* The step leaves the command and the view alone.
LEMMA CalmKeeps ==
  ASSUME NEW l, NEW h, NEW q, NEW r, Keeps(h, q, l), Carries(q, r),
         r.cmd = q.cmd, r.view = q.view
  PROVE  Keeps(h, r, l) /\ Onward(q, r)
<1>1. Onward(q, r) /\ (CatchingUp(r) => CatchingUp(q))
  BY CarriesOnward DEF Keeps
<1>2. Stages(r)
  <2>1. r.cmd.op \in RetireBusy => ~CatchingUp(r)
    BY <1>1 DEF Keeps, Stages
  <2>2. QED
    BY <2>1 DEF Keeps, Stages, Carries, Early
<1>3. Held(h, r, l)
  BY DEF Keeps, Held, Carries, Early
<1>4. Catching(h, r, l)
  BY <1>1 DEF Keeps, Catching, Carries
<1>5. Claims(h, r, l) /\ Pends(h, r, l)
  BY DEF Keeps, Claims, Pends, Carries
<1>6. QED
  BY <1>1, <1>2, <1>3, <1>4, <1>5 DEF Keeps

\* An unstopped catch-up that installs a later version with its attempt still its own
\* goes on building it.
LEMMA InstallCatching ==
  ASSUME NEW l, Len(l) \in Nat, Folded(l), NEW h, NEW q, NEW r, Catching(h, q, l),
         q.view \in 0 .. Len(l), r.view \in q.view .. Len(l),
         CatchingUp(r) => CatchingUp(q), r.runAttempt = q.runAttempt,
         CatchingUp(r) =>
           /\ AttemptIn(l, r.view).id = q.runAttempt
           /\ AttemptIn(l, r.view).runner = h
  PROVE  Catching(h, r, l)
<1> DEFINE a == AttemptIn(l, q.view)
           b == AttemptIn(l, r.view)
<1>1. SUFFICES ASSUME CatchingUp(r)
               PROVE  b.id = r.runAttempt /\ b.id # 0 /\ b.runner = h /\ b.phase # "created"
  BY DEF Catching
<1>2. a.id = q.runAttempt /\ a.id # 0 /\ a.phase # "created" /\ b.id = a.id /\ b.runner = h
  BY <1>1 DEF Catching
<1>3. r.view \in 0 .. Len(l)
  OBVIOUS
<1>4. /\ Sound(StateIn(l, q.view)) /\ Sound(StateIn(l, r.view))
      /\ Leads(StateIn(l, q.view), StateIn(l, r.view))
      /\ Leads(StateIn(l, q.view), StateIn(l, q.view))
  BY <1>3, FoldedIsSound, FoldedLeads, LeadsSelf
<1>5. PhaseRank(a.phase) <= PhaseRank(b.phase)
  <2>1. PhaseRank(StateIn(l, q.view).attempt.phase) <= PhaseRank(StateIn(l, r.view).attempt.phase)
    <3>1. /\ StateIn(l, q.view).attempt.id # 0
          /\ StateIn(l, q.view).attempt.id = StateIn(l, r.view).attempt.id
      BY <1>2 DEF AttemptIn
    <3>2. StateIn(l, q.view).allocated = StateIn(l, r.view).allocated
      BY <1>4, <3>1, SoundAttempt
    <3>3. Progress(StateIn(l, q.view)) <= Progress(StateIn(l, r.view))
      BY <1>4 DEF Leads
    <3>4. /\ PhaseRank(StateIn(l, q.view).attempt.phase) \in 1 .. 6
          /\ PhaseRank(StateIn(l, r.view).attempt.phase) \in 1 .. 6
          /\ StateIn(l, q.view).allocated \in Nat
      BY <1>4, SoundAttempt, RankType
    <3>5. PICK n, k, m : /\ n = StateIn(l, q.view).allocated
                         /\ k = PhaseRank(StateIn(l, q.view).attempt.phase)
                         /\ m = PhaseRank(StateIn(l, r.view).attempt.phase)
      OBVIOUS
    <3>6. 7 * n + k <= 7 * n + m /\ n \in Nat /\ k \in 1 .. 6 /\ m \in 1 .. 6
      BY <3>2, <3>3, <3>4, <3>5 DEF Progress
    <3>7. k <= m
      BY ONLY <3>6
    <3>8. QED
      BY <3>5, <3>7
  <2>2. QED
    BY <2>1 DEF AttemptIn
<1>6. a.phase \in Phase /\ b.phase \in Phase /\ a.phase # "none"
  BY <1>2, <1>4, SoundAttempt DEF AttemptIn
<1>7. b.phase # "created"
  BY <1>2, <1>5, <1>6 DEF PhaseRank, Phase
<1>8. QED
  BY <1>2, <1>7

LEMMA CalmStep ==
  ASSUME LifecycleInv, StreamInv, NEW h \in Runner, NEW r, Update(h, r),
         Carries(handle[h], r), r.cmd = handle[h].cmd, r.view = handle[h].view,
         UNCHANGED <<log, inflight>>
  PROVE  StreamInv'
<1>1. Keeps(h, handle[h], log)
  BY DEF StreamInv
<1>2. Keeps(h, r, log) /\ Onward(handle[h], r)
  BY <1>1, CalmKeeps
<1>3. QED
  BY <1>2, QuietStep

LEMMA TurnStep ==
  ASSUME LifecycleInv, StreamInv, NEW h \in Runner, NEW r, Update(h, r),
         Carries(handle[h], r), Open(h),
         Catching(h, r, log), Pends(h, r, log),
         r.cmd.op \notin {"claim", "observe", "begin", "policy"},
         r.cmd.op \in {"catchup", "release"} => r.stage \notin {"idle", "claiming"},
         r.cmd.op \in PromoteOps => r.stage \notin Early,
         r.cmd.op \in RetireBusy => ~CatchingUp(r),
         UNCHANGED <<log, inflight>>
  PROVE  StreamInv'
<1>1. Keeps(h, handle[h], log) /\ handle[h].cmd = NoCommand /\ handle[h].alive # "gone"
  BY DEF StreamInv, Open, Unlocked
<1>2. Keeps(h, r, log) /\ Onward(handle[h], r)
  BY <1>1, TurnKeeps
<1>3. QED
  BY <1>2, QuietStep

LEMMA StreamKept ==
  ASSUME StreamInv, NEW h \in Runner
  PROVE  Keeps(h, handle[h], log) /\ Stages(handle[h])
BY DEF StreamInv, Keeps

LEMMA ProcessorReturnCalm ==
  ASSUME LifecycleInv, StreamInv, NEW h \in Runner, ProcessorReturn(h)
  PROVE  StreamInv'
<1>1. PICK r : r = [handle[h] EXCEPT !.processor = "returned"] /\ Update(h, r)
  BY DEF ProcessorReturn
<1>2. Carries(handle[h], r) /\ r.cmd = handle[h].cmd /\ r.view = handle[h].view
  BY <1>1, Shape DEF Carries, NewHandle
<1>3. QED
  BY <1>1, <1>2, CalmStep DEF ProcessorReturn

LEMMA PublishProcessorExitCalm ==
  ASSUME LifecycleInv, StreamInv, NEW h \in Runner, PublishProcessorExit(h)
  PROVE  StreamInv'
<1>1. PICK r : /\ r = [handle[h] EXCEPT !.processor = "exited", !.certificate = NoCertificate]
               /\ Update(h, r)
  BY DEF PublishProcessorExit
<1>2. Carries(handle[h], r) /\ r.cmd = handle[h].cmd /\ r.view = handle[h].view
  BY <1>1, Shape DEF Carries, NewHandle
<1>3. QED
  BY <1>1, <1>2, CalmStep DEF PublishProcessorExit

LEMMA CancelRunCalm ==
  ASSUME LifecycleInv, StreamInv, NEW h \in Runner, CancelRun(h)
  PROVE  StreamInv'
<1>1. PICK r : /\ r = [handle[h] EXCEPT !.ctxDone = TRUE, !.cancel = TRUE]
               /\ Update(h, r)
  BY DEF CancelRun
<1>2. Carries(handle[h], r) /\ r.cmd = handle[h].cmd /\ r.view = handle[h].view
  BY <1>1, Shape DEF Carries, NewHandle
<1>3. QED
  BY <1>1, <1>2, CalmStep DEF CancelRun

LEMMA ReconcileExitCalm ==
  ASSUME LifecycleInv, StreamInv, NEW h \in Runner, ReconcileExit(h)
  PROVE  StreamInv'
<1>1. PICK r : r = [handle[h] EXCEPT !.reconciling = FALSE] /\ Update(h, r)
  BY DEF ReconcileExit
<1>2. Carries(handle[h], r) /\ r.cmd = handle[h].cmd /\ r.view = handle[h].view
  BY <1>1, Shape DEF Carries, NewHandle
<1>3. QED
  BY <1>1, <1>2, CalmStep DEF ReconcileExit

\* A terminal stop leaves the run where it is.
LEMMA TerminalStopCalm ==
  ASSUME NEW q, DOMAIN q = DOMAIN NewHandle, NEW cause
  PROVE  LET r == TerminalStop(q, cause)
         IN  /\ Carries(q, r) /\ r.cmd = q.cmd /\ r.view = q.view /\ r.stage = q.stage
             /\ DOMAIN r = DOMAIN NewHandle
BY DEF TerminalStop, Carries, NewHandle

LEMMA ReconcileFailCalm ==
  ASSUME LifecycleInv, StreamInv, NEW h \in Runner, ReconcileFail(h)
  PROVE  StreamInv'
<1>1. PICK q, r : /\ q = TerminalStop(handle[h], "reconcile")
                  /\ r = [q EXCEPT !.cancel = TRUE, !.reconciling = FALSE]
                  /\ Update(h, r)
  BY Zenon DEF ReconcileFail
<1>2. /\ Carries(handle[h], q) /\ q.cmd = handle[h].cmd /\ q.view = handle[h].view
      /\ DOMAIN q = DOMAIN NewHandle
  BY <1>1, Shape, TerminalStopCalm
<1>3. Carries(handle[h], r) /\ r.cmd = handle[h].cmd /\ r.view = handle[h].view
  BY <1>1, <1>2 DEF Carries, NewHandle
<1>4. QED
  BY <1>1, <1>3, CalmStep DEF ReconcileFail

LEMMA DrainedCalm ==
  ASSUME LifecycleInv, StreamInv, NEW h \in Runner, Drained(h)
  PROVE  StreamInv'
<1>1. PICK r : r = [handle[h] EXCEPT !.stage = "closing", !.cancel = TRUE] /\ Update(h, r)
  BY DEF Drained
<1>2. Carries(handle[h], r) /\ r.cmd = handle[h].cmd /\ r.view = handle[h].view
  BY <1>1, Shape DEF Carries, NewHandle, Drained, Early
<1>3. QED
  BY <1>1, <1>2, CalmStep DEF Drained

LEMMA ClassifyExitCalm ==
  ASSUME LifecycleInv, StreamInv, NEW h \in Runner, ClassifyExit(h)
  PROVE  StreamInv'
<1>1. PICK x, r : /\ r = [handle[h] EXCEPT !.stage = "releasing",
                                           !.certificate = NoCertificate, !.result = x]
                  /\ Update(h, r)
  BY Zenon DEF ClassifyExit
<1>2. Carries(handle[h], r) /\ r.cmd = handle[h].cmd /\ r.view = handle[h].view
  BY <1>1, Shape DEF Carries, NewHandle, ClassifyExit, Early
<1>3. QED
  BY <1>1, <1>2, CalmStep DEF ClassifyExit

LEMMA ResolveHaltCalm ==
  ASSUME LifecycleInv, StreamInv, NEW h \in Runner, ResolveHalt(h)
  PROVE  StreamInv'
<1>1. PICK slot, r : /\ r = [handle[h] EXCEPT !.stage = "winding", !.cancel = TRUE,
                                              !.slot = slot]
                     /\ Update(h, r)
  BY Zenon DEF ResolveHalt, Winding
<1>2. Carries(handle[h], r) /\ r.cmd = handle[h].cmd /\ r.view = handle[h].view
  BY <1>1, Shape DEF Carries, NewHandle, ResolveHalt, Early
<1>3. QED
  BY <1>1, <1>2, CalmStep DEF ResolveHalt

-----------------------------------------------------------------------------
(* Commands of the run itself.                                              *)

LEMMA ViewIn ==
  ASSUME NEW h
  PROVE  View(h) = StateIn(log, handle[h].view) /\ StateAt(Tip) = StateIn(log, Tip)
BY DEF View, StateAt, StateIn

\* What a handle sees is sound.
LEMMA SoundView ==
  ASSUME LifecycleInv, StreamInv, NEW h \in Runner
  PROVE  /\ Sound(View(h)) /\ Sound(StateAt(Tip))
         /\ \A v \in 0 .. Tip : Sound(StateAt(v)) /\ StateAt(v) = StateIn(log, v)
<1>1. Tip \in Nat /\ Tip = Len(log) /\ handle[h].view \in 0 .. Tip
  BY Shape DEF Tip
<1>2. \A v \in 0 .. Tip : Sound(StateIn(log, v))
  BY <1>1, FoldedIsSound DEF StreamInv
<1>3. QED
  BY <1>1, <1>2 DEF View, StateAt, StateIn

LEMMA CatchUpPends ==
  ASSUME LifecycleInv, StreamInv, NEW h \in Runner, NEW p \in Position, CatchUp(h, p)
  PROVE  StreamInv'
<1> DEFINE q == handle[h]
<1>0. Open(h) /\ q.stage = "catchup" /\ UNCHANGED <<log, inflight>>
  BY DEF CatchUp
<1>1. CASE StoppedMeanwhile(h)
  <2>1. PICK x, r : r = [handle[h] EXCEPT !.stage = "tailing", !.result = x] /\ Update(h, r)
    BY <1>1, Zenon DEF CatchUp
  <2>2. Carries(handle[h], r) /\ r.cmd = handle[h].cmd /\ r.view = handle[h].view
    BY <1>0, <2>1, Shape DEF Carries, NewHandle, Early
  <2>3. QED
    BY <1>0, <2>1, <2>2, CalmStep
<1>2. CASE ~StoppedMeanwhile(h)
  <2>1. PICK r : r = [q EXCEPT !.cmd = Pending("catchup", <<CaughtUp(p)>>)] /\ Update(h, r)
    BY <1>2 DEF CatchUp
  <2>2. /\ Carries(q, r) /\ r.view = q.view /\ r.cmd = Pending("catchup", <<CaughtUp(p)>>)
        /\ r.stage = q.stage /\ r.stopped = q.stopped /\ r.runAttempt = q.runAttempt
    BY <2>1, Shape DEF Carries, NewHandle
  <2>3. /\ r.cmd.op = "catchup" /\ r.cmd.evs = <<CaughtUp(p)>>
        /\ r.cmd.evs[1] = CaughtUp(p) /\ CaughtUp(p).type = "CaughtUp"
    BY <2>2 DEF Pending, CaughtUp
  <2>4. Catching(h, q, log) /\ CatchingUp(q) /\ Held(h, q, log)
    BY <1>0, <1>2, StreamKept DEF Keeps, CatchingUp, StoppedMeanwhile
  <2>5. Catching(h, r, log)
    BY <2>2, <2>4 DEF Catching, CatchingUp
  <2> DEFINE s == StateIn(log, q.view)
             a == AttemptIn(log, q.view)
  <2>6. a.id # 0 /\ a.runner = h /\ a.phase # "created"
    BY <2>4 DEF Catching
  <2>7. Sound(s) /\ q.view \in 0 .. Tip /\ Tip \in Nat /\ a = s.attempt /\ Tip = Len(log)
    BY SoundView, ViewIn, Shape DEF AttemptIn, Tip
  <2>8. q.view # 0
    <3>1. AttemptIn(log, 0).id = 0
      BY DEF AttemptIn, StateIn, NewState, NoAttempt
    <3>2. QED
      BY <2>6, <3>1
  <2>9. a.phase \notin Flipped
    BY <1>0, <2>4, <2>6, <2>7, <2>8 DEF Held
  <2>10. s.attempt.phase \in {"building", "caught_up"}
    <3>1. s.attempt.phase \in Phase /\ s.attempt.phase # "none"
      BY <2>6, <2>7, SoundAttempt
    <3>2. QED
      BY <2>6, <2>7, <2>9, <3>1 DEF Phase, Flipped
  <2>11. p \in Int
    BY LifecycleBounds
  <2>12. Accepts(CaughtUp(p), s) /\ NamedEvent(CaughtUp(p))
    BY <2>7, <2>10, <2>11, CatchUpAccepted
  <2>13. Pends(h, r, log)
    BY <2>2, <2>3, <2>12 DEF Pends, Writes, Accepted
  <2>14. QED
    BY <1>0, <2>1, <2>2, <2>3, <2>5, <2>13, TurnStep DEF PromoteOps, RetireBusy, RetireOps
<1>3. QED
  BY <1>1, <1>2

\* A licensed promotion is the next event of the state in view.
LEMMA LicensedWrites ==
  ASSUME LifecycleInv, StreamInv, NEW h \in Runner, CanPromote(h)
  PROVE  /\ Writes(h, <<Promotion(h)>>, View(h)) /\ Promotion(h).type = "Promoted"
         /\ handle[h].stage \notin Early
<1> DEFINE s == View(h)
           e == Promotion(h)
<1>1. /\ Sound(s) /\ s.attempt.phase = "caught_up" /\ s.cutoverRevision # MaxInt64
      /\ s.attempt.runner = h /\ handle[h].certificate # NoCertificate
  BY SoundView DEF CanPromote, Promotable, Licensed
<1>2. Accepts(e, s) /\ NamedEvent(e)
  BY <1>1, PromotionAccepted DEF Promotion
<1>3. e.type = "Promoted"
  BY DEF Promotion, Promoted
<1>4. handle[h].stage \notin Early
  BY <1>1, StreamKept DEF Stages
<1> HIDE DEF e, s
<1>5. Writes(h, <<e>>, s)
  BY <1>1, <1>2, <1>3 DEF Writes, Accepted
<1>6. QED
  BY <1>3, <1>4, <1>5 DEF e, s

\* A promotion made pending, from the view, by a run that stays where it is.
LEMMA PromotionTurns ==
  ASSUME LifecycleInv, StreamInv, NEW h \in Runner, Open(h), CanPromote(h),
         NEW op \in PromoteOps, UNCHANGED <<log, inflight>>,
         Update(h, [handle[h] EXCEPT !.cmd = Pending(op, <<Promotion(h)>>)])
  PROVE  StreamInv'
<1> DEFINE q == handle[h]
<1>1. PICK evs : evs = <<Promotion(h)>> /\ evs[1] = Promotion(h)
  OBVIOUS
<1>2. PICK r : r = [q EXCEPT !.cmd = Pending(op, evs)] /\ Update(h, r)
  BY <1>1
<1>3. /\ Carries(q, r) /\ r.view = q.view /\ r.cmd.op = op /\ r.cmd.evs = evs
      /\ r.stage = q.stage /\ r.stopped = q.stopped /\ r.runAttempt = q.runAttempt
  BY <1>2, Shape DEF Carries, NewHandle, Pending
<1>4. /\ Writes(h, evs, StateIn(log, q.view)) /\ evs[1].type = "Promoted"
      /\ q.stage \notin Early
  BY <1>1, LicensedWrites, ViewIn
<1>5. Pends(h, r, log)
  BY <1>3, <1>4 DEF Pends
<1>6. Catching(h, r, log) /\ ~CatchingUp(r)
  BY <1>3, <1>4 DEF Catching, CatchingUp, Early
<1>7. QED
  BY <1>2, <1>3, <1>4, <1>5, <1>6, TurnStep DEF PromoteOps

\* A refused promotion at most drops a certificate.
LEMMA RefusalCarries ==
  ASSUME LifecycleInv, NEW h \in Runner
  PROVE  LET r == PromotionRefused(h)
         IN  /\ Carries(handle[h], r) /\ r.cmd = handle[h].cmd /\ r.view = handle[h].view
             /\ r.stage = handle[h].stage /\ DOMAIN r = DOMAIN NewHandle
BY Shape DEF PromotionRefused, Carries, NewHandle

LEMMA PromotePends ==
  ASSUME LifecycleInv, StreamInv, NEW h \in Runner, Promote(h)
  PROVE  StreamInv'
<1>1. Open(h) /\ UNCHANGED <<log, inflight>>
  BY DEF Promote
<1>2. CASE CanPromote(h)
  BY <1>1, <1>2, PromotionTurns DEF Promote, PromoteOps
<1>3. CASE ~CanPromote(h)
  <2>1. Update(h, PromotionRefused(h))
    BY <1>3 DEF Promote
  <2>2. QED
    BY <1>1, <2>1, RefusalCarries, CalmStep
<1>4. QED
  BY <1>2, <1>3

LEMMA PromoteAfterCatchUpPends ==
  ASSUME LifecycleInv, StreamInv, NEW h \in Runner, PromoteAfterCatchUp(h)
  PROVE  StreamInv'
<1>1. Open(h) /\ UNCHANGED <<log, inflight>> /\ handle[h].stage = "promoting"
  BY DEF PromoteAfterCatchUp
<1>2. CASE CanPromote(h)
  BY <1>1, <1>2, PromotionTurns DEF PromoteAfterCatchUp, PromoteOps
<1>3. CASE ~CanPromote(h)
  <2>1. PICK q, r : /\ q = PromotionRefused(h)
                    /\ r = [q EXCEPT !.stage = "winding", !.cancel = TRUE]
                    /\ Update(h, r)
    BY <1>3, Zenon DEF PromoteAfterCatchUp
  <2>2. Carries(handle[h], r) /\ r.cmd = handle[h].cmd /\ r.view = handle[h].view
    BY <1>1, <2>1, RefusalCarries DEF Carries, NewHandle, Early
  <2>3. QED
    BY <1>1, <2>1, <2>2, CalmStep
<1>4. QED
  BY <1>2, <1>3

LEMMA ResolveRetryPends ==
  ASSUME LifecycleInv, StreamInv, NEW h \in Runner, ResolveRetry(h)
  PROVE  StreamInv'
<1>1. Open(h) /\ UNCHANGED <<log, inflight>>
  BY DEF ResolveRetry
<1>2. CASE CanPromote(h)
  BY <1>1, <1>2, PromotionTurns DEF ResolveRetry, PromoteOps
<1>3. CASE ~CanPromote(h)
  <2>1. Update(h, PromotionRefused(h))
    BY <1>3 DEF ResolveRetry
  <2>2. QED
    BY <1>1, <2>1, RefusalCarries, CalmStep
<1>4. QED
  BY <1>2, <1>3

LEMMA ReleaseClaimPends ==
  ASSUME LifecycleInv, StreamInv, NEW h \in Runner, ReleaseClaim(h)
  PROVE  StreamInv'
<1> DEFINE q == handle[h]
           s == View(h)
           a == s.attempt
           will == a.phase # "none" /\ a.runner = h /\ ~a.released /\ Valid(s)
<1>0. /\ q.stage = "releasing" /\ q.cmd = NoCommand /\ UNCHANGED <<log, inflight>>
      /\ q.alive # "gone"
  BY StreamKept DEF ReleaseClaim, Unlocked, Stages
<1>1. CASE ~will
  <2>1. PICK r : r = [q EXCEPT !.stage = "done"] /\ Update(h, r)
    BY <1>1 DEF ReleaseClaim
  <2>2. Carries(q, r) /\ r.cmd = q.cmd /\ r.view = q.view
    BY <1>0, <2>1, Shape DEF Carries, NewHandle, Early
  <2>3. QED
    BY <1>0, <2>1, <2>2, CalmStep
<1>2. CASE will
  <2>1. PICK e, evs, r : /\ e = RunnerReleased(a.id, h) /\ evs = <<e>> /\ evs[1] = e
                         /\ r = [q EXCEPT !.cmd = Pending("release", evs)]
                         /\ Update(h, r)
    BY <1>2 DEF ReleaseClaim
  <2>2. /\ Carries(q, r) /\ r.view = q.view /\ r.cmd.op = "release" /\ r.cmd.evs = evs
        /\ r.stage = q.stage
    BY <2>1, Shape DEF Carries, NewHandle, Pending
  <2>3. Accepts(e, s) /\ NamedEvent(e) /\ e.type = "RunnerReleased"
    BY <1>2, <2>1, SoundView, ReleaseAccepted DEF RunnerReleased
  <2>4. Pends(h, r, log)
    BY <2>1, <2>2, <2>3, ViewIn DEF Pends, Writes, Accepted
  <2>5. Catching(h, r, log) /\ ~CatchingUp(r)
    BY <1>0, <2>2 DEF Catching, CatchingUp
  <2>6. Keeps(h, r, log) /\ Onward(q, r)
    <3>1. Keeps(h, q, log) /\ r.cmd.op = "release"
      BY <2>2, StreamKept
    <3>2. /\ "release" \notin {"claim", "observe", "begin", "policy"}
          /\ "release" \notin PromoteOps
      BY DEF PromoteOps
    <3>3. QED
      BY <1>0, <2>2, <2>4, <2>5, <3>1, <3>2, TurnKeeps
  <2>7. QED
    BY <1>0, <2>1, <2>6, QuietStep
<1>3. QED
  BY <1>1, <1>2

-----------------------------------------------------------------------------
(* The reconcile loop and the losses: later versions installed.             *)

\* Installing a version no older than the view, without a command.
LEMMA InstallStep ==
  ASSUME LifecycleInv, StreamInv, NEW h \in Runner, NEW r, Update(h, r),
         Carries(handle[h], r), handle[h].cmd = NoCommand, r.cmd = NoCommand,
         r.view \in handle[h].view .. Tip,
         CatchingUp(r) =>
           /\ AttemptIn(log, r.view).id = handle[h].runAttempt
           /\ AttemptIn(log, r.view).runner = h,
         UNCHANGED <<log, inflight>>
  PROVE  StreamInv'
<1> DEFINE q == handle[h]
<1>1. Keeps(h, q, log) /\ (CatchingUp(r) => CatchingUp(q)) /\ r.runAttempt = q.runAttempt
  BY StreamKept, CarriesOnward DEF Carries
<1>2. /\ Len(log) \in Nat /\ q.view \in 0 .. Len(log) /\ r.view \in q.view .. Len(log)
      /\ Folded(log)
  BY Shape DEF Tip, StreamInv
<1>3. Catching(h, r, log)
  BY <1>1, <1>2, InstallCatching DEF Keeps
<1>4. /\ r.cmd.op = "none" /\ "none" \notin SaveOps \cup RetireOps \cup PromoteOps \cup RetireBusy
      /\ "none" \notin {"claim", "observe", "begin", "policy"}
  BY DEF NoCommand, SaveOps, RetireOps, PromoteOps, RetireBusy
<1>5. Pends(h, r, log)
  BY <1>4 DEF Pends
<1>6. Keeps(h, r, log) /\ Onward(q, r)
  BY <1>1, <1>3, <1>4, <1>5, TurnKeeps
<1>7. QED
  BY <1>6, QuietStep

LEMMA ReconcileInstalls ==
  ASSUME LifecycleInv, StreamInv, NEW h \in Runner, NEW v, Reconcile(h, v)
  PROVE  StreamInv'
<1> DEFINE q == handle[h]
           s == StateAt(v)
           over == Superseded(h, s)
<1>0. /\ q.cmd = NoCommand /\ UNCHANGED <<log, inflight>> /\ v \in q.view .. Tip
      /\ q.view \in 0 .. Tip /\ Tip \in Nat
  BY Shape DEF Reconcile, Unlocked
<1>1. Valid(s) /\ s.attempt = AttemptIn(log, v)
  <2>1. v \in 0 .. Tip
    BY <1>0
  <2>2. QED
    BY <2>1, SoundView DEF Sound, AttemptIn
<1>2. PICK x, c, y, z, r :
        /\ r = [q EXCEPT !.view = v, !.stopped = over, !.failure = x, !.certificate = c,
                         !.cancel = y, !.reconciling = z]
        /\ c \in {NoCertificate, q.certificate}
        /\ Update(h, r)
  <2>1. Update(h, [q EXCEPT !.view = v, !.stopped = over,
                            !.failure = IF Displaced(h, s) THEN "displaced" ELSE @,
                            !.certificate = IF over THEN NoCertificate ELSE @,
                            !.cancel = @ \/ over,
                            !.reconciling = ~over])
    BY <1>1 DEF Reconcile
  <2>2. QED
    BY <2>1, Zenon
<1>3. /\ Carries(q, r) /\ r.cmd = q.cmd /\ r.view = v /\ r.stopped = over
  BY <1>2, Shape DEF Carries, NewHandle, Reconcile
<1>4. CatchingUp(r) => ~over
  BY <1>3 DEF CatchingUp
<1>5. CatchingUp(r) => AttemptIn(log, v).id = q.runAttempt /\ AttemptIn(log, v).runner = h
  BY <1>1, <1>4 DEF Superseded, Ended, Displaced
<1>6. QED
  BY <1>0, <1>2, <1>3, <1>5, InstallStep

\* The verdict of the slot's event on a run past its catch-up.
LEMMA DefeatCarries ==
  ASSUME LifecycleInv, StreamInv, NEW h \in Runner, NEW slot \in 0 .. Tip
  PROVE  LET r == SlotDefeat(h, slot)
         IN  /\ Carries(handle[h], r) /\ r.cmd = handle[h].cmd /\ r.stage = handle[h].stage
             /\ r.view \in handle[h].view .. Tip /\ DOMAIN r = DOMAIN NewHandle
<1> DEFINE q == handle[h]
           s == StateAt(slot)
<1>1. PICK r : r = SlotDefeat(h, slot)
  OBVIOUS
<1>2. /\ Carries(q, q) /\ DOMAIN q = DOMAIN NewHandle /\ q.view \in q.view .. Tip
      /\ q.view \in 0 .. Tip /\ Tip \in Nat
  BY Shape DEF Carries
<1>3. CASE ~Valid(s)
  <2>1. r = TerminalStop(q, "invalid")
    BY <1>1, <1>3 DEF SlotDefeat
  <2>2. QED
    BY <1>1, <1>2, <2>1, TerminalStopCalm
<1>4. CASE Valid(s) /\ (q.commandEnded = q.runAttempt \/ q.stopped)
  <2>1. PICK x : r = q \/ r = [q EXCEPT !.failure = x]
    BY <1>1, <1>4 DEF SlotDefeat
  <2>2. QED
    BY <1>1, <1>2, <2>1 DEF Carries, NewHandle
<1>5. CASE Valid(s) /\ ~(q.commandEnded = q.runAttempt \/ q.stopped)
  <2>1. PICK v, x, y, c : /\ r = [q EXCEPT !.view = v, !.stopped = x, !.failure = y,
                                           !.certificate = c]
                          /\ v = MaxOf(q.view, slot)
                          /\ c \in {NoCertificate, q.certificate}
    BY <1>1, <1>5, Zenon DEF SlotDefeat
  <2>2. v \in q.view .. Tip
    BY <1>2, <2>1 DEF MaxOf
  <2>3. QED
    BY <1>1, <1>2, <1>5, <2>1, <2>2 DEF Carries, NewHandle
<1>6. QED
  BY <1>3, <1>4, <1>5

LEMMA ResolveSlotInstalls ==
  ASSUME LifecycleInv, StreamInv, NEW h \in Runner, ResolveSlot(h)
  PROVE  StreamInv'
<1> DEFINE q == handle[h]
           slot == q.slot
           s == StateAt(slot)
<1>1. /\ slot \in 0 .. Tip /\ q.cmd = NoCommand /\ UNCHANGED <<log, inflight>>
      /\ q.view \in 0 .. Tip /\ Tip \in Nat /\ q.stage = "resolving"
  <2>1. Tip >= slot /\ slot \in Nat /\ Tip \in Nat
    BY Shape, Zenon DEF ResolveSlot
  <2>2. slot \in 0 .. Tip
    BY <2>1
  <2>3. q.cmd = NoCommand /\ UNCHANGED <<log, inflight>> /\ q.stage = "resolving"
    BY Zenon DEF ResolveSlot, Open, Unlocked
  <2>4. QED
    BY <2>2, <2>3, Shape
<1>2. CASE Valid(s) /\ ~Ended(h, s) /\ s.attempt.phase = "promoted"
  <2>1. PICK v \in (slot .. Tip) \cup {0} :
          Update(h, [q EXCEPT !.view = MaxOf(@, v), !.certificate = NoCertificate,
                              !.stage = "tailing"])
    BY <1>2, Zenon DEF ResolveSlot
  <2>2. PICK r : /\ r = [q EXCEPT !.view = MaxOf(@, v), !.certificate = NoCertificate,
                                  !.stage = "tailing"]
                 /\ Update(h, r)
    BY <2>1
  <2>3. MaxOf(q.view, v) \in q.view .. Tip
    BY <1>1, <2>1 DEF MaxOf
  <2>4. /\ Carries(q, r) /\ r.cmd = q.cmd /\ r.view \in q.view .. Tip
        /\ r.stage = "tailing"
    BY <1>1, <2>2, <2>3, Shape DEF Carries, NewHandle, Early
  <2>5. ~CatchingUp(r)
    BY <2>4 DEF CatchingUp
  <2>6. QED
    BY <1>1, <2>2, <2>4, <2>5, InstallStep
<1>3. CASE ~(Valid(s) /\ ~Ended(h, s) /\ s.attempt.phase = "promoted")
  <2>1. PICK p, r : /\ p = SlotDefeat(h, slot)
                    /\ r = [p EXCEPT !.stage = "winding", !.cancel = TRUE, !.slot = 0]
                    /\ Update(h, r)
    BY <1>3, Zenon DEF ResolveSlot, Winding
  <2>2. /\ Carries(q, p) /\ p.cmd = q.cmd /\ p.view \in q.view .. Tip
        /\ DOMAIN p = DOMAIN NewHandle
    BY <1>1, <2>1, DefeatCarries
  <2>3. /\ Carries(q, r) /\ r.cmd = q.cmd /\ r.view \in q.view .. Tip
        /\ r.stage = "winding"
    BY <1>1, <2>1, <2>2 DEF Carries, NewHandle, Early
  <2>4. ~CatchingUp(r)
    BY <2>3 DEF CatchingUp
  <2>5. QED
    BY <1>1, <2>1, <2>3, <2>4, InstallStep
<1>4. QED
  BY <1>2, <1>3

LEMMA WoundInstalls ==
  ASSUME LifecycleInv, StreamInv, NEW h \in Runner, Wound(h)
  PROVE  StreamInv'
<1> DEFINE q == handle[h]
<1>1. q.cmd = NoCommand /\ q.stage = "winding" /\ UNCHANGED <<log, inflight>>
  BY DEF Wound, Open, Unlocked
<1>2. PICK p, r : /\ p = q \/ (q.slot \in 1 .. Tip /\ p = SlotDefeat(h, q.slot))
                  /\ r = [p EXCEPT !.stage = "closing"]
                  /\ Update(h, r)
  BY DEF Wound
<1>3. /\ Carries(q, p) /\ p.cmd = q.cmd /\ p.view \in q.view .. Tip
      /\ DOMAIN p = DOMAIN NewHandle
  <2>1. CASE p = q
    BY <2>1, Shape DEF Carries
  <2>2. CASE q.slot \in 1 .. Tip /\ p = SlotDefeat(h, q.slot)
    <3>1. q.slot \in 0 .. Tip
      BY <2>2
    <3>2. QED
      BY <2>2, <3>1, DefeatCarries
  <2>3. QED
    BY <1>2, <2>1, <2>2
<1>4. /\ Carries(q, r) /\ r.cmd = q.cmd /\ r.view \in q.view .. Tip
      /\ r.stage = "closing"
  BY <1>1, <1>2, <1>3 DEF Carries, NewHandle, Early
<1>5. ~CatchingUp(r)
  BY <1>4 DEF CatchingUp
<1>6. QED
  BY <1>1, <1>2, <1>4, <1>5, InstallStep

-----------------------------------------------------------------------------
(* Rollback, Abandon and Retire: the tip installed, a command made pending. *)

LEMMA RefoldStep ==
  ASSUME LifecycleInv, StreamInv, ForeignRefold = FALSE, NEW h \in Runner, Refolds(h),
         NEW r, Update(h, r), Carries(handle[h], r), r.view = Tip,
         r.stage = handle[h].stage, r.stopped = handle[h].stopped,
         Pends(h, r, log),
         r.cmd.op \notin {"claim", "observe", "begin", "policy", "catchup", "release"} \cup PromoteOps,
         r.cmd.op \in RetireBusy => ~CatchingUp(r),
         UNCHANGED <<log, inflight>>
  PROVE  StreamInv'
<1> DEFINE q == handle[h]
           s == StateAt(Tip)
<1>1. Keeps(h, q, log) /\ (CatchingUp(r) => CatchingUp(q)) /\ r.runAttempt = q.runAttempt
  BY StreamKept, CarriesOnward DEF Carries
<1>2. /\ Len(log) \in Nat /\ q.view \in 0 .. Len(log) /\ r.view \in q.view .. Len(log)
      /\ Folded(log) /\ Tip \in 0 .. Tip
  BY Shape DEF Tip, StreamInv
<1>3. CatchingUp(r) => AttemptIn(log, r.view).id = q.runAttempt /\ AttemptIn(log, r.view).runner = h
  <2>1. ASSUME CatchingUp(r) PROVE ~Superseded(h, s)
    BY <2>1 DEF Refolds, CatchingUp
  <2>2. s.attempt = AttemptIn(log, r.view)
    BY <1>2, SoundView DEF AttemptIn
  <2>3. QED
    BY <2>1, <2>2 DEF Superseded, Ended, Displaced
<1>4. Catching(h, r, log)
  BY <1>1, <1>2, <1>3, InstallCatching DEF Keeps
<1>5. QED
  BY <1>4, TurnStep DEF Refolds

LEMMA NoCommandPends ==
  ASSUME NEW h, NEW r, NEW l, r.cmd = NoCommand
  PROVE  /\ Pends(h, r, l) /\ r.cmd.op = "none"
         /\ r.cmd.op \notin {"claim", "observe", "begin", "policy", "catchup", "release"} \cup PromoteOps \cup RetireBusy
BY DEF NoCommand, Pends, SaveOps, RetireOps, PromoteOps, RetireBusy

LEMMA RollbackPends ==
  ASSUME LifecycleInv, StreamInv, ForeignRefold = FALSE, NEW h \in Runner, Rollback(h)
  PROVE  StreamInv'
<1> DEFINE q == handle[h]
           s == StateAt(Tip)
<1>1. Refolds(h) /\ UNCHANGED <<log, inflight>>
  BY DEF Rollback
<1>2. PICK e, evs, c, r :
        /\ e = RolledBack(s.live, s.attempt.previous, s.cutoverRevision + 1)
        /\ evs = <<e>> /\ evs[1] = e
        /\ c = (IF CanRollBack(s) THEN Pending("rollback", evs) ELSE NoCommand)
        /\ r = [q EXCEPT !.view = Tip, !.cmd = c]
        /\ Update(h, r)
  <2> DEFINE e == RolledBack(s.live, s.attempt.previous, s.cutoverRevision + 1)
             evs == <<e>>
             c == IF CanRollBack(s) THEN Pending("rollback", evs) ELSE NoCommand
  <2>1. Update(h, [q EXCEPT !.view = Tip, !.cmd = c])
    BY DEF Rollback
  <2>2. evs[1] = e
    OBVIOUS
  <2>3. QED
    BY <2>1, <2>2, Zenon
<1>3. /\ Carries(q, r) /\ r.view = Tip /\ r.cmd = c
      /\ r.stage = q.stage /\ r.stopped = q.stopped
  BY <1>2, Shape DEF Carries, NewHandle
<1>4. CASE CanRollBack(s)
  <2>1. r.cmd.op = "rollback" /\ r.cmd.evs = evs
    BY <1>2, <1>3, <1>4 DEF Pending
  <2>2. Accepts(e, s) /\ NamedEvent(e) /\ e.type = "RolledBack"
    BY <1>2, <1>4, SoundView, RollbackAccepted DEF RolledBack, CanRollBack
  <2>3. Pends(h, r, log)
    BY <1>2, <1>3, <2>1, <2>2, ViewIn DEF Pends, Writes, Accepted
  <2>4. "rollback" \notin {"claim", "observe", "begin", "policy", "catchup", "release"} \cup PromoteOps \cup RetireBusy
    BY DEF PromoteOps, RetireBusy, RetireOps
  <2>5. QED
    BY <1>1, <1>2, <1>3, <2>1, <2>3, <2>4, RefoldStep
<1>5. CASE ~CanRollBack(s)
  <2>1. r.cmd = NoCommand
    BY <1>2, <1>3, <1>5
  <2>2. QED
    BY <1>1, <1>2, <1>3, <2>1, NoCommandPends, RefoldStep
<1>6. QED
  BY <1>4, <1>5

LEMMA AbandonPends ==
  ASSUME LifecycleInv, StreamInv, ForeignRefold = FALSE, NEW h \in Runner, Abandon(h)
  PROVE  StreamInv'
<1> DEFINE q == handle[h]
           s == StateAt(Tip)
           can == Valid(s) /\ s.attempt.phase \in {"created", "building", "caught_up"}
<1>1. Refolds(h) /\ UNCHANGED <<log, inflight>>
  BY DEF Abandon
<1>2. PICK evs, c, r :
        /\ evs = <<Abandoned>> /\ evs[1] = Abandoned
        /\ c = (IF can THEN Pending("abandon", evs) ELSE NoCommand)
        /\ r = [q EXCEPT !.view = Tip, !.cmd = c]
        /\ Update(h, r)
  <2> DEFINE evs == <<Abandoned>>
             c == IF can THEN Pending("abandon", evs) ELSE NoCommand
  <2>1. Update(h, [q EXCEPT !.view = Tip, !.cmd = c])
    BY DEF Abandon
  <2>2. evs[1] = Abandoned
    OBVIOUS
  <2>3. QED
    BY <2>1, <2>2, Zenon
<1>3. /\ Carries(q, r) /\ r.view = Tip /\ r.cmd = c
      /\ r.stage = q.stage /\ r.stopped = q.stopped
  BY <1>2, Shape DEF Carries, NewHandle
<1>4. CASE can
  <2>1. r.cmd.op = "abandon" /\ r.cmd.evs = evs
    BY <1>2, <1>3, <1>4 DEF Pending
  <2>2. Accepts(Abandoned, s) /\ NamedEvent(Abandoned) /\ Abandoned.type = "Abandoned"
    BY <1>4, SoundView, AbandonmentAccepted DEF Abandoned
  <2>3. Pends(h, r, log)
    BY <1>2, <1>3, <2>1, <2>2, ViewIn DEF Pends, Writes, Accepted
  <2>4. "abandon" \notin {"claim", "observe", "begin", "policy", "catchup", "release"} \cup PromoteOps \cup RetireBusy
    BY DEF PromoteOps, RetireBusy, RetireOps
  <2>5. QED
    BY <1>1, <1>2, <1>3, <2>1, <2>3, <2>4, RefoldStep
<1>5. CASE ~can
  <2>1. r.cmd = NoCommand
    BY <1>2, <1>3, <1>5
  <2>2. QED
    BY <1>1, <1>2, <1>3, <2>1, NoCommandPends, RefoldStep
<1>6. QED
  BY <1>4, <1>5

\* An unstopped catch-up that is not superseded has no promoted attempt before it.
LEMMA CatchUpIsEarly ==
  ASSUME LifecycleInv, StreamInv, NEW h \in Runner, CatchingUp(handle[h]),
         ~Superseded(h, StateAt(Tip))
  PROVE  StateAt(Tip).attempt.phase \notin Flipped
<1> DEFINE s == StateAt(Tip)
<1>1. Tip \in Nat /\ Tip = Len(log) /\ Sound(s) /\ s.attempt = AttemptIn(log, Tip)
  BY SoundView, Shape DEF Tip, AttemptIn
<1>2. s.attempt.runner = h
  BY DEF Superseded, Ended, Displaced
<1>3. Tip # 0
  <2>1. h # NoRunner
    BY NoRunnerAssumption
  <2>2. QED
    BY <1>1, <1>2, <2>1 DEF AttemptIn, StateIn, NewState, NoAttempt
<1>4. Held(h, handle[h], log)
  BY StreamKept DEF Keeps
<1>5. QED
  BY <1>1, <1>2, <1>3, <1>4 DEF Held, CatchingUp

LEMMA RetirePends ==
  ASSUME LifecycleInv, StreamInv, ForeignRefold = FALSE, NEW h \in Runner,
         NEW override \in BOOLEAN, Retire(h, override)
  PROVE  StreamInv'
<1> DEFINE q == handle[h]
           s == StateAt(Tip)
<1>1. Refolds(h) /\ UNCHANGED <<log, inflight>>
  BY DEF Retire
<1>2. PICK refused : 
        /\ RetireRefused(s, override) => refused
        /\ Update(h, [q EXCEPT
             !.view = Tip,
             !.cmd = IF refused THEN NoCommand
                     ELSE [op   |-> IF s.attempt.previous = 0 THEN "complete"
                                    ELSE "preflight",
                           evs  |-> <<RetireEvent(s, override)>>,
                           todo |-> IF s.attempt.previous = 0 THEN {}
                                    ELSE RequiredWitnesses(s, override)]])
  BY Zenon DEF Retire
<1>3. PICK e, evs, op, todo, c, r :
        /\ e = RetireEvent(s, override) /\ evs = <<e>> /\ evs[1] = e
        /\ op \in {"complete", "preflight"}
        /\ c = (IF refused THEN NoCommand ELSE [op |-> op, evs |-> evs, todo |-> todo])
        /\ r = [q EXCEPT !.view = Tip, !.cmd = c]
        /\ Update(h, r)
  <2> DEFINE e == RetireEvent(s, override)
             evs == <<e>>
             op == IF s.attempt.previous = 0 THEN "complete" ELSE "preflight"
             todo == IF s.attempt.previous = 0 THEN {} ELSE RequiredWitnesses(s, override)
             c == IF refused THEN NoCommand ELSE [op |-> op, evs |-> evs, todo |-> todo]
  <2>1. Update(h, [q EXCEPT !.view = Tip, !.cmd = c])
    BY <1>2
  <2>2. evs[1] = e /\ op \in {"complete", "preflight"}
    OBVIOUS
  <2> HIDE DEF e, op, todo
  <2>3. QED
    BY <2>1, <2>2, Zenon DEF e
<1>4. /\ Carries(q, r) /\ r.view = Tip /\ r.cmd = c
      /\ r.stage = q.stage /\ r.stopped = q.stopped
  BY <1>3, Shape DEF Carries, NewHandle
<1>5. CASE ~refused
  <2>1. r.cmd.op = op /\ r.cmd.evs = evs
    BY <1>3, <1>4, <1>5
  <2>2. Accepts(e, s) /\ NamedEvent(e) /\ e.type \in {"RetireStarted", "PreviousRetired"}
    BY <1>2, <1>3, <1>5, SoundView, RetirementAccepted
  <2>3. Pends(h, r, log)
    BY <1>3, <1>4, <2>1, <2>2, ViewIn DEF Pends, Writes, Accepted
  <2>4. op \notin {"claim", "observe", "begin", "policy", "catchup", "release"} \cup PromoteOps
    BY <1>3 DEF PromoteOps
  <2>5. ~CatchingUp(r)
    <3>1. s.attempt.phase \in Flipped
      BY <1>2, <1>5 DEF RetireRefused, Flipped
    <3>2. ASSUME CatchingUp(q) PROVE FALSE
      BY <1>1, <3>1, <3>2, CatchUpIsEarly DEF Refolds, CatchingUp
    <3>3. QED
      BY <1>4, <3>2 DEF CatchingUp
  <2>6. QED
    BY <1>1, <1>3, <1>4, <2>1, <2>3, <2>4, <2>5, RefoldStep
<1>6. CASE refused
  <2>1. r.cmd = NoCommand
    BY <1>3, <1>4, <1>6
  <2>2. QED
    BY <1>1, <1>3, <1>4, <2>1, NoCommandPends, RefoldStep
<1>7. QED
  BY <1>5, <1>6

\* A retirement under way goes on with what it is going to save, or is given up.
LEMMA RetirementStep ==
  ASSUME LifecycleInv, StreamInv, NEW h \in Runner, NEW r, Update(h, r),
         handle[h].cmd.op \in RetireBusy, Carries(handle[h], r),
         r.stage = handle[h].stage, r.stopped = handle[h].stopped,
         \/ r.view = handle[h].view
         \/ r.view \in handle[h].view .. Tip,
         \/ r.cmd = NoCommand
         \/ r.cmd.op \in RetireBusy /\ Pends(h, r, log),
         UNCHANGED <<log, inflight>>
  PROVE  StreamInv'
<1> DEFINE q == handle[h]
<1>1. Keeps(h, q, log) /\ ~CatchingUp(q) /\ q.alive # "gone"
  BY StreamKept DEF Stages, NoCommand, RetireBusy, RetireOps
<1>2. ~CatchingUp(r) /\ Catching(h, r, log)
  BY <1>1 DEF CatchingUp, Catching
<1>3. /\ Pends(h, r, log)
      /\ r.cmd.op \notin {"claim", "observe", "begin", "policy", "catchup", "release"} \cup PromoteOps
  BY NoCommandPends DEF RetireBusy, RetireOps, PromoteOps
<1>4. Stages(r)
  BY <1>1, <1>2, <1>3 DEF Keeps, Stages, Carries, Early
<1>5. Held(h, r, log)
  BY <1>1, <1>3 DEF Keeps, Held, Carries, Early
<1>6. Keeps(h, r, log)
  BY <1>2, <1>3, <1>4, <1>5 DEF Keeps, Claims
<1>7. Onward(q, r)
  BY <1>1, CarriesOnward DEF Keeps
<1>8. QED
  BY <1>6, <1>7, QuietStep

LEMMA AbortStep ==
  ASSUME LifecycleInv, StreamInv, NEW h \in Runner, AbortRetire(h),
         handle[h].cmd.op \in RetireBusy, UNCHANGED <<log, inflight>>
  PROVE  StreamInv'
<1>1. PICK r : r = [handle[h] EXCEPT !.cmd = NoCommand] /\ Update(h, r)
  BY DEF AbortRetire
<1>2. /\ Carries(handle[h], r) /\ r.stage = handle[h].stage /\ r.stopped = handle[h].stopped
      /\ r.view = handle[h].view /\ r.cmd = NoCommand
  BY <1>1, Shape DEF Carries, NewHandle
<1>3. QED
  BY <1>1, <1>2, RetirementStep

\* The next operation of a retirement, with the same events to save.
LEMMA GoesOnStep ==
  ASSUME LifecycleInv, StreamInv, NEW h \in Runner, handle[h].cmd.op \in RetireOps,
         NEW op \in RetireBusy, NEW todo,
         Update(h, [handle[h] EXCEPT !.cmd = [op |-> op, evs |-> handle[h].cmd.evs, todo |-> todo]]),
         UNCHANGED <<log, inflight>>
  PROVE  StreamInv'
<1> DEFINE q == handle[h]
<1>1. PICK c, r : /\ c = [op |-> op, evs |-> q.cmd.evs, todo |-> todo]
                  /\ r = [q EXCEPT !.cmd = c] /\ Update(h, r)
  OBVIOUS
<1>2. /\ Carries(q, r) /\ r.stage = q.stage /\ r.stopped = q.stopped
      /\ r.view = q.view /\ r.cmd.op = op /\ r.cmd.evs = q.cmd.evs
  BY <1>1, Shape DEF Carries, NewHandle
<1>3. Pends(h, q, log) /\ q.cmd.op \in SaveOps \cup RetireOps
      /\ q.cmd.op # "claim" /\ q.cmd.op \notin PromoteOps
  BY StreamKept DEF Keeps, RetireOps, PromoteOps
<1>4. Pends(h, r, log)
  BY <1>2, <1>3 DEF Pends
<1>5. q.cmd.op \in RetireBusy
  BY DEF RetireBusy
<1>6. QED
  BY <1>1, <1>2, <1>4, <1>5, RetirementStep

\* A command's fields one by one.
LEMMA CommandFields ==
  ASSUME LifecycleInv, NEW h \in Runner
  PROVE  LET c == handle[h].cmd
         IN  /\ \A x : [c EXCEPT !.todo = x] = [op |-> c.op, evs |-> c.evs, todo |-> x]
             /\ \A x : [c EXCEPT !.op = x] = [op |-> x, evs |-> c.evs, todo |-> c.todo]
<1> DEFINE c == handle[h].cmd
<1>1. DOMAIN c = {"op", "evs", "todo"}
  BY Shape DEF IsCommand
<1> HIDE DEF c
<1>2. QED
  BY <1>1 DEF c

LEMMA AttestGoesOn ==
  ASSUME LifecycleInv, StreamInv, NEW h \in Runner, NEW w, Attest(h, w)
  PROVE  StreamInv'
<1> DEFINE q == handle[h]
           x == q.cmd.todo \ {w}
<1>1. /\ q.cmd.op \in RetireOps /\ q.cmd.op \in RetireBusy /\ UNCHANGED <<log, inflight>>
  BY DEF Attest, RetireOps, RetireBusy
<1>2. CASE Vouches(w, View(h))
  <2>1. Update(h, [q EXCEPT !.cmd = [q.cmd EXCEPT !.todo = x]])
    BY <1>2 DEF Attest
  <2>2. Update(h, [q EXCEPT !.cmd = [op |-> q.cmd.op, evs |-> q.cmd.evs, todo |-> x]])
    BY <2>1, CommandFields
  <2>3. QED
    BY <1>1, <2>2, GoesOnStep
<1>3. CASE ~Vouches(w, View(h))
  BY <1>1, <1>3, AbortStep DEF Attest
<1>4. QED
  BY <1>2, <1>3

LEMMA AttestedGoesOn ==
  ASSUME LifecycleInv, StreamInv, NEW h \in Runner, Attested(h)
  PROVE  StreamInv'
<1> DEFINE q == handle[h]
<1>1. /\ q.cmd.op \in RetireOps /\ UNCHANGED <<log, inflight>>
  BY DEF Attested, RetireOps
<1>2. PICK x \in {"reserve", "teardown"} : Update(h, [q EXCEPT !.cmd = [q.cmd EXCEPT !.op = x]])
  BY DEF Attested
<1>3. Update(h, [q EXCEPT !.cmd = [op |-> x, evs |-> q.cmd.evs, todo |-> q.cmd.todo]])
  BY <1>2, CommandFields
<1>4. x \in RetireBusy
  BY DEF RetireBusy, RetireOps
<1>5. QED
  BY <1>1, <1>3, <1>4, GoesOnStep

LEMMA ReattestGoesOn ==
  ASSUME LifecycleInv, StreamInv, NEW h \in Runner, Reattest(h)
  PROVE  StreamInv'
<1> DEFINE q == handle[h]
           s == StateAt(Tip)
           stands == /\ Valid(s) /\ s.attempt.phase = "retiring"
                     /\ s.attempt.previous = q.cmd.evs[1].retiring
<1>1. /\ q.cmd.op \in RetireBusy /\ UNCHANGED <<log, inflight>>
      /\ Tip \in q.view .. Tip
  BY Shape DEF Reattest, RetireBusy
<1>2. CASE AbortRetire(h)
  BY <1>1, <1>2, AbortStep
<1>3. CASE ~AbortRetire(h)
  <2>1. PICK e, evs, todo, c, r :
          /\ e = RetireEvent(s, FALSE) /\ evs = <<e>> /\ evs[1] = e
          /\ c = (IF stands THEN [op |-> "recheck", evs |-> evs, todo |-> todo] ELSE NoCommand)
          /\ r = [q EXCEPT !.view = Tip, !.cmd = c]
          /\ Update(h, r)
    <3> DEFINE e == RetireEvent(s, FALSE)
               evs == <<e>>
               todo == s.attempt.retiringWitnesses
               c == IF stands THEN [op |-> "recheck", evs |-> evs, todo |-> todo] ELSE NoCommand
    <3>1. Update(h, [q EXCEPT !.view = Tip, !.cmd = c])
      BY <1>3 DEF Reattest
    <3>2. evs[1] = e
      OBVIOUS
    <3> HIDE DEF e, todo
    <3>3. QED
      BY <3>1, <3>2, Zenon DEF e
  <2>2. /\ Carries(q, r) /\ r.view = Tip /\ r.cmd = c
        /\ r.stage = q.stage /\ r.stopped = q.stopped
    BY <2>1, Shape DEF Carries, NewHandle
  <2>3. CASE stands
    <3>1. r.cmd.op = "recheck" /\ r.cmd.evs = evs
      <4> HIDE DEF stands
      <4>1. c = [op |-> "recheck", evs |-> evs, todo |-> todo]
        BY <2>1, <2>3
      <4>2. QED
        BY <2>2, <4>1
    <3>2. ~RetireRefused(s, FALSE)
      BY <2>3 DEF RetireRefused
    <3>3. Accepts(e, s) /\ NamedEvent(e) /\ e.type \in {"RetireStarted", "PreviousRetired"}
      BY <2>1, <3>2, SoundView, RetirementAccepted
    <3>4. Pends(h, r, log)
      BY <2>1, <2>2, <3>1, <3>3, ViewIn DEF Pends, Writes, Accepted
    <3>5. "recheck" \in RetireBusy
      BY DEF RetireBusy, RetireOps
    <3>6. QED
      BY <1>1, <2>1, <2>2, <3>1, <3>4, <3>5, RetirementStep
  <2>4. CASE ~stands
    <3>1. r.cmd = NoCommand
      BY <2>1, <2>2, <2>4
    <3>2. QED
      BY <1>1, <2>1, <2>2, <3>1, RetirementStep
  <2>5. QED
    BY <2>3, <2>4
<1>4. QED
  BY <1>2, <1>3

LEMMA DestructionGoesOn ==
  ASSUME LifecycleInv, StreamInv, NEW h \in Runner, Teardown(h) \/ DropCheckpoint(h)
  PROVE  StreamInv'
<1> DEFINE q == handle[h]
<1>1. /\ q.cmd.op \in RetireOps /\ q.cmd.op \in RetireBusy /\ UNCHANGED <<log, inflight>>
  BY DEF Teardown, DropCheckpoint, RetireOps, RetireBusy
<1>2. CASE AbortRetire(h)
  BY <1>1, <1>2, AbortStep
<1>3. CASE ~AbortRetire(h)
  <2>1. PICK x \in {"drop", "complete"} : Update(h, [q EXCEPT !.cmd = [q.cmd EXCEPT !.op = x]])
    BY <1>3 DEF Teardown, DropCheckpoint
  <2>2. Update(h, [q EXCEPT !.cmd = [op |-> x, evs |-> q.cmd.evs, todo |-> q.cmd.todo]])
    BY <2>1, CommandFields
  <2>3. x \in RetireBusy
    BY DEF RetireBusy, RetireOps
  <2>4. QED
    BY <1>1, <2>2, <2>3, GoesOnStep
<1>4. QED
  BY <1>2, <1>3

-----------------------------------------------------------------------------
(* The loads that open a handle or start a run.                             *)

\* A handle that holds nothing and is given its first events to save.
LEMMA FreshStep ==
  ASSUME LifecycleInv, StreamInv, NEW h \in Runner, NEW r, Update(h, r),
         handle[h].alive = "new", r.stage = handle[h].stage,
         r.alive # "gone", r.certificate = handle[h].certificate,
         r.alive = "new" \/ r.cmd.op \notin {"begin", "policy"},
         r.cmd.op \in {"none", "begin", "policy"}, Pends(h, r, log),
         UNCHANGED <<log, inflight>>
  PROVE  StreamInv'
<1> DEFINE q == handle[h]
<1>1. Keeps(h, q, log) /\ q.stage = "idle"
  BY StreamKept DEF Stages
<1>2. r.cmd.op \notin {"claim", "observe"} \cup PromoteOps \cup RetireBusy
  BY DEF PromoteOps, RetireBusy, RetireOps
<1>3. Stages(r)
  BY <1>1, <1>2 DEF Keeps, Stages, Early
<1>4. Held(h, r, log)
  BY <1>1 DEF Keeps, Held
<1>5. Catching(h, r, log) /\ Claims(h, r, log)
  BY <1>1, <1>2 DEF Catching, CatchingUp, Claims
<1>6. Onward(q, r)
  BY <1>1 DEF Onward, Past, Early
<1>7. QED
  BY <1>3, <1>4, <1>5, <1>6, QuietStep DEF Keeps

LEMMA BeginLoadOpens ==
  ASSUME LifecycleInv, StreamInv, NEW h \in Runner, BeginLoad(h)
  PROVE  StreamInv'
<1> DEFINE q == handle[h]
           s == StateAt(Tip)
           n == s.allocated + 1
<1>1. PICK e, evs, r : /\ e = RebuildInitiated(n, n, s.live) /\ evs = <<e>> /\ evs[1] = e
                       /\ r = [q EXCEPT !.view = Tip, !.cmd = Pending("begin", evs)]
                       /\ Update(h, r)
  <2> DEFINE e == RebuildInitiated(n, n, s.live)
             evs == <<e>>
  <2>1. Update(h, [q EXCEPT !.view = Tip, !.cmd = Pending("begin", evs)])
    BY DEF BeginLoad
  <2>2. evs[1] = e
    OBVIOUS
  <2>3. QED
    BY <2>1, <2>2, Zenon
<1>2. /\ r.stage = q.stage /\ r.alive = q.alive /\ r.certificate = q.certificate
      /\ r.view = Tip /\ r.cmd.op = "begin" /\ r.cmd.evs = evs
  BY <1>1, Shape DEF NewHandle, Pending
<1>3. Accepts(e, s) /\ NamedEvent(e) /\ e.type = "RebuildInitiated"
  BY <1>1, SoundView, InitiationAccepted DEF BeginLoad, RebuildInitiated
<1>4. Pends(h, r, log)
  BY <1>1, <1>2, <1>3, ViewIn DEF Pends, Writes, Accepted
<1>5. QED
  BY <1>1, <1>2, <1>4, FreshStep DEF BeginLoad

LEMMA PolicyLoadOpens ==
  ASSUME LifecycleInv, StreamInv, NEW h \in Runner, NEW W \in SUBSET Witness, PolicyLoad(h, W)
  PROVE  StreamInv'
<1> DEFINE q == handle[h]
           s == StateAt(Tip)
<1>1. PICK e, evs, r :
        /\ e = RetirementPolicySet(s.policy.generation + 1, W, W = {}, "attested")
        /\ evs = <<e>> /\ evs[1] = e
        /\ r = [q EXCEPT !.view = Tip, !.cmd = Pending("policy", evs)]
        /\ Update(h, r)
  <2> DEFINE e == RetirementPolicySet(s.policy.generation + 1, W, W = {}, "attested")
             evs == <<e>>
  <2>1. Update(h, [q EXCEPT !.view = Tip, !.cmd = Pending("policy", evs)])
    BY DEF PolicyLoad
  <2>2. evs[1] = e
    OBVIOUS
  <2>3. QED
    BY <2>1, <2>2, Zenon
<1>2. /\ r.stage = q.stage /\ r.alive = q.alive /\ r.certificate = q.certificate
      /\ r.view = Tip /\ r.cmd.op = "policy" /\ r.cmd.evs = evs
  BY <1>1, Shape DEF NewHandle, Pending
<1>3. s.named
  <2>1. Tip \in 1 .. Len(log) /\ Folded(log)
    BY Shape DEF PolicyLoad, Tip, StreamInv
  <2>2. QED
    BY <2>1, HistoryIsNamed DEF StateAt, StateIn
<1>4. Accepts(e, s) /\ NamedEvent(e) /\ e.type = "RetirementPolicySet"
  BY <1>1, <1>3, SoundView, PolicyAccepted DEF PolicyLoad, RetirementPolicySet
<1>5. Pends(h, r, log)
  BY <1>1, <1>2, <1>4, ViewIn DEF Pends, Writes, Accepted
<1>6. QED
  BY <1>1, <1>2, <1>5, FreshStep DEF PolicyLoad

LEMMA ResumeOpens ==
  ASSUME LifecycleInv, StreamInv, NEW h \in Runner, Resume(h)
  PROVE  StreamInv'
<1> DEFINE q == handle[h]
<1>1. PICK r : r = [q EXCEPT !.alive = "open", !.view = Tip] /\ Update(h, r)
  BY DEF Resume
<1>2. /\ r.stage = q.stage /\ r.alive = "open" /\ r.certificate = q.certificate
      /\ r.cmd = NoCommand
  BY <1>1, Shape DEF NewHandle, Resume, Unlocked
<1>3. Pends(h, r, log) /\ r.cmd.op = "none"
  BY <1>2, NoCommandPends DEF NoCommand
<1>4. QED
  BY <1>1, <1>2, <1>3, FreshStep DEF Resume

\* Where a run is once its claim is decided: it goes on, or it is done.
LEMMA ClaimOver ==
  ASSUME NEW l, NEW h, NEW q, NEW r, Stages(q), q.alive \notin {"gone", "new"},
         q.stage \in {"idle", "claiming"}, r.alive = q.alive, r.certificate = q.certificate, r.cmd = NoCommand,
         r.stage \notin {"idle", "claiming"}, Catching(h, r, l),
         \A i \in 1 .. Len(l) : AttemptIn(l, i).runner = h =>
           /\ AttemptIn(l, i).phase \in Flipped => r.stage # "catchup"
           /\ ~(i = Len(l) /\ AttemptIn(l, i).phase = "created")
  PROVE  Keeps(h, r, l) /\ Onward(q, r)
<1>1. r.cmd.op = "none"
  BY DEF NoCommand
<1>2. Stages(r)
  BY <1>1 DEF Stages, Early, PromoteOps, RetireBusy, RetireOps
<1>3. Held(h, r, l)
  BY <1>1 DEF Held
<1>4. Claims(h, r, l) /\ Pends(h, r, l)
  BY <1>1, NoCommandPends DEF Claims
<1>5. Onward(q, r)
  BY DEF Onward, Past, Early
<1>6. QED
  BY <1>2, <1>3, <1>4, <1>5 DEF Keeps

LEMMA RunEnterClaims ==
  ASSUME LifecycleInv, StreamInv, NEW h \in Runner, NEW takeover, RunEnter(h, takeover)
  PROVE  StreamInv'
<1> DEFINE q == handle[h]
           s == StateAt(Tip)
<1>1. /\ q.alive = "open" /\ q.cmd = NoCommand /\ q.stage = "idle"
      /\ UNCHANGED <<log, inflight>> /\ Stages(q)
  BY StreamKept DEF RunEnter, Open, Unlocked
<1>2. \A i \in 1 .. Len(log) : AttemptIn(log, i).runner # h
  BY <1>1, StreamKept DEF Keeps, Held
<1>3. CASE RunRefused(s, takeover)
  <2>1. PICK r : /\ r = [q EXCEPT !.view = Tip, !.stage = "done", !.result = "error"]
                 /\ Update(h, r)
    BY <1>3 DEF RunEnter
  <2>2. /\ r.alive = q.alive /\ r.certificate = q.certificate /\ r.cmd = NoCommand
        /\ r.stage = "done"
    BY <1>1, <2>1, Shape DEF NewHandle
  <2>3. Keeps(h, r, log) /\ Onward(q, r)
    BY <1>1, <1>2, <2>2, ClaimOver DEF Catching, CatchingUp
  <2>4. QED
    BY <1>1, <2>1, <2>3, QuietStep
<1>4. CASE ~RunRefused(s, takeover)
  <2>1. PICK claim, evs, r :
          /\ claim = RunnerClaimed(s.attempt.id, h, TakeoverAttestation(s.attempt))
          /\ evs = (IF s.attempt.phase = "created" THEN <<claim, BuildStarted>> ELSE <<claim>>)
          /\ evs[1] = claim
          /\ r = [q EXCEPT !.view = Tip, !.entry = Tip, !.stage = "claiming",
                           !.runAttempt = s.attempt.id, !.cmd = Pending("claim", evs)]
          /\ Update(h, r)
    <3> DEFINE claim == RunnerClaimed(s.attempt.id, h, TakeoverAttestation(s.attempt))
               evs == IF s.attempt.phase = "created" THEN <<claim, BuildStarted>> ELSE <<claim>>
    <3>1. Update(h, [q EXCEPT !.view = Tip, !.entry = Tip, !.stage = "claiming",
                              !.runAttempt = s.attempt.id, !.cmd = Pending("claim", evs)])
      BY <1>4 DEF RunEnter
    <3>2. evs[1] = claim
      OBVIOUS
    <3> HIDE DEF claim
    <3>3. QED
      BY <3>1, <3>2, Zenon DEF claim
  <2>2. /\ r.alive = "open" /\ r.certificate = q.certificate /\ r.stage = "claiming"
        /\ r.view = Tip /\ r.runAttempt = s.attempt.id
        /\ r.cmd.op = "claim" /\ r.cmd.evs = evs
    BY <1>1, <2>1, Shape DEF NewHandle, Pending
  <2>3. Sound(s) /\ s.attempt.phase # "none"
    BY <1>4, SoundView DEF RunRefused
  <2>4. /\ Accepts(claim, s) /\ NamedEvent(claim)
        /\ claim.type = "RunnerClaimed" /\ claim.runner = h
    BY <2>1, <2>3, ClaimAccepted DEF RunnerClaimed, TakeoverAttestation
  <2>5. Writes(h, evs, s)
    <3>1. CASE s.attempt.phase = "created"
      <4>1. evs = <<evs[1], BuildStarted>>
        BY <2>1, <3>1
      <4>2. Effect(claim, s, ApplyTo(claim, s)) /\ Sound(ApplyTo(claim, s))
        BY <2>3, <2>4, AcceptedEffect, SoundStep DEF Sound
      <4>3. /\ ApplyTo(claim, s).attempt.phase = "created"
            /\ ApplyTo(claim, s).attempt.runner # NoRunner
        BY <2>4, <3>1, <4>2 DEF Effect
      <4>4. Accepts(BuildStarted, ApplyTo(claim, s))
        BY <4>2, <4>3, BuildAccepted
      <4>5. QED
        BY <2>1, <2>4, <4>1, <4>4 DEF Writes, Accepted
    <3>2. CASE s.attempt.phase # "created"
      <4>1. evs = <<evs[1]>>
        BY <2>1, <3>2
      <4>2. QED
        BY <2>1, <2>4, <3>2, <4>1 DEF Writes, Accepted
    <3>3. QED
      BY <3>1, <3>2
  <2>6. Pends(h, r, log)
    BY <2>1, <2>2, <2>4, <2>5, ViewIn DEF Pends
  <2>7. Stages(r)
    BY <1>1, <2>2 DEF Stages, Early, PromoteOps, RetireBusy, RetireOps
  <2>8. Held(h, r, log) /\ Catching(h, r, log)
    BY <1>2, <2>2 DEF Held, Catching, CatchingUp
  <2>9. Claims(h, r, log)
    BY <1>2, <2>1, <2>2, <2>4, ViewIn DEF Claims, AttemptIn
  <2>10. Onward(q, r)
    BY <1>1 DEF Onward, Past, Early
  <2>11. QED
    BY <1>1, <2>1, <2>6, <2>7, <2>8, <2>9, <2>10, QuietStep DEF Keeps
<1>5. QED
  BY <1>3, <1>4

\* What a run can be once its claim is observed.
LEMMA StartedCases ==
  ASSUME NEW h, NEW q, DOMAIN q = DOMAIN NewHandle, NEW r \in Started(h, q)
  PROVE  /\ r.alive = q.alive /\ r.certificate = q.certificate /\ r.cmd = q.cmd
         /\ r.view = q.view /\ r.runAttempt = q.runAttempt
         /\ r.stage \in {"catchup", "tailing", "releasing"}
         /\ r.stage = "catchup" =>
              View(h).attempt.phase \in {"created", "building", "caught_up"}
<1>1. CASE r = [q EXCEPT !.stage = "releasing", !.result = "error"]
  BY <1>1 DEF NewHandle
<1>2. CASE r # [q EXCEPT !.stage = "releasing", !.result = "error"]
  <2>1. PICK x : /\ r = [q EXCEPT !.processor = "running", !.reconciling = TRUE, !.stage = x]
                 /\ x = IF View(h).attempt.phase \in {"created", "building", "caught_up"}
                          THEN "catchup" ELSE "tailing"
    BY <1>2, Zenon DEF Started
  <2>2. QED
    BY <2>1 DEF NewHandle
<1>3. QED
  BY <1>1, <1>2

LEMMA FinishedCases ==
  ASSUME NEW q, DOMAIN q = DOMAIN NewHandle, NEW x
  PROVE  LET r == Finished(q, x)
         IN  /\ r.alive = q.alive /\ r.certificate = q.certificate /\ r.cmd = q.cmd
             /\ r.stage = "done"
BY DEF Finished, NewHandle

LEMMA ObserveClaimOver ==
  ASSUME LifecycleInv, StreamInv, NEW h \in Runner, ObserveClaim(h)
  PROVE  StreamInv'
<1> DEFINE q == handle[h]
           s == StateAt(Tip)
<1>1. /\ q.cmd.op = "observe" /\ q.cmd # NoCommand /\ UNCHANGED <<log, inflight>>
      /\ Keeps(h, q, log) /\ Stages(q)
  BY StreamKept DEF ObserveClaim, NoCommand
<1>2. q.stage = "claiming" /\ q.alive \notin {"gone", "new"}
  BY <1>1 DEF Stages
<1>3. \A i \in 1 .. Len(log) : AttemptIn(log, i).runner = h =>
        /\ AttemptIn(log, i).phase \in Flipped => AttemptIn(log, q.view).phase \in Flipped
        /\ ~(i = Len(log) /\ AttemptIn(log, i).phase = "created")
  BY <1>1, <1>2 DEF Keeps, Held
<1>4. PICK there, here : /\ there = [q EXCEPT !.cmd = NoCommand, !.view = Tip]
                         /\ here = [q EXCEPT !.cmd = NoCommand]
  OBVIOUS
<1>5. /\ DOMAIN there = DOMAIN NewHandle /\ DOMAIN here = DOMAIN NewHandle
      /\ there.alive = q.alive /\ here.alive = q.alive
      /\ there.certificate = q.certificate /\ here.certificate = q.certificate
      /\ there.cmd = NoCommand /\ here.cmd = NoCommand
      /\ there.view = Tip /\ there.runAttempt = q.runAttempt
  BY <1>4, Shape DEF NewHandle
<1>6. \/ \E p \in {here, there}, x \in {"error", "nil", "displaced"} : Update(h, Finished(p, x))
      \/ ~Ended(h, s) /\ ~Displaced(h, s) /\ \E r \in Started(h, there) : Update(h, r)
  BY <1>4 DEF ObserveClaim
<1>7. CASE \E p \in {here, there}, x \in {"error", "nil", "displaced"} : Update(h, Finished(p, x))
  <2>0. PICK p \in {here, there}, x \in {"error", "nil", "displaced"} :
          Update(h, Finished(p, x))
    BY <1>7
  <2>1. PICK r : r = Finished(p, x) /\ Update(h, r)
    BY <2>0
  <2>2. /\ r.alive = q.alive /\ r.certificate = q.certificate /\ r.cmd = NoCommand
        /\ r.stage = "done"
    BY <1>5, <2>1, FinishedCases
  <2>3. Keeps(h, r, log) /\ Onward(q, r)
    BY <1>1, <1>2, <1>3, <2>2, ClaimOver DEF Catching, CatchingUp
  <2>4. QED
    BY <1>1, <2>1, <2>3, QuietStep
<1>8. CASE ~Ended(h, s) /\ ~Displaced(h, s) /\ \E r \in Started(h, there) : Update(h, r)
  <2>1. PICK r \in Started(h, there) : Update(h, r)
    BY <1>8
  <2>2. /\ r.alive = q.alive /\ r.certificate = q.certificate /\ r.cmd = NoCommand
        /\ r.view = Tip /\ r.runAttempt = q.runAttempt
        /\ r.stage \in {"catchup", "tailing", "releasing"}
        /\ r.stage = "catchup" => View(h).attempt.phase \in {"created", "building", "caught_up"}
    BY <1>5, <2>1, StartedCases
  <2> DEFINE a == AttemptIn(log, Tip)
  <2>3. a.id = q.runAttempt /\ a.runner = h /\ a = s.attempt /\ Sound(s)
    BY <1>8, SoundView, ViewIn DEF Ended, Displaced, AttemptIn
  <2>4. a.id # 0
    BY <2>3, SoundAttempt, NoRunnerAssumption
  <2>5. a.phase # "created"
    <3>1. Tip \in Nat /\ Tip = Len(log)
      BY Shape DEF Tip
    <3>2. Tip # 0
      <4>1. AttemptIn(log, 0).runner = NoRunner
        BY DEF AttemptIn, StateIn, NewState, NoAttempt
      <4>2. QED
        BY <2>3, <4>1, NoRunnerAssumption
    <3>3. QED
      BY <1>3, <2>3, <3>1, <3>2
  <2>6. Catching(h, r, log)
    BY <2>2, <2>3, <2>4, <2>5 DEF Catching
  <2>7. r.stage = "catchup" => AttemptIn(log, q.view).phase \notin Flipped
    BY <2>2, ViewIn DEF AttemptIn, Flipped
  <2>8. Keeps(h, r, log) /\ Onward(q, r)
    BY <1>1, <1>2, <1>3, <2>2, <2>6, <2>7, ClaimOver
  <2>9. QED
    BY <1>1, <2>1, <2>8, QuietStep
<1>9. QED
  BY <1>6, <1>7, <1>8

-----------------------------------------------------------------------------
(* The stream grows.                                                        *)

\* An append by k leaves what another handle holds, or one past its catch-up, as it
\* was.
LEMMA KeepsLater ==
  ASSUME NEW l, NEW m, NEW k, NEW evs, Extends(l, m), Grown(l, m, k, evs),
         NEW g \in Runner, NEW r, Keeps(g, r, l), r.view \in 0 .. Len(l),
         k = g /\ evs[1].type \in {"RunnerClaimed", "Promoted"} => Past(r)
  PROVE  Keeps(g, r, m)
<1> DEFINE a == AttemptIn(l, Len(l))
<1>1. /\ Len(l) \in Nat /\ Len(m) \in Nat /\ Len(l) <= Len(m)
      /\ Stages(r) /\ g # NoRunner
  BY NoRunnerAssumption DEF Extends, Keeps
<1>2. /\ StateIn(m, r.view) = StateIn(l, r.view) /\ AttemptIn(m, r.view) = AttemptIn(l, r.view)
      /\ \A i \in 1 .. Len(l) : AttemptIn(m, i) = AttemptIn(l, i)
  BY <1>1, StatesStay
<1>3. /\ Past(r) => /\ r.alive = "gone" \/ r.stage # "idle"
                    /\ r.stage # "catchup" /\ r.cmd.op \notin {"observe", "claim"}
  BY <1>1 DEF Past, Early, Stages, NoCommand
<1>4. a.runner = g =>
        /\ r.alive = "gone" \/ r.stage # "idle"
        /\ a.phase \in Flipped =>
             /\ r.stage # "catchup"
             /\ r.cmd.op = "observe" => AttemptIn(l, r.view).phase \in Flipped
        /\ a.phase = "created" => r.alive = "gone"
        /\ r.cmd.op # "claim"
  <2>1. SUFFICES ASSUME a.runner = g
                 PROVE  Len(l) \in 1 .. Len(l)
    BY DEF Keeps, Held, Claims
  <2>2. AttemptIn(l, 0).runner = NoRunner
    BY DEF AttemptIn, StateIn, NewState, NoAttempt
  <2>3. Len(l) # 0
    BY <1>1, <2>1, <2>2
  <2>4. QED
    BY <1>1, <2>3
<1>5. ASSUME NEW i \in 1 .. Len(m), i \notin 1 .. Len(l), AttemptIn(m, i).runner = g
      PROVE  /\ r.alive = "gone" \/ r.stage # "idle"
             /\ AttemptIn(m, i).phase \in Flipped =>
                  /\ r.stage # "catchup"
                  /\ r.cmd.op = "observe" => AttemptIn(l, r.view).phase \in Flipped
             /\ i = Len(m) /\ AttemptIn(m, i).phase = "created" => r.alive = "gone"
             /\ r.cmd.op # "claim"
  <2> DEFINE b == AttemptIn(m, i)
             claimed == evs[1].type = "RunnerClaimed" /\ b.runner = k
  <2>1. i \in Len(l) + 1 .. Len(m)
    BY <1>1, <1>5
  <2>2. /\ b.runner \in {NoRunner, a.runner} \/ claimed
        /\ b.phase \in Flipped =>
             \/ a.phase \in Flipped /\ (b.runner = a.runner \/ claimed)
             \/ evs[1].type = "Promoted" /\ b.runner = k
        /\ i = Len(m) /\ b.phase = "created" =>
             \/ b.runner = NoRunner
             \/ a.phase = "created" /\ b.runner = a.runner
    BY <2>1 DEF Grown
  <2>3. /\ claimed => Past(r)
        /\ evs[1].type = "Promoted" /\ b.runner = k => Past(r)
    BY <1>5
  <2> HIDE DEF b, a, claimed
  <2>4. b.runner = g
    BY <1>5 DEF b
  <2>5. QED
    BY <1>1, <1>3, <1>4, <2>2, <2>3, <2>4 DEF b
<1>6. Held(g, r, m)
  <2>1. ASSUME NEW i \in 1 .. Len(m), AttemptIn(m, i).runner = g
        PROVE  /\ r.alive = "gone" \/ r.stage # "idle"
               /\ AttemptIn(m, i).phase \in Flipped =>
                    /\ r.stage # "catchup"
                    /\ r.cmd.op = "observe" => AttemptIn(m, r.view).phase \in Flipped
               /\ i = Len(m) /\ AttemptIn(m, i).phase = "created" => r.alive = "gone"
    <3>1. CASE i \in 1 .. Len(l)
      <4>1. i = Len(m) => i = Len(l)
        BY <1>1, <3>1
      <4>2. QED
        BY <1>2, <2>1, <3>1, <4>1 DEF Keeps, Held
    <3>2. CASE i \notin 1 .. Len(l)
      BY <1>2, <1>5, <2>1, <3>2
    <3>3. QED
      BY <3>1, <3>2
  <2>2. QED
    BY <2>1 DEF Held
<1>7. Claims(g, r, m)
  <2>1. r.cmd.op = "claim" => \A i \in 1 .. Len(m) : AttemptIn(m, i).runner # g
    BY <1>2, <1>5 DEF Keeps, Claims
  <2>2. QED
    BY <1>2, <2>1 DEF Keeps, Claims
<1>8. Catching(g, r, m) /\ Pends(g, r, m)
  BY <1>2 DEF Keeps, Catching, Pends
<1>9. QED
  BY <1>1, <1>6, <1>7, <1>8 DEF Keeps

LEMMA LandKept ==
  ASSUME LifecycleInv, StreamInv, Land
  PROVE  StreamInv'
<1>1. PICK evs \in inflight : log' = Recorded(evs) /\ inflight' = {} /\ UNCHANGED handle
  BY DEF Land
<1>2. PICK k \in Runner :
        /\ Writes(k, evs, StateIn(log, Tip))
        /\ evs[1].type \in {"RunnerClaimed", "Promoted"} => Past(handle[k])
  BY DEF StreamInv, Lands
<1>3. LogOK /\ Folded(log)
  BY DEF LifecycleInv, StreamInv
<1>4. Extends(log, log') /\ Folded(log') /\ Grown(log, log', k, evs)
  BY <1>1, <1>2, <1>3, AppendGrows
<1>5. ASSUME NEW g \in Runner PROVE Keeps(g, handle[g], log')
  <2>1. handle[g].view \in 0 .. Len(log) /\ Keeps(g, handle[g], log)
    BY Shape, StreamKept DEF Tip
  <2>2. QED
    BY <1>2, <1>4, <2>1, KeepsLater
<1>6. QED
  BY <1>1, <1>4, <1>5 DEF StreamInv

LEMMA CrashKept ==
  ASSUME LifecycleInv, StreamInv, NEW h \in Runner, Crash(h)
  PROVE  StreamInv'
<1> DEFINE q == handle[h]
<1>1. PICK r : r = [NewHandle EXCEPT !.alive = "gone"] /\ Update(h, r)
  BY DEF Crash
<1>2. /\ r.alive = "gone" /\ r.cmd = NoCommand /\ r.stage = "idle"
      /\ r.certificate = NoCertificate
  BY <1>1 DEF NewHandle
<1>3. Pends(h, r, log) /\ r.cmd.op = "none"
  BY <1>2, NoCommandPends
<1>4. Keeps(h, r, log)
  BY <1>2, <1>3 DEF Keeps, Stages, Held, Catching, CatchingUp, Claims, PromoteOps, RetireBusy,
                    RetireOps
<1>5. Past(r)
  BY <1>2 DEF Past
<1>6. UNCHANGED log /\ Tip' = Tip
  BY DEF Crash, Tip
<1>7. ASSUME NEW g \in Runner
      PROVE  Keeps(g, handle'[g], log') /\ (Past(handle[g]) => Past(handle'[g]))
  BY <1>1, <1>4, <1>5, <1>6 DEF LifecycleInv, StreamInv, Update
<1>8. ASSUME NEW evs \in inflight' PROVE Lands(evs, StateIn(log, Tip))'
  <2>1. CASE evs \in inflight
    <3>1. PICK k \in Runner :
            /\ Writes(k, evs, StateIn(log, Tip))
            /\ evs[1].type \in {"RunnerClaimed", "Promoted"} => Past(handle[k])
      BY <2>1 DEF StreamInv, Lands
    <3>2. QED
      BY <1>6, <1>7, <3>1 DEF Lands
  <2>2. CASE evs \notin inflight
    <3>1. evs = q.cmd.evs /\ q.cmd.op \in SaveOps /\ Tip = q.view
      BY <2>2 DEF Crash, Unmoved
    <3>2. Writes(h, evs, StateIn(log, Tip))
      BY <3>1, StreamKept DEF Keeps, Pends
    <3>3. Past(handle'[h])
      BY <1>1, <1>5 DEF LifecycleInv, Update
    <3>4. QED
      BY <1>6, <3>2, <3>3 DEF Lands
  <2>3. QED
    BY <2>1, <2>2
<1>9. QED
  BY <1>6, <1>7, <1>8 DEF StreamInv

LEMMA IdleKept ==
  ASSUME StreamInv, UNCHANGED <<log, inflight, handle>>
  PROVE  StreamInv'
<1>1. Tip' = Tip
  BY DEF Tip
<1>2. ASSUME NEW evs \in inflight PROVE Lands(evs, StateIn(log, Tip))'
  BY <1>1 DEF StreamInv, Lands
<1>3. QED
  BY <1>2 DEF StreamInv

-----------------------------------------------------------------------------
(* Saves.                                                                   *)

\* Any save but a claim's keeps what held of the handles, which are still to hear of
\* it.
LEMMA SaveGrows ==
  ASSUME LifecycleInv, StreamInv, NEW h \in Runner, NEW op \in SaveOps \ {"claim"},
         NEW outcome, Saves(h, op, outcome)
  PROVE  /\ Folded(log')
         /\ \A g \in Runner : Keeps(g, handle[g], log')
         /\ \A evs \in inflight' : Lands(evs, StateIn(log', Tip'))
<1> DEFINE q == handle[h]
           evs == q.cmd.evs
<1>1. q.cmd.op = op
  BY DEF Saves
<1>2. Keeps(h, q, log) /\ Stages(q)
  BY StreamKept
<1>3. /\ Writes(h, evs, StateIn(log, q.view))
      /\ evs[1].type \in {"RunnerClaimed", "Promoted"} => Past(q)
  BY <1>1, <1>2 DEF Keeps, Pends, Stages, Past
<1>4. CASE Tip = q.view /\ log' = Recorded(evs) /\ inflight' = {}
  <2>1. Extends(log, log') /\ Folded(log') /\ Grown(log, log', h, evs)
    BY <1>3, <1>4, AppendGrows DEF LifecycleInv, StreamInv
  <2>2. ASSUME NEW g \in Runner PROVE Keeps(g, handle[g], log')
    <3>1. handle[g].view \in 0 .. Len(log) /\ Keeps(g, handle[g], log)
      BY Shape, StreamKept DEF Tip
    <3>2. QED
      BY <1>3, <2>1, <3>1, KeepsLater
  <2>3. QED
    BY <1>4, <2>1, <2>2
<1>5. CASE UNCHANGED log /\ inflight' \subseteq inflight \cup (IF Tip = q.view THEN {evs} ELSE {})
  <2>1. Tip' = Tip
    BY <1>5 DEF Tip
  <2>2. \A e \in inflight' : Lands(e, StateIn(log, Tip))
    BY <1>3, <1>5 DEF StreamInv, Lands
  <2>3. QED
    BY <1>5, <2>1, <2>2 DEF StreamInv
<1>6. QED
  BY <1>4, <1>5 DEF Saves, Unmoved

\* The handle that saved hears of it.
LEMMA SaveHeard ==
  ASSUME LifecycleInv, StreamInv, NEW h \in Runner, NEW op \in SaveOps \ {"claim"},
         NEW outcome, Saves(h, op, outcome), NEW r, Update(h, r),
         Keeps(h, r, log'), Onward(handle[h], r)
  PROVE  StreamInv'
<1>1. /\ Folded(log')
      /\ \A g \in Runner : Keeps(g, handle[g], log')
      /\ \A evs \in inflight' : Lands(evs, StateIn(log', Tip'))
  BY SaveGrows
<1>2. \A g \in Runner : Keeps(g, handle'[g], log') /\ (Past(handle[g]) => Past(handle'[g]))
  BY <1>1 DEF LifecycleInv, Update, Onward
<1>3. ASSUME NEW evs \in inflight' PROVE Lands(evs, StateIn(log, Tip))'
  BY <1>1, <1>2 DEF Lands
<1>4. QED
  BY <1>1, <1>2, <1>3 DEF StreamInv

LEMMA SaveTurn ==
  ASSUME LifecycleInv, StreamInv, NEW h \in Runner, NEW op \in SaveOps \ {"claim"},
         NEW outcome, Saves(h, op, outcome), NEW r, Update(h, r),
         Carries(handle[h], r), r.cmd.op \in {"none", "reattest"},
         r.cmd.op = "reattest" => ~CatchingUp(r),
         r.view = handle[h].view \/ ~CatchingUp(r)
  PROVE  StreamInv'
<1> DEFINE q == handle[h]
<1>1. Keeps(h, q, log') /\ Stages(q) /\ q.cmd.op = op
  BY SaveGrows, StreamKept DEF Saves
<1>2. q.alive # "gone"
  <2>1. NoCommand.op \notin SaveOps
    BY DEF NoCommand, SaveOps
  <2>2. QED
    BY <1>1, <2>1 DEF Stages
<1>3. Catching(h, r, log')
  <2>1. CASE ~CatchingUp(r)
    BY <2>1 DEF Catching
  <2>2. CASE CatchingUp(r)
    <3>1. CatchingUp(q) /\ r.view = q.view /\ r.runAttempt = q.runAttempt
      BY <1>1, <2>2, CarriesOnward DEF Carries
    <3>2. QED
      BY <1>1, <3>1 DEF Keeps, Catching
  <2>3. QED
    BY <2>1, <2>2
<1>4. Pends(h, r, log')
  BY DEF Pends, SaveOps, RetireOps
<1>5. r.cmd.op \notin {"claim", "observe", "begin", "policy", "catchup", "release"} \cup PromoteOps
  BY DEF PromoteOps
<1>6. r.cmd.op \in RetireBusy => ~CatchingUp(r)
  BY DEF RetireBusy, RetireOps
<1>7. Keeps(h, r, log') /\ Onward(q, r)
  BY <1>1, <1>2, <1>3, <1>4, <1>5, <1>6, TurnKeeps
<1>8. QED
  BY <1>7, SaveHeard

LEMMA AnsweredCarries ==
  ASSUME LifecycleInv, NEW h \in Runner, NEW outcome
  PROVE  LET q == handle[h]
             r == Answered(h, outcome)
         IN  /\ Carries(q, r) /\ DOMAIN r = DOMAIN NewHandle
             /\ r.alive = q.alive /\ r.stage = q.stage /\ r.stopped = q.stopped
             /\ r.runAttempt = q.runAttempt
             /\ r.cmd = NoCommand /\ r.cmd.op = "none"
             /\ r.certificate \in {NoCertificate, q.certificate}
             /\ outcome # "ok" => r.view = q.view
             /\ outcome = "ok" => r.view = q.view + Len(q.cmd.evs)
<1> DEFINE q == handle[h]
<1>1. PICK v, c, r :
        /\ v = (IF outcome = "ok" THEN q.view + Len(q.cmd.evs) ELSE q.view)
        /\ c = (IF outcome = "appended" THEN NoCertificate ELSE q.certificate)
        /\ r = [q EXCEPT !.cmd = NoCommand, !.view = v, !.certificate = c]
        /\ r = Answered(h, outcome)
  BY Zenon DEF Answered
<1>2. /\ DOMAIN r = DOMAIN NewHandle /\ r.cmd = NoCommand /\ r.view = v
      /\ r.certificate = c /\ r.alive = q.alive /\ r.stage = q.stage
      /\ r.stopped = q.stopped /\ r.runAttempt = q.runAttempt
  BY <1>1, Shape DEF NewHandle
<1>3. Carries(q, r) /\ r.cmd.op = "none"
  BY <1>1, <1>2 DEF Carries, NoCommand
<1>4. QED
  BY <1>1, <1>2, <1>3

\* A handle that has saved what opens it, or given up.
LEMMA OpenedKeeps ==
  ASSUME NEW l, NEW h, NEW q, NEW r, Keeps(h, q, l), q.cmd.op \in {"begin", "policy"},
         r.stage = "idle", r.alive # "gone", r.cmd = NoCommand, r.certificate = NoCertificate
  PROVE  Keeps(h, r, l) /\ Onward(q, r)
<1>1. q.alive = "new" /\ q.stage = "idle"
  BY DEF Keeps, Stages
<1>2. Pends(h, r, l) /\ r.cmd.op = "none"
  BY NoCommandPends
<1>3. Stages(r) /\ Catching(h, r, l) /\ Claims(h, r, l)
  BY <1>2 DEF Stages, Catching, CatchingUp, Claims, PromoteOps, RetireBusy, RetireOps
<1>4. Held(h, r, l)
  BY <1>1 DEF Keeps, Held
<1>5. Onward(q, r)
  BY <1>1 DEF Onward, Past, Early
<1>6. QED
  BY <1>2, <1>3, <1>4, <1>5 DEF Keeps

LEMMA BeginSaveSound ==
  ASSUME LifecycleInv, StreamInv, NEW h \in Runner, NEW outcome, BeginSave(h, outcome)
  PROVE  StreamInv'
<1> DEFINE q == handle[h]
<1>1. /\ Saves(h, "begin", outcome) /\ "begin" \in SaveOps \ {"claim"} /\ q.cmd.op = "begin"
      /\ Stages(q)
  BY StreamKept DEF BeginSave, SaveOps, Saves
<1>2. q.stage = "idle" /\ q.certificate = NoCertificate
  BY <1>1 DEF Stages, Early
<1>3. PICK a, r : /\ a = Answered(h, outcome)
                  /\ r = [a EXCEPT !.alive = "open"] \/ r = NewHandle
                  /\ Update(h, r)
  BY DEF BeginSave
<1>4. /\ r.stage = "idle" /\ r.alive # "gone" /\ r.cmd = NoCommand
      /\ r.certificate = NoCertificate
  BY <1>2, <1>3, AnsweredCarries DEF NewHandle
<1>5. Keeps(h, r, log') /\ Onward(q, r)
  BY <1>1, <1>4, SaveGrows, OpenedKeeps
<1>6. QED
  BY <1>1, <1>3, <1>5, SaveHeard

LEMMA PolicySaveSound ==
  ASSUME LifecycleInv, StreamInv, NEW h \in Runner, NEW outcome, PolicySave(h, outcome)
  PROVE  StreamInv'
<1> DEFINE q == handle[h]
<1>1. Saves(h, "policy", outcome) /\ "policy" \in SaveOps \ {"claim"} /\ q.cmd.op = "policy"
  BY DEF PolicySave, SaveOps, Saves
<1>2. PICK r : r = NewHandle /\ Update(h, r)
  BY DEF PolicySave
<1>3. /\ r.stage = "idle" /\ r.alive # "gone" /\ r.cmd = NoCommand
      /\ r.certificate = NoCertificate
  BY <1>2 DEF NewHandle
<1>4. Keeps(h, r, log') /\ Onward(q, r)
  BY <1>1, <1>3, SaveGrows, OpenedKeeps
<1>5. QED
  BY <1>1, <1>2, <1>4, SaveHeard

LEMMA CatchUpSaveSound ==
  ASSUME LifecycleInv, StreamInv, NEW h \in Runner, NEW outcome, CatchUpSave(h, outcome)
  PROVE  StreamInv'
<1> DEFINE q == handle[h]
<1>1. /\ Saves(h, "catchup", outcome) /\ "catchup" \in SaveOps \ {"claim"}
      /\ q.cmd.op = "catchup" /\ Stages(q)
  BY StreamKept DEF CatchUpSave, SaveOps, Saves
<1>2. PICK a : a = Answered(h, outcome)
  OBVIOUS
<1>3. /\ a.alive = q.alive /\ a.stopped = q.stopped /\ a.runAttempt = q.runAttempt
      /\ a.cmd.op = "none" /\ DOMAIN a = DOMAIN NewHandle
  BY <1>2, AnsweredCarries
<1>4. q.stage \notin {"idle", "claiming"}
  BY <1>1 DEF Stages
<1>5. ASSUME NEW r, Update(h, r), r.cmd = a.cmd, r.stage \in {"promoting", "tailing", "winding"},
             r.alive = a.alive, r.stopped = a.stopped, r.runAttempt = a.runAttempt
      PROVE  StreamInv'
  <2>1. Carries(q, r) /\ ~CatchingUp(r) /\ r.cmd.op = "none"
    BY <1>3, <1>4, <1>5 DEF Carries, CatchingUp, Early
  <2>2. QED
    BY <1>1, <1>5, <2>1, SaveTurn
<1>6. CASE outcome = "ok"
  <2>1. PICK x \in {"promoting", "tailing"} :
          Update(h, [a EXCEPT !.stage = x,
                       !.certificate = [attempt  |-> q.runAttempt,
                                        position |-> q.cmd.evs[1].position,
                                        version  |-> a.view]])
    BY <1>2, <1>6 DEF CatchUpSave
  <2>2. PICK c, r : r = [a EXCEPT !.stage = x, !.certificate = c] /\ Update(h, r)
    BY <2>1, Zenon
  <2>3. QED
    BY <1>3, <1>5, <2>2 DEF NewHandle
<1>7. CASE outcome # "ok"
  <2>1. PICK s, r : /\ r = [a EXCEPT !.stage = "winding", !.cancel = TRUE, !.slot = s]
                    /\ Update(h, r)
    BY <1>2, <1>7, Zenon DEF CatchUpSave
  <2>2. QED
    BY <1>3, <1>5, <2>1 DEF NewHandle
<1>8. QED
  BY <1>6, <1>7

\* A save of a run past its catch-up, which stays there.
LEMMA PastSave ==
  ASSUME LifecycleInv, StreamInv, NEW h \in Runner, NEW op \in SaveOps \ {"claim"},
         NEW outcome, Saves(h, op, outcome), handle[h].stage \notin Early,
         NEW a, a = Answered(h, outcome), NEW r, Update(h, r), r.cmd = a.cmd,
         r.stage \notin Early, r.alive = a.alive, r.stopped = a.stopped,
         r.runAttempt = a.runAttempt
  PROVE  StreamInv'
<1>1. Carries(handle[h], r) /\ ~CatchingUp(r) /\ r.cmd.op = "none"
  BY AnsweredCarries DEF Carries, CatchingUp, Early
<1>2. QED
  BY <1>1, SaveTurn

LEMMA PromoteSaveSound ==
  ASSUME LifecycleInv, StreamInv, NEW h \in Runner, NEW outcome, PromoteSave(h, outcome)
  PROVE  StreamInv'
<1>1. /\ Saves(h, "promote", outcome) /\ "promote" \in SaveOps \ {"claim"}
      /\ handle[h].stage \notin Early
  BY StreamKept DEF PromoteSave, SaveOps, Saves, Stages, PromoteOps
<1>2. PICK a, c, r : /\ a = Answered(h, outcome) /\ r = [a EXCEPT !.certificate = c]
                     /\ Update(h, r)
  BY DEF PromoteSave
<1>3. /\ r.cmd = a.cmd /\ r.stage = handle[h].stage /\ r.alive = a.alive
      /\ r.stopped = a.stopped /\ r.runAttempt = a.runAttempt
  BY <1>2, AnsweredCarries DEF NewHandle
<1>4. QED
  BY <1>1, <1>2, <1>3, PastSave

LEMMA PromoteAfterCatchUpSaveSound ==
  ASSUME LifecycleInv, StreamInv, NEW h \in Runner, NEW outcome,
         PromoteAfterCatchUpSave(h, outcome)
  PROVE  StreamInv'
<1>1. /\ Saves(h, "autopromote", outcome) /\ "autopromote" \in SaveOps \ {"claim"}
      /\ handle[h].stage \notin Early
  BY StreamKept DEF PromoteAfterCatchUpSave, SaveOps, Saves, Stages, PromoteOps
<1>2. PICK a : a = Answered(h, outcome) /\ DOMAIN a = DOMAIN NewHandle
  BY AnsweredCarries
<1>3. PICK r : /\ \/ r = [a EXCEPT !.certificate = NoCertificate, !.stage = "tailing"]
                  \/ r = [a EXCEPT !.stage = "tailing"]
                  \/ r = [a EXCEPT !.stage = "resolving", !.slot = LostSlot(h, outcome)]
                  \/ r = [a EXCEPT !.stage = "winding", !.cancel = TRUE,
                                   !.slot = LostSlot(h, outcome)]
               /\ Update(h, r)
  <2>1. CASE outcome = "ok"
    BY <1>2, <2>1 DEF PromoteAfterCatchUpSave
  <2>2. CASE outcome = "appended"
    BY <1>2, <2>2 DEF PromoteAfterCatchUpSave
  <2>3. CASE outcome = "unknown"
    BY <1>2, <2>3 DEF PromoteAfterCatchUpSave
  <2>4. CASE outcome \notin {"ok", "appended", "unknown"}
    BY <1>2, <2>4 DEF PromoteAfterCatchUpSave
  <2>5. QED
    BY <2>1, <2>2, <2>3, <2>4
<1>4. /\ r.cmd = a.cmd /\ r.stage \in {"tailing", "resolving", "winding"} /\ r.alive = a.alive
      /\ r.stopped = a.stopped /\ r.runAttempt = a.runAttempt
  BY <1>2, <1>3 DEF NewHandle
<1>5. r.stage \notin Early
  BY <1>4 DEF Early
<1>6. QED
  BY <1>1, <1>2, <1>3, <1>4, <1>5, PastSave

LEMMA ResolveRetrySaveSound ==
  ASSUME LifecycleInv, StreamInv, NEW h \in Runner, NEW outcome, ResolveRetrySave(h, outcome)
  PROVE  StreamInv'
<1>1. /\ Saves(h, "retry", outcome) /\ "retry" \in SaveOps \ {"claim"}
      /\ handle[h].stage \notin Early
  BY StreamKept DEF ResolveRetrySave, SaveOps, Saves, Stages, PromoteOps
<1>2. PICK a : /\ a = Answered(h, outcome) /\ DOMAIN a = DOMAIN NewHandle
               /\ a.stage = handle[h].stage
  BY AnsweredCarries
<1>3. PICK r : /\ \/ r = [a EXCEPT !.certificate = NoCertificate, !.stage = "tailing"]
                  \/ r = a
               /\ Update(h, r)
  BY <1>2 DEF ResolveRetrySave
<1>4. /\ r.cmd = a.cmd /\ r.stage \in {"tailing", handle[h].stage} /\ r.alive = a.alive
      /\ r.stopped = a.stopped /\ r.runAttempt = a.runAttempt
  BY <1>2, <1>3 DEF NewHandle
<1>5. r.stage \notin Early
  BY <1>1, <1>4 DEF Early
<1>6. QED
  BY <1>1, <1>2, <1>3, <1>4, <1>5, PastSave

LEMMA ReleaseClaimSaveSound ==
  ASSUME LifecycleInv, StreamInv, NEW h \in Runner, NEW outcome, ReleaseClaimSave(h, outcome)
  PROVE  StreamInv'
<1> DEFINE q == handle[h]
<1>1. /\ Saves(h, "release", outcome) /\ "release" \in SaveOps \ {"claim"}
      /\ q.stage \notin {"idle", "claiming"}
  BY StreamKept DEF ReleaseClaimSave, SaveOps, Saves, Stages
<1>2. PICK a, r : /\ a = Answered(h, outcome) /\ r = [a EXCEPT !.stage = "done"]
                  /\ Update(h, r)
  BY DEF ReleaseClaimSave
<1>3. /\ r.cmd = a.cmd /\ r.stage = "done" /\ r.alive = a.alive
      /\ r.stopped = a.stopped /\ r.runAttempt = a.runAttempt
  BY <1>2, AnsweredCarries DEF NewHandle
<1>4. Carries(q, r) /\ ~CatchingUp(r) /\ r.cmd.op = "none"
  BY <1>1, <1>2, <1>3, AnsweredCarries DEF Carries, CatchingUp, Early
<1>5. QED
  BY <1>1, <1>2, <1>4, SaveTurn

\* A rollback or an abandonment of the attempt a run is catching up on stops it.
LEMMA EndSaveSound ==
  ASSUME LifecycleInv, StreamInv, NEW h \in Runner, NEW op \in {"rollback", "abandon"},
         NEW outcome, EndSave(h, op, outcome)
  PROVE  StreamInv'
<1> DEFINE q == handle[h]
           ends == /\ outcome \in {"ok", "appended"}
                   /\ View(h).attempt.id = q.runAttempt
<1>1. Saves(h, op, outcome) /\ op \in SaveOps \ {"claim"}
  BY DEF EndSave, SaveOps
<1>2. PICK a : a = Answered(h, outcome)
  OBVIOUS
<1>3. /\ Carries(q, a) /\ DOMAIN a = DOMAIN NewHandle /\ a.stage = q.stage
      /\ a.alive = q.alive /\ a.stopped = q.stopped /\ a.runAttempt = q.runAttempt
      /\ a.cmd.op = "none" /\ a.certificate \in {NoCertificate, q.certificate}
      /\ outcome # "ok" => a.view = q.view
  BY <1>2, AnsweredCarries
<1>4. CASE ends
  <2>1. PICK x, r : /\ r = [a EXCEPT !.stopped = TRUE, !.cancel = TRUE, !.commandEnded = x]
                    /\ Update(h, r)
    BY <1>2, <1>4, Zenon DEF EndSave
  <2>2. /\ r.stopped = TRUE /\ r.stage = a.stage /\ r.alive = a.alive
        /\ r.runAttempt = a.runAttempt /\ r.cmd = a.cmd /\ r.certificate = a.certificate
    BY <1>3, <2>1 DEF NewHandle
  <2>3. Carries(q, r) /\ ~CatchingUp(r) /\ r.cmd.op = "none"
    BY <1>3, <2>2 DEF Carries, CatchingUp
  <2>4. QED
    BY <1>1, <2>1, <2>3, SaveTurn
<1>5. CASE ~ends
  <2>1. Update(h, a)
    BY <1>2, <1>5 DEF EndSave
  <2>2. a.view = q.view \/ ~CatchingUp(a)
    <3>1. SUFFICES ASSUME outcome = "ok", CatchingUp(a)
                   PROVE  FALSE
      BY <1>3
    <3>2. Catching(h, q, log) /\ CatchingUp(q)
      BY <1>3, <3>1, StreamKept DEF Keeps, CatchingUp
    <3>3. View(h).attempt.id = q.runAttempt
      BY <3>2, ViewIn DEF Catching, AttemptIn
    <3>4. QED
      BY <1>5, <3>1, <3>3
  <2>3. QED
    BY <1>1, <1>3, <2>1, <2>2, SaveTurn
<1>6. QED
  BY <1>4, <1>5

LEMMA ReserveSaveSound ==
  ASSUME LifecycleInv, StreamInv, NEW h \in Runner, NEW outcome, ReserveSave(h, outcome)
  PROVE  StreamInv'
<1> DEFINE q == handle[h]
<1>1. /\ Saves(h, "reserve", outcome) /\ "reserve" \in SaveOps \ {"claim"}
      /\ ~CatchingUp(q)
  BY StreamKept DEF ReserveSave, SaveOps, Saves, Stages, RetireBusy
<1>2. PICK a : a = Answered(h, outcome)
  OBVIOUS
<1>3. PICK r : /\ r = a \/ r = [a EXCEPT !.cmd = Pending("reattest", q.cmd.evs)]
               /\ Update(h, r)
  BY <1>2 DEF ReserveSave
<1>4. /\ r.stage = a.stage /\ r.alive = a.alive /\ r.stopped = a.stopped
      /\ r.runAttempt = a.runAttempt /\ r.certificate = a.certificate
      /\ r.cmd.op \in {"none", "reattest"}
  BY <1>2, <1>3, AnsweredCarries DEF NewHandle, Pending
<1>5. Carries(q, r) /\ ~CatchingUp(r)
  BY <1>1, <1>2, <1>4, AnsweredCarries DEF Carries, CatchingUp
<1>6. QED
  BY <1>1, <1>3, <1>4, <1>5, SaveTurn

LEMMA RecordRetirementSound ==
  ASSUME LifecycleInv, StreamInv, NEW h \in Runner, NEW outcome, RecordRetirement(h, outcome)
  PROVE  StreamInv'
<1> DEFINE q == handle[h]
<1>1. /\ Saves(h, "complete", outcome) /\ "complete" \in SaveOps \ {"claim"}
      /\ ~CatchingUp(q)
  BY StreamKept DEF RecordRetirement, SaveOps, Saves, Stages, RetireBusy
<1>2. PICK a : a = Answered(h, outcome) /\ Update(h, a)
  BY DEF RecordRetirement
<1>3. Carries(q, a) /\ ~CatchingUp(a) /\ a.cmd.op = "none"
  BY <1>1, <1>2, AnsweredCarries DEF CatchingUp
<1>4. QED
  BY <1>1, <1>2, <1>3, SaveTurn

\* A claim that is recorded: the attempt is the claimant's, and being built.
LEMMA ClaimGrows ==
  ASSUME LifecycleInv, StreamInv, NEW h \in Runner, handle[h].cmd.op = "claim",
         Tip = handle[h].view, log' = Recorded(handle[h].cmd.evs)
  PROVE  LET q == handle[h]
             b == AttemptIn(log', Len(log'))
         IN  /\ Folded(log')
             /\ \A g \in Runner \ {h} : Keeps(g, handle[g], log')
             /\ \A i \in 1 .. Len(log') : AttemptIn(log', i).runner = h =>
                  /\ AttemptIn(log', i).phase \in Flipped =>
                       AttemptIn(log, q.view).phase \in Flipped
                  /\ ~(i = Len(log') /\ AttemptIn(log', i).phase = "created")
             /\ AttemptIn(log', q.view) = AttemptIn(log, q.view)
             /\ b.id = q.runAttempt /\ b.id # 0 /\ b.runner = h /\ b.phase # "created"
<1> DEFINE q == handle[h]
           evs == q.cmd.evs
           s == StateIn(log, Tip)
           a == AttemptIn(log, Tip)
<1>1. /\ evs[1].type = "RunnerClaimed" /\ a.id = q.runAttempt
      /\ \A i \in 1 .. Len(log) : AttemptIn(log, i).runner # h
      /\ Writes(h, evs, s)
  BY StreamKept DEF Keeps, Claims, Pends, SaveOps
<1>2. /\ Extends(log, log') /\ Folded(log') /\ Grown(log, log', h, evs)
      /\ Tip \in Nat /\ Len(log) = Tip /\ log'[Tip + 1].event = evs[1]
  BY <1>1, AppendGrows DEF LifecycleInv, StreamInv
<1>3. /\ Len(log') \in Nat /\ Tip \in 0 .. Len(log) /\ h # NoRunner
      /\ AttemptIn(log', Tip) = a /\ StateIn(log', Tip) = s
      /\ \A i \in 1 .. Len(log) : AttemptIn(log', i) = AttemptIn(log, i)
  <2>1. \A i \in 0 .. Len(log) :
          AttemptIn(log', i) = AttemptIn(log, i) /\ StateIn(log', i) = StateIn(log, i)
    BY <1>2, StatesStay
  <2>2. Len(log') \in Nat /\ Tip \in 0 .. Len(log) /\ h # NoRunner
    BY <1>2, NoRunnerAssumption DEF Extends
  <2>3. \A i \in 1 .. Len(log) : i \in 0 .. Len(log)
    BY <1>2
  <2>4. QED
    BY <2>1, <2>2, <2>3
<1>4. ASSUME NEW g \in Runner \ {h} PROVE Keeps(g, handle[g], log')
  <2>1. handle[g].view \in 0 .. Len(log) /\ Keeps(g, handle[g], log)
    BY Shape, StreamKept DEF Tip
  <2>2. QED
    BY <1>2, <2>1, KeepsLater
<1>5. a.runner # h
  <2>1. AttemptIn(log, 0).runner = NoRunner
    BY DEF AttemptIn, StateIn, NewState, NoAttempt
  <2>2. QED
    BY <1>1, <1>2, <1>3, <2>1
<1>6. ASSUME NEW i \in 1 .. Len(log'), AttemptIn(log', i).runner = h
      PROVE  /\ AttemptIn(log', i).phase \in Flipped => a.phase \in Flipped
             /\ ~(i = Len(log') /\ AttemptIn(log', i).phase = "created")
  <2>1. i \in Len(log) + 1 .. Len(log')
    <3>1. i \notin 1 .. Len(log)
      BY <1>1, <1>3, <1>6
    <3>2. QED
      BY ONLY <1>2, <1>3, <1>6, <3>1
  <2>2. /\ AttemptIn(log', i).phase \in Flipped =>
              a.phase \in Flipped \/ evs[1].type = "Promoted"
        /\ i = Len(log') /\ AttemptIn(log', i).phase = "created" =>
              AttemptIn(log', i).runner \in {NoRunner, a.runner}
    BY ONLY <1>2, <2>1 DEF Grown, Tip
  <2>3. QED
    BY ONLY <1>1, <1>3, <1>5, <1>6, <2>2
<1>7. /\ AttemptIn(log', Len(log')).id = a.id /\ a.id # 0
      /\ AttemptIn(log', Len(log')).runner = h /\ Len(log') > Tip
  <2>1. Sound(s)
    BY <1>3, FoldedIsSound DEF StreamInv
  <2>2. Accepts(evs[1], s) /\ evs[1].runner = h
    BY <1>1 DEF Writes, Accepted
  <2>3. Effect(evs[1], s, ApplyTo(evs[1], s)) /\ a = s.attempt
    BY <2>1, <2>2, AcceptedEffect DEF Sound, AttemptIn
  <2> DEFINE t == ApplyTo(evs[1], s)
  <2>4. t.attempt.id = a.id /\ t.attempt.runner = h /\ a.id # 0
    <3>1. a.phase # "none" /\ SameAttempt(a, t.attempt) /\ t.attempt.runner = h
      BY <1>1, <2>2, <2>3 DEF Effect
    <3>2. a.id # 0
      BY <2>1, <2>3, <3>1, SoundAttempt
    <3>3. QED
      BY <3>1, <3>2 DEF SameAttempt
  <2> HIDE DEF t
  <2>5. CASE evs = <<evs[1]>>
    <3>1. /\ Len(log') = Tip + 1 /\ log'[Tip + 1].state = ApplyTo(evs[1], StateIn(log, Tip))
      BY <2>5, RecordedOne DEF LifecycleInv
    <3>2. AttemptIn(log', Len(log')) = t.attempt
      BY <1>2, <3>1 DEF AttemptIn, StateIn, t
    <3>3. QED
      BY <1>2, <2>4, <3>1, <3>2
  <2>6. CASE evs = <<evs[1], BuildStarted>> /\ Accepts(BuildStarted, t)
    <3>0. evs = <<evs[1], evs[2]>> /\ evs[2] = BuildStarted
      BY <2>6
    <3>1. /\ Len(log') = Tip + 2
          /\ log'[Tip + 1].state = ApplyTo(evs[1], StateIn(log, Tip))
          /\ log'[Tip + 2].state = ApplyTo(evs[2], log'[Tip + 1].state)
      BY <3>0, RecordedTwo DEF LifecycleInv
    <3>2. log'[Tip + 1].state = t
      BY <3>1 DEF t
    <3>3. AttemptIn(log', Len(log')) = ApplyTo(BuildStarted, t).attempt
      BY <1>2, <3>0, <3>1, <3>2 DEF AttemptIn, StateIn
    <3>4. Sound(t)
      BY <1>1, <2>1, SoundStep DEF Writes, Accepted, t
    <3>5. Effect(BuildStarted, t, ApplyTo(BuildStarted, t)) /\ BuildStarted.type = "BuildStarted"
      BY <2>6, <3>4, AcceptedEffect DEF Sound, BuildStarted
    <3>6. /\ AttemptIn(log', Len(log')).id = t.attempt.id
          /\ AttemptIn(log', Len(log')).runner = t.attempt.runner
      BY <3>3, <3>5 DEF Effect, SameClaim, SameAttempt
    <3>7. QED
      BY <1>2, <2>4, <3>1, <3>6
  <2>7. QED
    BY <1>1, <2>5, <2>6 DEF Writes, Accepted, t
<1>8. Len(log') \in 1 .. Len(log')
  BY <1>2, <1>3, <1>7
<1>9. AttemptIn(log', Len(log')).phase # "created"
  BY <1>6, <1>7, <1>8
<1>10. QED
  BY <1>1, <1>2, <1>3, <1>4, <1>6, <1>7, <1>9

LEMMA ClaimSaveSound ==
  ASSUME LifecycleInv, StreamInv, NEW h \in Runner, NEW outcome, ClaimSave(h, outcome)
  PROVE  StreamInv'
<1> DEFINE q == handle[h]
<1>1. /\ Saves(h, "claim", outcome) /\ q.cmd.op = "claim" /\ "claim" \in SaveOps
      /\ Keeps(h, q, log) /\ Stages(q) /\ q.cmd # NoCommand
  BY StreamKept DEF ClaimSave, Saves, SaveOps, NoCommand
<1>2. q.stage = "claiming" /\ q.alive \notin {"gone", "new"} /\ q.certificate = NoCertificate
  BY <1>1 DEF Stages, Early
<1>3. PICK a : a = Answered(h, outcome)
  OBVIOUS
<1>4. /\ DOMAIN a = DOMAIN NewHandle /\ a.alive = q.alive /\ a.stage = q.stage
      /\ a.runAttempt = q.runAttempt /\ a.cmd = NoCommand /\ a.certificate = NoCertificate
      /\ outcome # "ok" => a.view = q.view
      /\ outcome = "ok" => a.view = q.view + Len(q.cmd.evs)
  BY <1>2, <1>3, AnsweredCarries
\* What remains to be shown of the record the save leaves.
<1>5. ASSUME NEW r, Update(h, r), Keeps(h, r, log'), log' = Recorded(q.cmd.evs),
             Tip = q.view, inflight' = {}
      PROVE  StreamInv'
  <2>1. Folded(log') /\ \A g \in Runner \ {h} : Keeps(g, handle[g], log')
    BY <1>1, <1>5, ClaimGrows
  <2>2. \A g \in Runner : Keeps(g, handle'[g], log')
    BY <1>5, <2>1 DEF LifecycleInv, Update
  <2>3. QED
    BY <1>5, <2>1, <2>2 DEF StreamInv
<1>6. outcome \in {"ok", "appended"} =>
        log' = Recorded(q.cmd.evs) /\ Tip = q.view /\ inflight' = {}
  BY <1>1 DEF Saves, Unmoved
<1> DEFINE b == AttemptIn(log', Len(log'))
<1>7. CASE outcome = "ok"
  <2>1. PICK r \in Started(h, a) : Update(h, r)
    BY <1>3, <1>7 DEF ClaimSave
  <2>2. /\ r.alive = q.alive /\ r.certificate = q.certificate /\ r.cmd = NoCommand
        /\ r.view = a.view /\ r.runAttempt = q.runAttempt
        /\ r.stage \in {"catchup", "tailing", "releasing"}
        /\ r.stage = "catchup" => View(h).attempt.phase \in {"created", "building", "caught_up"}
    BY <1>2, <1>4, <2>1, StartedCases
  <2>3. /\ \A i \in 1 .. Len(log') : AttemptIn(log', i).runner = h =>
             /\ AttemptIn(log', i).phase \in Flipped => AttemptIn(log, q.view).phase \in Flipped
             /\ ~(i = Len(log') /\ AttemptIn(log', i).phase = "created")
        /\ b.id = q.runAttempt /\ b.id # 0 /\ b.runner = h /\ b.phase # "created"
    BY <1>1, <1>6, <1>7, ClaimGrows
  <2>4. r.view = Len(log')
    BY <1>1, <1>4, <1>7, <2>2, SaveFacts
  <2>5. Catching(h, r, log')
    BY <2>2, <2>3, <2>4 DEF Catching
  <2>6. r.stage = "catchup" => AttemptIn(log, q.view).phase \notin Flipped
    BY <2>2, ViewIn DEF AttemptIn, Flipped
  <2>7. Keeps(h, r, log')
    BY <1>1, <1>2, <2>2, <2>3, <2>5, <2>6, ClaimOver
  <2>8. QED
    BY <1>5, <1>6, <1>7, <2>1, <2>7
<1>8. CASE outcome = "appended"
  <2>1. PICK r : r = [a EXCEPT !.cmd = Pending("observe", <<>>)] /\ Update(h, r)
    BY <1>3, <1>8 DEF ClaimSave
  <2>2. /\ r.alive = q.alive /\ r.certificate = NoCertificate /\ r.cmd.op = "observe"
        /\ r.view = q.view /\ r.stage = "claiming"
    BY <1>2, <1>4, <1>8, <2>1 DEF NewHandle, Pending
  <2>3. /\ AttemptIn(log', q.view) = AttemptIn(log, q.view)
        /\ \A i \in 1 .. Len(log') : AttemptIn(log', i).runner = h =>
             /\ AttemptIn(log', i).phase \in Flipped => AttemptIn(log, q.view).phase \in Flipped
             /\ ~(i = Len(log') /\ AttemptIn(log', i).phase = "created")
    BY <1>1, <1>6, <1>8, ClaimGrows
  <2>4. Held(h, r, log')
    BY <2>2, <2>3 DEF Held
  <2>5. Stages(r)
    BY <1>2, <2>2 DEF Stages, PromoteOps, RetireBusy, RetireOps
  <2>6. Catching(h, r, log') /\ Claims(h, r, log') /\ Pends(h, r, log')
    BY <2>2 DEF Catching, CatchingUp, Claims, Pends, SaveOps, RetireOps
  <2>7. QED
    BY <1>5, <1>6, <1>8, <2>1, <2>4, <2>5, <2>6 DEF Keeps
<1>9. CASE outcome \notin {"ok", "appended"}
  <2>1. PICK p, x, r : /\ p = a \/ p = [a EXCEPT !.view = q.view + 1]
                       /\ r = Finished(p, x) /\ Update(h, r)
    <3>1. CASE outcome = "mismatch"
      <4> DEFINE moved == [a EXCEPT !.view = q.view + 1]
      <4>1. Update(h, ClaimDefeat(h, a))
        BY <1>3, <1>9, <3>1 DEF ClaimSave
      <4>2. ClaimDefeat(h, a) \in {Finished(a, "error"), Finished(moved, "nil"),
                                   Finished(moved, "displaced")}
        BY DEF ClaimDefeat
      <4> HIDE DEF moved
      <4>3. PICK r : r = ClaimDefeat(h, a)
        OBVIOUS
      <4>4. \E p, x : p \in {a, moved} /\ r = Finished(p, x)
        BY <4>2, <4>3
      <4>5. QED
        BY <4>1, <4>3, <4>4 DEF moved
    <3>2. CASE outcome # "mismatch"
      BY <1>3, <1>9, <3>2 DEF ClaimSave
    <3>3. QED
      BY <3>1, <3>2
  <2>2. /\ DOMAIN p = DOMAIN NewHandle /\ p.alive = q.alive /\ p.cmd = NoCommand
        /\ p.certificate = q.certificate
    BY <1>2, <1>4, <2>1 DEF NewHandle
  <2>3. /\ r.alive = q.alive /\ r.certificate = q.certificate /\ r.cmd = NoCommand
        /\ r.stage = "done"
    BY <2>1, <2>2, FinishedCases
  <2>4. /\ UNCHANGED log
        /\ inflight' \subseteq inflight \cup (IF Tip = q.view THEN {q.cmd.evs} ELSE {})
    BY <1>1, <1>9 DEF Saves, Unmoved
  <2>5. \A i \in 1 .. Len(log) : AttemptIn(log, i).runner # h
    BY <1>1 DEF Keeps, Claims
  <2>6. Keeps(h, r, log) /\ Onward(q, r)
    <3>1. Catching(h, r, log)
      BY <2>3 DEF Catching, CatchingUp
    <3>2. Stages(q) /\ q.alive \notin {"gone", "new"} /\ q.stage \in {"idle", "claiming"}
      BY <1>1, <1>2
    <3>3. QED
      BY ONLY <2>3, <2>5, <3>1, <3>2, ClaimOver
  <2>7. \A g \in Runner : Keeps(g, handle'[g], log) /\ (Past(handle[g]) => Past(handle'[g]))
    BY <2>1, <2>6 DEF LifecycleInv, StreamInv, Update, Onward
  <2>8. Past(handle'[h]) /\ Tip' = Tip
    BY <2>1, <2>3, <2>4 DEF LifecycleInv, Update, Past, Early, Tip
  <2>9. ASSUME NEW evs \in inflight' PROVE Lands(evs, StateIn(log, Tip))'
    <3>1. CASE evs \in inflight
      <4>1. PICK k \in Runner :
              /\ Writes(k, evs, StateIn(log, Tip))
              /\ evs[1].type \in {"RunnerClaimed", "Promoted"} => Past(handle[k])
        BY <3>1 DEF StreamInv, Lands
      <4>2. QED
        BY <2>4, <2>7, <2>8, <4>1 DEF Lands
    <3>2. CASE evs \notin inflight
      <4>1. evs = q.cmd.evs /\ Tip = q.view
        BY <2>4, <3>2
      <4>2. Writes(h, evs, StateIn(log, Tip))
        BY <1>1, <4>1 DEF Keeps, Pends
      <4>3. QED
        BY <2>4, <2>8, <4>2 DEF Lands
    <3>3. QED
      BY <3>1, <3>2
  <2>10. QED
    BY <2>4, <2>7, <2>9 DEF StreamInv
<1>10. QED
  BY <1>7, <1>8, <1>9

LEMMA SaveAnswersSound ==
  ASSUME LifecycleInv, StreamInv, NEW h \in Runner, SaveAnswers(h)
  PROVE  StreamInv'
<1>1. PICK outcome \in Outcome :
        \/ BeginSave(h, outcome)
        \/ PolicySave(h, outcome)
        \/ ClaimSave(h, outcome)
        \/ CatchUpSave(h, outcome)
        \/ PromoteSave(h, outcome)
        \/ PromoteAfterCatchUpSave(h, outcome)
        \/ ResolveRetrySave(h, outcome)
        \/ ReleaseClaimSave(h, outcome)
        \/ EndSave(h, "rollback", outcome)
        \/ EndSave(h, "abandon", outcome)
        \/ ReserveSave(h, outcome)
        \/ RecordRetirement(h, outcome)
  BY DEF SaveAnswers
<1>2. QED
  BY <1>1, BeginSaveSound, PolicySaveSound, ClaimSaveSound, CatchUpSaveSound,
     PromoteSaveSound, PromoteAfterCatchUpSaveSound, ResolveRetrySaveSound,
     ReleaseClaimSaveSound, EndSaveSound, ReserveSaveSound, RecordRetirementSound

-----------------------------------------------------------------------------
(* The theorem.                                                             *)

\* The history the model starts from, and its handles.
LEMMA StartIsFolded ==
  /\ Len(Start) \in Nat /\ DOMAIN Start = 1 .. Len(Start)
  /\ Folded(Start)
<1> DEFINE S == [event : {Start[i].event : i \in DOMAIN Start}, state : State]
<1>1. Start \in Seq(S)
  BY StartAssumption
<1>2. /\ Len(Start) \in Nat /\ DOMAIN Start = 1 .. Len(Start)
      /\ \A i \in 1 .. Len(Start) : Start[i].state \in State
  <2>1. \A x \in S : x.state \in State
    OBVIOUS
  <2> HIDE DEF S
  <2>2. QED
    BY <1>1, <2>1
<1>3. ASSUME NEW i \in 1 .. Len(Start)
      PROVE  /\ Accepts(Start[i].event, StateIn(Start, i - 1)) /\ NamedEvent(Start[i].event)
             /\ Start[i].state = ApplyTo(Start[i].event, StateIn(Start, i - 1))
  <2>1. /\ Start[i].event.type \in EventType /\ Valid(Start[i].state)
        /\ Start[i].state =
             ApplyTo(Start[i].event, IF i = 1 THEN NewState ELSE Start[i - 1].state)
    BY <1>2, StartAssumption
  <2>2. (IF i = 1 THEN NewState ELSE Start[i - 1].state) = StateIn(Start, i - 1)
    BY <1>2 DEF StateIn
  <2>3. NamedEvent(Start[i].event)
    BY <1>2, StartIsOwn DEF NamedEvent
  <2>4. QED
    BY <1>2, <2>1, <2>2, <2>3 DEF Accepts
<1>4. QED
  BY <1>2, <1>3 DEF Folded

LEMMA PastRunnersHeld ==
  \A i \in 0 .. Len(Start) : AttemptIn(Start, i).runner \in PastRunners \cup {NoRunner}
<1> DEFINE S == {i \in 0 .. Len(Start) :
                   AttemptIn(Start, i).runner \in PastRunners \cup {NoRunner}}
<1>1. 0 \in S
  BY StartIsFolded DEF AttemptIn, StateIn, NewState, NoAttempt
<1>2. ASSUME NEW i \in 1 .. Len(Start), i - 1 \in S
      PROVE  i \in S
  <2> DEFINE e == Start[i].event
             a == AttemptIn(Start, i - 1)
             b == AttemptIn(Start, i)
  <2>1. /\ Sound(StateIn(Start, i - 1)) /\ Accepts(e, StateIn(Start, i - 1)) /\ NamedEvent(e)
        /\ e.type \in EventType
        /\ StateIn(Start, i) = ApplyTo(e, StateIn(Start, i - 1))
    BY StartIsFolded, FoldedStep
  <2>2. \/ b.runner \in {NoRunner, a.runner}
        \/ e.type = "RunnerClaimed" /\ b.runner = e.runner
    BY <2>1, AttemptAfter DEF AttemptIn
  <2>3. e.type = "RunnerClaimed" => e.runner \in PastRunners
    BY StartIsFolded DEF PastRunners
  <2>4. QED
    BY <1>2, <2>2, <2>3
<1>3. \A i \in 0 .. Len(Start) : i \in S
  <2> HIDE DEF S
  <2>1. QED
    BY <1>1, <1>2, StartIsFolded, IntervalInduction
<1>4. QED
  BY <1>3

LEMMA InitStreams ==
  ASSUME Init
  PROVE  StreamInv
<1>1. log = Start /\ inflight = {} /\ Folded(log) /\ Len(log) \in Nat
  BY StartIsFolded DEF Init
<1>2. ASSUME NEW h \in Runner
      PROVE  Keeps(h, handle[h], log)
  <2> DEFINE r == handle[h]
  <2>1. /\ r.stage = "idle" /\ r.cmd = NoCommand /\ r.certificate = NoCertificate
        /\ h \in PastRunners => r.alive = "gone"
    BY DEF Init, NewHandle
  <2> HIDE DEF r
  <2>2. Pends(h, r, log) /\ r.cmd.op = "none"
    BY <2>1, NoCommandPends
  <2>3. \A i \in 1 .. Len(log) : AttemptIn(log, i).runner = h => r.alive = "gone"
    BY <1>1, <2>1, PastRunnersHeld, NoRunnerAssumption
  <2>4. Held(h, r, log)
    BY <2>1, <2>2, <2>3 DEF Held
  <2>5. Stages(r) /\ Catching(h, r, log) /\ Claims(h, r, log)
    BY <2>1, <2>2 DEF Stages, Catching, CatchingUp, Claims, PromoteOps, RetireBusy, RetireOps
  <2>6. QED
    BY <2>2, <2>4, <2>5 DEF Keeps, r
<1>3. QED
  BY <1>1, <1>2 DEF StreamInv

LEMMA InternalSound ==
  ASSUME LifecycleInv, StreamInv, NEW h \in Runner, Internal(h)
  PROVE  StreamInv'
BY SaveAnswersSound, ObserveClaimOver, PromoteAfterCatchUpPends, ResolveHaltCalm,
   ResolveRetryPends, ResolveSlotInstalls, WoundInstalls, DrainedCalm, ClassifyExitCalm,
   ReleaseClaimPends, PublishProcessorExitCalm, ReconcileExitCalm, AttestGoesOn,
   AttestedGoesOn, ReattestGoesOn, DestructionGoesOn
   DEF Internal

LEMMA ExternalSound ==
  ASSUME LifecycleInv, StreamInv, ForeignRefold = FALSE, NEW h \in Runner, External(h)
  PROVE  StreamInv'
BY BeginLoadOpens, PolicyLoadOpens, ResumeOpens, RunEnterClaims, CatchUpPends,
   PromotePends, RollbackPends, AbandonPends, RetirePends, CancelRunCalm,
   ReconcileFailCalm, CrashKept
   DEF External

LEMMA NextSound ==
  ASSUME LifecycleInv, StreamInv, ForeignRefold = FALSE, [Next]_vars
  PROVE  StreamInv'
<1>1. ASSUME NEW h \in Runner, Internal(h) \/ External(h) \/ ProcessorReturn(h)
      PROVE  StreamInv'
  BY <1>1, InternalSound, ExternalSound, ProcessorReturnCalm
<1>2. ASSUME NEW h \in Runner, NEW v \in 0 .. Tip, Reconcile(h, v)
      PROVE  StreamInv'
  BY <1>2, ReconcileInstalls
<1>3. ASSUME NEW w \in Witness, Deliver(w)
      PROVE  StreamInv'
  BY <1>3, IdleKept DEF Deliver
<1>4. CASE UNCHANGED vars
  BY <1>4, IdleKept DEF vars
<1>5. QED
  BY <1>1, <1>2, <1>3, <1>4, LandKept DEF Next

\* Where no refolding command reaches a catching-up run that has lost its attempt
\* (MCForeign shows what one does), every append is right for the state it reaches.
THEOREM StreamInvariance ==
  ASSUME ForeignRefold = FALSE
  PROVE  Spec => [](LifecycleInv /\ StreamInv)
<1>1. Init => LifecycleInv /\ StreamInv
  BY InitEstablishes, InitStreams
<1>2. LifecycleInv /\ StreamInv /\ [Next]_vars => (LifecycleInv /\ StreamInv)'
  BY NextKeeps, NextSound, Zenon
<1>3. QED
  BY <1>1, <1>2, PTL DEF Spec

\* Every state the stream records passes State.validate: whatever handles, runs,
\* commands, crashes and late appends do, no interleaving of the code's own writers
\* poisons the fold (state.go, State.validate; handle.go, appendLocked).
THEOREM LifecycleStreamSound ==
  ASSUME ForeignRefold = FALSE
  PROVE  Spec => []StreamSound
<1>1. LifecycleInv /\ StreamInv => StreamSound
  <2>1. SUFFICES ASSUME LifecycleInv, StreamInv, NEW i \in 1 .. Tip
                 PROVE  Valid(log[i].state)
    BY DEF StreamSound
  <2>2. Len(log) \in Nat /\ Tip = Len(log) /\ Folded(log)
    <3>1. LogOK /\ Folded(log)
      BY <2>1 DEF LifecycleInv, StreamInv
    <3>2. QED
      BY <3>1 DEF LogOK, Tip
  <2>3. Sound(StateIn(log, i)) /\ log[i].state = StateIn(log, i)
    BY <2>2, FoldedStep
  <2>4. QED
    BY <2>3 DEF Sound
<1>2. QED
  BY <1>1, StreamInvariance, PTL

-----------------------------------------------------------------------------
(* Retirement: what is torn down was reserved, and its witnesses moved on.  *)

\* A retirement under way from state s: only a flipped attempt with a version to
\* remove gets here, only a reserved one with every witness asked gets to destroy, and
\* the captured witnesses that were asked have moved.
Retires(c, s, serving) ==
  c.op \in RetireOps =>
    /\ s.attempt.phase \in Flipped /\ s.attempt.previous # 0
    /\ c.op \in {"teardown", "drop"} => s.attempt.phase = "retiring" /\ c.todo = {}
    /\ s.attempt.phase = "retiring" =>
         \A w \in s.attempt.retiringWitnesses \ c.todo : MovedTo(w, s, serving)

RetireInv ==
  /\ applied \in [Witness -> Cutover]
  /\ \A w \in Witness : Routed(w, log, applied)
  /\ \A v \in torn : Reserved(v, log, applied)
  /\ \A h \in Runner : Retires(handle[h].cmd, StateIn(log, handle[h].view), applied)

LEMMA RetiresLater ==
  ASSUME NEW serving, NEW now, Later(serving, now), NEW s, Sound(s), NEW c,
         Retires(c, s, serving)
  PROVE  Retires(c, s, now)
<1>1. s.attempt.retiringWitnesses \in SUBSET Witness
  BY SoundAttempt
<1>2. QED
  BY <1>1, MovedLater DEF Retires

\* What a handle sees is sound.
LEMMA Sees ==
  ASSUME LifecycleInv, StreamInv, NEW h \in Runner
  PROVE  /\ Sound(StateIn(log, handle[h].view)) /\ View(h) = StateIn(log, handle[h].view)
         /\ Folded(log) /\ Len(log) \in Nat /\ Extends(log, log)
<1>1. Folded(log) /\ Len(log) \in Nat /\ Extends(log, log)
  BY DEF LifecycleInv, LogOK, StreamInv, Extends
<1>2. handle[h].view \in 0 .. Len(log)
  BY Shape DEF Tip
<1>3. QED
  BY <1>1, <1>2, FoldedIsSound DEF View, StateAt, StateIn

LEMMA AsideRetires ==
  ASSUME LifecycleInv, StreamInv, RetireInv, StandsAside
  PROVE  RetireInv'
<1>1. Folded(log) /\ Extends(log, log') /\ UNCHANGED <<applied, torn>>
  BY DEF StreamInv, StandsAside
<1>2. Later(applied, applied)
  <2>1. \A w \in Witness : applied[w].revision \in Nat
    BY DEF RetireInv, Cutover
  <2>2. QED
    BY <2>1 DEF RetireInv, Later
<1>3. ASSUME NEW g \in Runner
      PROVE  Retires(handle'[g].cmd, StateIn(log', handle'[g].view), applied)
  <2>1. CASE handle'[g].cmd.op \notin RetireOps
    BY <2>1 DEF Retires
  <2>2. CASE handle'[g].cmd.op \in RetireOps
    <3>1. handle'[g].cmd = handle[g].cmd /\ handle'[g].view = handle[g].view
      BY <2>2 DEF StandsAside
    <3>2. handle[g].view \in 0 .. Len(log)
      BY Shape DEF Tip
    <3>3. StateIn(log', handle[g].view) = StateIn(log, handle[g].view)
      BY <1>1, <3>2, StatesStay
    <3>4. QED
      BY <3>1, <3>3 DEF RetireInv
  <2>3. QED
    BY <2>1, <2>2
<1>4. \A v \in torn : Reserved(v, log', applied)
  BY <1>1, <1>2, ReservedLater DEF RetireInv
<1>5. \A w \in Witness : Routed(w, log', applied)
  BY <1>1, RoutedLater DEF RetireInv
<1>6. QED
  BY <1>1, <1>3, <1>4, <1>5 DEF RetireInv

\* One handle goes on with its retirement, and perhaps destroys.
LEMMA RetireStep ==
  ASSUME LifecycleInv, StreamInv, RetireInv, NEW h \in Runner, NEW r, Update(h, r),
         Retires(r.cmd, StateIn(log, r.view), applied),
         \A v \in torn' \ torn : Reserved(v, log, applied),
         UNCHANGED <<log, applied>>
  PROVE  RetireInv'
<1>1. \A g \in Runner : Retires(handle'[g].cmd, StateIn(log, handle'[g].view), applied)
  BY DEF RetireInv, LifecycleInv, Update
<1>2. \A v \in torn' : Reserved(v, log, applied)
  BY DEF RetireInv
<1>3. QED
  BY <1>1, <1>2 DEF RetireInv

LEMMA NothingRetires ==
  ASSUME NEW c, NEW s, NEW serving, c.op \notin RetireOps
  PROVE  Retires(c, s, serving)
BY DEF Retires

\* A command that is given up.
LEMMA AbortRetires ==
  ASSUME LifecycleInv, StreamInv, RetireInv, NEW h \in Runner, AbortRetire(h),
         \A v \in torn' \ torn : Reserved(v, log, applied),
         UNCHANGED <<log, applied>>
  PROVE  RetireInv'
<1>1. PICK r : r = [handle[h] EXCEPT !.cmd = NoCommand] /\ Update(h, r)
  BY DEF AbortRetire
<1>2. r.cmd.op \notin RetireOps
  BY <1>1, Shape DEF NewHandle, NoCommand, RetireOps
<1>3. QED
  BY <1>1, <1>2, NothingRetires, RetireStep

LEMMA RetireRetires ==
  ASSUME LifecycleInv, StreamInv, RetireInv, NEW h \in Runner, NEW override,
         Retire(h, override)
  PROVE  RetireInv'
<1> DEFINE s == StateAt(Tip)
           todo == RequiredWitnesses(s, override)
           evs == <<RetireEvent(s, override)>>
           next(refused) ==
             [handle[h] EXCEPT
                !.view = Tip,
                !.cmd = IF refused THEN NoCommand
                        ELSE [op   |-> IF s.attempt.previous = 0 THEN "complete"
                                       ELSE "preflight",
                              evs  |-> evs,
                              todo |-> IF s.attempt.previous = 0 THEN {} ELSE todo]]
<1>1. UNCHANGED <<log, applied, torn>> /\ Tip \in Nat /\ Tip = Len(log)
  BY Shape DEF Retire, Tip
<1>2. PICK refused \in {RetireRefused(s, override),
                       RetireRefused(s, override) \/ NoTeardowner(s)} :
        Update(h, next(refused))
  BY DEF Retire
<1> DEFINE r == next(refused)
<1> HIDE DEF evs
<1>3. CASE refused
  <2>1. r.cmd = NoCommand
    BY <1>2, <1>3, Shape DEF NewHandle
  <2>2. r.cmd.op \notin RetireOps
    BY <2>1 DEF NoCommand, RetireOps
  <2>3. QED
    BY <1>1, <1>2, <2>2, NothingRetires, RetireStep
<1>4. CASE ~refused /\ s.attempt.previous = 0
  <2>1. r.cmd.op = "complete"
    BY <1>2, <1>4, Shape DEF NewHandle
  <2>2. r.cmd.op \notin RetireOps
    BY <2>1 DEF RetireOps
  <2>3. QED
    BY <1>1, <1>2, <2>2, NothingRetires, RetireStep
<1>5. CASE ~refused /\ s.attempt.previous # 0
  <2>1. r.cmd = [op |-> "preflight", evs |-> evs, todo |-> todo] /\ r.view = Tip
    BY <1>2, <1>5, Shape DEF NewHandle
  <2>2. s.attempt.phase \in Flipped
    BY <1>2, <1>5 DEF RetireRefused, Flipped
  <2>3. s.attempt.phase = "retiring" => todo = s.attempt.retiringWitnesses
    BY DEF RequiredWitnesses
  <2>4. Retires(r.cmd, s, applied)
    BY <1>5, <2>1, <2>2, <2>3 DEF Retires
  <2>5. s = StateIn(log, r.view)
    BY <2>1 DEF StateAt, StateIn
  <2>6. QED
    BY <1>1, <1>2, <2>4, <2>5, RetireStep
<1>6. QED
  BY <1>3, <1>4, <1>5

LEMMA AttestRetires ==
  ASSUME LifecycleInv, StreamInv, RetireInv, NEW h \in Runner, NEW w, Attest(h, w)
  PROVE  RetireInv'
<1> DEFINE q == handle[h]
           c == q.cmd
           s == StateIn(log, q.view)
<1>1. UNCHANGED <<log, applied, torn>> /\ c.op \in RetireOps /\ c.op \notin {"teardown", "drop"}
  BY DEF Attest, RetireOps
<1>2. CASE AbortRetire(h)
  BY <1>1, <1>2, AbortRetires
<1>3. CASE ~AbortRetire(h)
  <2>1. /\ applied[w].revision = s.cutoverRevision
        /\ Update(h, [q EXCEPT !.cmd = [c EXCEPT !.todo = c.todo \ {w}]])
    BY <1>3, Sees DEF Attest, Vouches, LiveCutover
  <2>2. PICK r : r = [q EXCEPT !.cmd = [op |-> c.op, evs |-> c.evs, todo |-> c.todo \ {w}]]
                 /\ Update(h, r)
    BY <2>1, CommandFields
  <2>3. r.cmd = [op |-> c.op, evs |-> c.evs, todo |-> c.todo \ {w}] /\ r.view = q.view
    BY <2>2, Shape DEF NewHandle
  <2>4. Retires(c, s, applied) /\ s.cutoverRevision \in Nat
    BY Sees, SoundAttempt DEF RetireInv
  <2>5. Retires(r.cmd, s, applied)
    BY <1>1, <2>1, <2>3, <2>4 DEF Retires, MovedTo
  <2>6. QED
    BY <1>1, <2>2, <2>3, <2>5, RetireStep
<1>4. QED
  BY <1>2, <1>3

LEMMA AttestedRetires ==
  ASSUME LifecycleInv, StreamInv, RetireInv, NEW h \in Runner, Attested(h)
  PROVE  RetireInv'
<1> DEFINE q == handle[h]
           c == q.cmd
           s == StateIn(log, q.view)
<1>1. /\ UNCHANGED <<log, applied, torn>> /\ c.op \in RetireOps
      /\ c.op \notin {"teardown", "drop"} /\ c.todo = {}
  BY DEF Attested, RetireOps
<1>2. PICK op : /\ op = (IF NeedsReservation(View(h)) THEN "reserve" ELSE "teardown")
                /\ Update(h, [q EXCEPT !.cmd = [c EXCEPT !.op = op]])
  BY DEF Attested
<1>3. PICK r : r = [q EXCEPT !.cmd = [op |-> op, evs |-> c.evs, todo |-> c.todo]]
               /\ Update(h, r)
  BY <1>2, CommandFields
<1>4. r.cmd = [op |-> op, evs |-> c.evs, todo |-> c.todo] /\ r.view = q.view
  BY <1>3, Shape DEF NewHandle
<1>5. Retires(c, s, applied) /\ View(h) = s
  BY Sees DEF RetireInv
<1>6. Retires(r.cmd, s, applied)
  <2>1. CASE NeedsReservation(s)
    BY <1>2, <1>4, <1>5, <2>1 DEF Retires, RetireOps
  <2>2. CASE ~NeedsReservation(s)
    <3>1. s.attempt.phase = "retiring"
      BY <1>1, <1>5, <2>2 DEF Retires, NeedsReservation, Flipped
    <3>2. QED
      BY <1>1, <1>4, <1>5, <3>1 DEF Retires
  <2>3. QED
    BY <2>1, <2>2
<1>7. QED
  BY <1>1, <1>3, <1>4, <1>6, RetireStep

LEMMA ReattestRetires ==
  ASSUME LifecycleInv, StreamInv, RetireInv, NEW h \in Runner, Reattest(h)
  PROVE  RetireInv'
<1> DEFINE s == StateAt(Tip)
           goes == /\ Valid(s) /\ s.attempt.phase = "retiring"
                   /\ s.attempt.previous = handle[h].cmd.evs[1].retiring
<1>1. UNCHANGED <<log, applied, torn>> /\ Tip \in Nat /\ Tip = Len(log)
  BY Shape DEF Reattest, Tip
<1>2. CASE AbortRetire(h)
  BY <1>1, <1>2, AbortRetires
<1>3. CASE ~AbortRetire(h) /\ ~goes
  <2>1. PICK r : r = [handle[h] EXCEPT !.view = Tip, !.cmd = NoCommand] /\ Update(h, r)
    BY <1>3 DEF Reattest
  <2>2. r.cmd.op \notin RetireOps
    BY <2>1, Shape DEF NewHandle, NoCommand, RetireOps
  <2>3. QED
    BY <1>1, <2>1, <2>2, NothingRetires, RetireStep
<1>4. CASE ~AbortRetire(h) /\ goes
  <2>1. PICK evs, r :
          /\ r = [handle[h] EXCEPT
                    !.view = Tip,
                    !.cmd = [op |-> "recheck", evs |-> evs,
                             todo |-> s.attempt.retiringWitnesses]]
          /\ Update(h, r)
    BY <1>4, Zenon DEF Reattest
  <2>2. /\ r.cmd = [op |-> "recheck", evs |-> evs, todo |-> s.attempt.retiringWitnesses]
        /\ r.view = Tip
    BY <2>1, Shape DEF NewHandle
  <2>3. s = StateIn(log, r.view) /\ Sound(s)
    <3>1. Tip \in 0 .. Len(log)
      BY <1>1
    <3>2. QED
      BY <2>2, <3>1, FoldedIsSound, Sees DEF StateAt, StateIn
  <2>4. s.attempt.previous # 0
    BY <1>4, <2>3, SoundAttempt
  <2>5. Retires(r.cmd, s, applied)
    BY <1>4, <2>2, <2>4 DEF Retires, Flipped
  <2>6. QED
    BY <1>1, <2>1, <2>3, <2>5, RetireStep
<1>5. QED
  BY <1>2, <1>3, <1>4

\* What a teardown destroys was reserved at the version in view.
LEMMA TeardownIsReserved ==
  ASSUME LifecycleInv, StreamInv, RetireInv, NEW h \in Runner, handle[h].cmd.op = "teardown"
  PROVE  Reserved(RetiredVersion(View(h)), log, applied)
<1> DEFINE i == handle[h].view
           s == StateIn(log, i)
<1>1. Retires(handle[h].cmd, s, applied) /\ handle[h].cmd.op \in RetireOps
  BY DEF RetireInv, RetireOps
<1>2. /\ s.attempt.phase = "retiring"
      /\ \A w \in s.attempt.retiringWitnesses : MovedTo(w, s, applied)
  BY <1>1 DEF Retires
<1>3. i \in 0 .. Len(log) /\ View(h) = s
  BY Shape, Sees DEF Tip
<1>4. i # 0
  BY <1>2 DEF StateIn, NewState, NoAttempt
<1>5. i \in 1 .. Len(log)
  BY <1>3, <1>4, Sees
<1>6. QED
  BY <1>2, <1>3, <1>5 DEF Reserved, ReservedIn, AttemptIn, RetiredVersion

LEMMA TeardownRetires ==
  ASSUME LifecycleInv, StreamInv, RetireInv, NEW h \in Runner, Teardown(h)
  PROVE  RetireInv'
<1> DEFINE q == handle[h]
           c == q.cmd
<1>1. /\ c.op = "teardown" /\ c.op \in RetireOps /\ UNCHANGED <<log, applied>>
      /\ torn' = torn \cup {RetiredVersion(View(h))}
  BY DEF Teardown, RetireOps
<1>2. \A v \in torn' \ torn : Reserved(v, log, applied)
  BY <1>1, TeardownIsReserved
<1>3. CASE AbortRetire(h)
  BY <1>1, <1>2, <1>3, AbortRetires
<1>4. CASE ~AbortRetire(h)
  <2>1. Update(h, [q EXCEPT !.cmd = [c EXCEPT !.op = "drop"]])
    BY <1>4 DEF Teardown
  <2>2. PICK r : r = [q EXCEPT !.cmd = [op |-> "drop", evs |-> c.evs, todo |-> c.todo]]
                 /\ Update(h, r)
    BY <2>1, CommandFields
  <2>3. r.cmd = [op |-> "drop", evs |-> c.evs, todo |-> c.todo] /\ r.view = q.view
    BY <2>2, Shape DEF NewHandle
  <2>4. Retires(c, StateIn(log, q.view), applied)
    BY DEF RetireInv
  <2>5. Retires(r.cmd, StateIn(log, q.view), applied)
    BY <1>1, <2>3, <2>4 DEF Retires
  <2>6. QED
    BY <1>1, <1>2, <2>2, <2>3, <2>5, RetireStep
<1>5. QED
  BY <1>3, <1>4

LEMMA DropCheckpointRetires ==
  ASSUME LifecycleInv, StreamInv, RetireInv, NEW h \in Runner, DropCheckpoint(h)
  PROVE  RetireInv'
<1> DEFINE q == handle[h]
           c == q.cmd
<1>1. UNCHANGED <<log, applied, torn>>
  BY DEF DropCheckpoint
<1>2. CASE AbortRetire(h)
  BY <1>1, <1>2, AbortRetires
<1>3. CASE ~AbortRetire(h)
  <2>1. Update(h, [q EXCEPT !.cmd = [c EXCEPT !.op = "complete"]])
    BY <1>3 DEF DropCheckpoint
  <2>2. PICK r : r = [q EXCEPT !.cmd = [op |-> "complete", evs |-> c.evs, todo |-> c.todo]]
                 /\ Update(h, r)
    BY <2>1, CommandFields
  <2>3. r.cmd.op \notin RetireOps
    BY <2>2, Shape DEF NewHandle, RetireOps
  <2>4. QED
    BY <1>1, <2>2, <2>3, NothingRetires, RetireStep
<1>4. QED
  BY <1>2, <1>3

LEMMA CrashRetires ==
  ASSUME LifecycleInv, StreamInv, RetireInv, NEW h \in Runner, Crash(h)
  PROVE  RetireInv'
<1>1. PICK r : r = [NewHandle EXCEPT !.alive = "gone"] /\ Update(h, r)
  BY DEF Crash
<1>2. r.cmd.op \notin RetireOps
  BY <1>1 DEF NewHandle, NoCommand, RetireOps
<1>3. UNCHANGED <<log, applied>>
  BY DEF Crash
<1>4. \A v \in torn' \ torn : Reserved(v, log, applied)
  <2>1. CASE UNCHANGED torn
    BY <2>1
  <2>2. CASE handle[h].cmd.op = "teardown" /\ torn' = torn \cup {RetiredVersion(View(h))}
    BY <2>2, TeardownIsReserved
  <2>3. QED
    BY <2>1, <2>2 DEF Crash
<1>5. QED
  BY <1>1, <1>2, <1>3, <1>4, NothingRetires, RetireStep

\* Routes converge: a witness only ever moves to a newer cutover of the history.
LEMMA DeliverRetires ==
  ASSUME LifecycleInv, StreamInv, RetireInv, NEW w \in Witness, Deliver(w)
  PROVE  RetireInv'
<1>1. PICK i \in 1 .. Tip :
        LET cutover == DecodeCutover(log[i].event).cutover
        IN  /\ IsCutover(log[i].event)
            /\ cutover.revision > applied[w].revision
            /\ applied' = [applied EXCEPT ![w] = cutover]
  BY DEF Deliver
<1>2. UNCHANGED <<log, handle, torn>> /\ Tip = Len(log) /\ Folded(log) /\ Len(log) \in Nat
  BY DEF Deliver, Tip, LifecycleInv, LogOK, StreamInv
<1>3. /\ Effect(log[i].event, StateIn(log, i - 1), StateIn(log, i))
      /\ Sound(StateIn(log, i))
  BY <1>2, FoldedStep
<1>4. DecodeCutover(log[i].event).cutover = LiveCutover(StateIn(log, i))
  BY <1>1, <1>3 DEF Effect, IsCutover
<1>5. LiveCutover(StateIn(log, i)) \in Cutover
  BY <1>3, SoundAttempt DEF LiveCutover, Cutover
<1>6. /\ applied' = [applied EXCEPT ![w] = LiveCutover(StateIn(log, i))]
      /\ LiveCutover(StateIn(log, i)).revision > applied[w].revision
      /\ applied \in [Witness -> Cutover]
  BY <1>1, <1>4 DEF RetireInv
<1>7. Later(applied, applied')
  <2>1. applied' \in [Witness -> Cutover]
    BY <1>5, <1>6
  <2>2. \A x \in Witness : applied[x].revision \in Nat /\ applied'[x].revision \in Nat
    BY <1>6, <2>1 DEF Cutover
  <2>3. \A x \in Witness : applied'[x].revision >= applied[x].revision
    BY <1>6, <2>2
  <2>4. QED
    BY <1>6, <2>1, <2>3 DEF Later
<1>8. \A x \in Witness : Routed(x, log, applied')
  BY <1>2, <1>6 DEF RetireInv, Routed
<1>9. \A v \in torn : Reserved(v, log, applied')
  BY <1>2, <1>7, Sees, ReservedLater DEF RetireInv, Extends
<1>10. \A g \in Runner : Retires(handle[g].cmd, StateIn(log, handle[g].view), applied')
  BY <1>7, Sees, RetiresLater DEF RetireInv
<1>11. QED
  BY <1>2, <1>7, <1>8, <1>9, <1>10 DEF RetireInv, Later

LEMMA InitRetires ==
  ASSUME Init
  PROVE  RetireInv
<1>1. applied = [w \in Witness |-> [live |-> 0, revision |-> 0]] /\ torn = {}
  BY DEF Init
<1>2. [live |-> 0, revision |-> 0] \in Cutover
  BY DEF Cutover
<1>3. \A h \in Runner : handle[h].cmd.op \notin RetireOps
  BY DEF Init, NewHandle, NoCommand, RetireOps
<1>4. QED
  BY <1>1, <1>2, <1>3, NothingRetires DEF RetireInv, Routed

LEMMA NextRetires ==
  ASSUME LifecycleInv, StreamInv, RetireInv, [Next]_vars
  PROVE  RetireInv'
<1>1. ASSUME NEW h \in Runner, Internal(h)
      PROVE  RetireInv'
  <2>1. CASE \/ SaveAnswers(h) \/ ObserveClaim(h) \/ PromoteAfterCatchUp(h)
             \/ ResolveHalt(h) \/ ResolveRetry(h) \/ ResolveSlot(h)
             \/ Wound(h) \/ Drained(h) \/ ClassifyExit(h) \/ ReleaseClaim(h)
             \/ PublishProcessorExit(h) \/ ReconcileExit(h)
    BY <2>1, AsideRetires, SaveAnswersKeeps, ObserveClaimKeeps, PromoteAfterCatchUpKeeps,
       ResolveHaltKeeps, ResolveRetryKeeps, ResolveSlotKeeps, WoundKeeps, DrainedKeeps,
       ClassifyExitKeeps, ReleaseClaimKeeps, PublishProcessorExitKeeps, ReconcileExitKeeps
  <2>2. QED
    BY <1>1, <2>1, AttestRetires, AttestedRetires, ReattestRetires, TeardownRetires,
       DropCheckpointRetires DEF Internal
<1>2. ASSUME NEW h \in Runner, External(h) \/ ProcessorReturn(h)
      PROVE  RetireInv'
  <2>1. CASE \/ BeginLoad(h) \/ (\E W \in SUBSET Witness : PolicyLoad(h, W))
             \/ Resume(h) \/ (\E takeover \in BOOLEAN : RunEnter(h, takeover))
             \/ (\E p \in Position : CatchUp(h, p))
             \/ Promote(h) \/ Rollback(h) \/ Abandon(h)
             \/ CancelRun(h) \/ ReconcileFail(h) \/ ProcessorReturn(h)
    BY <2>1, AsideRetires, BeginLoadKeeps, PolicyLoadKeeps, ResumeKeeps, RunEnterKeeps,
       CatchUpKeeps, PromoteKeeps, RollbackKeeps, AbandonKeeps, CancelRunKeeps,
       ReconcileFailKeeps, ProcessorReturnKeeps
  <2>2. QED
    BY <1>2, <2>1, RetireRetires, CrashRetires DEF External
<1>3. ASSUME NEW h \in Runner, NEW v \in 0 .. Tip, Reconcile(h, v)
      PROVE  RetireInv'
  BY <1>3, AsideRetires, ReconcileKeeps
<1>4. CASE Land
  BY <1>4, AsideRetires, LandKeeps
<1>5. CASE UNCHANGED vars
  <2>1. StandsAside
    BY <1>5, Sees DEF vars, StandsAside, LifecycleInv, LogOK, Extends
  <2>2. QED
    BY <2>1, AsideRetires
<1>6. QED
  BY <1>1, <1>2, <1>3, <1>4, <1>5, DeliverRetires DEF Next

\* What is torn down was reserved first, and every witness that the reservation
\* captured had moved on by then, in every reachable state.
THEOREM RetireInvariance ==
  ASSUME ForeignRefold = FALSE
  PROVE  Spec => [](LifecycleInv /\ StreamInv /\ RetireInv)
<1>1. Init => RetireInv
  BY InitRetires
<1>2. LifecycleInv /\ StreamInv /\ RetireInv /\ [Next]_vars => RetireInv'
  BY NextRetires
<1>3. Spec => [](LifecycleInv /\ StreamInv)
  BY StreamInvariance, Zenon
<1>4. QED
  BY <1>1, <1>2, <1>3, PTL DEF Spec

\* What is torn down is past for good.
LEMMA TornIsPast ==
  ASSUME LifecycleInv, StreamInv, RetireInv
  PROVE  TornNeverServes
<1>1. SUFFICES ASSUME NEW v \in torn
               PROVE  LET s == StateAt(Tip)
                          a == s.attempt
                      IN  /\ s.live # v
                          /\ a.phase # "none" => a.target # v
                          /\ a.phase # "none" /\ a.previous = v => a.phase = "retiring"
  BY DEF TornNeverServes
<1>2. PICK i \in 1 .. Len(log) : ReservedIn(log, i, v)
  BY <1>1 DEF RetireInv, Reserved
<1>3. /\ Len(log) \in Nat /\ Tip = Len(log) /\ Folded(log)
      /\ StateAt(Tip) = StateIn(log, Len(log))
  BY <1>1 DEF LifecycleInv, LogOK, StreamInv, Tip, StateAt, StateIn
<1>4. i \in 0 .. Len(log) /\ Len(log) \in i .. Len(log) /\ Len(log) \in 0 .. Len(log)
  BY <1>3
<1> DEFINE s == StateIn(log, i)
           t == StateIn(log, Len(log))
<1>5. /\ Outlives(s, t) /\ v \in Nat /\ v < s.attempt.target
      /\ s.attempt.target \in Nat /\ t.live \in Nat /\ t.live > v
  BY <1>2, <1>3, <1>4, ReservedIsPast
<1>6. Sound(t)
  BY <1>3, <1>4, FoldedIsSound
<1>7. t.attempt.phase # "none" => t.attempt.target \in Nat /\ t.live <= t.attempt.target
  BY <1>6, SoundAttempt
<1>8. t.attempt.previous \in Nat
  BY <1>6, SoundAttempt
<1> HIDE DEF s, t
<1>9. t.attempt.phase # "none" /\ t.attempt.previous = v => t.attempt.phase = "retiring"
  BY <1>5, <1>8 DEF Outlives
<1>10. t.live # v /\ (t.attempt.phase # "none" => t.attempt.target # v)
  BY <1>5, <1>7
<1>11. QED
  BY <1>3, <1>9, <1>10 DEF t

\* A version whose storage a teardown has touched is never live again, never a rollback
\* target and never built again (handle.go, Retire and Rollback; events.go,
\* RetireStarted).
THEOREM LifecycleTornNeverServes ==
  ASSUME ForeignRefold = FALSE
  PROVE  Spec => []TornNeverServes
<1>1. LifecycleInv /\ StreamInv /\ RetireInv => TornNeverServes
  BY TornIsPast
<1>2. QED
  BY <1>1, RetireInvariance, PTL

\* No witness that a reservation captured serves the version once it is torn down
\* (retirement.go: attest before the reservation, and again before the teardown).
THEOREM LifecycleWitnessesMoved ==
  ASSUME ForeignRefold = FALSE
  PROVE  Spec => []WitnessesMoved
<1>1. LifecycleInv /\ StreamInv /\ RetireInv => WitnessesMoved
  <2>1. SUFFICES ASSUME LifecycleInv, StreamInv, RetireInv, NEW j \in 1 .. Tip,
                        log[j].event.type = "RetireStarted",
                        log[j].event.retiring \in torn,
                        NEW w \in log[j].event.witnesses
                 PROVE  applied[w].live # log[j].event.retiring
    BY DEF WitnessesMoved, Event
  <2> DEFINE v == log[j].event.retiring
  <2>2. Len(log) \in Nat /\ Tip = Len(log) /\ Folded(log)
    BY <2>1 DEF LifecycleInv, LogOK, StreamInv, Tip
  <2>3. /\ Effect(log[j].event, StateIn(log, j - 1), StateIn(log, j))
        /\ Sound(StateIn(log, j))
    BY <2>2, FoldedStep
  <2>4. ReservedIn(log, j, v) /\ AttemptIn(log, j).retiringWitnesses = log[j].event.witnesses
    BY <2>1, <2>3 DEF Effect, ReservedIn, AttemptIn, SameClaim, SameAttempt
  <2>5. PICK i \in 1 .. Len(log) :
          /\ ReservedIn(log, i, v)
          /\ \A x \in AttemptIn(log, i).retiringWitnesses :
               MovedTo(x, StateIn(log, i), applied)
    BY <2>1 DEF RetireInv, Reserved
  <2>6. AttemptIn(log, i).retiringWitnesses = AttemptIn(log, j).retiringWitnesses
    <3>1. i \in 0 .. Len(log) /\ j \in 0 .. Len(log) /\ (j \in i .. Len(log) \/ i \in j .. Len(log))
      BY <2>2
    <3>2. QED
      BY <2>2, <2>4, <2>5, <3>1, OneReservation
  <2>7. w \in Witness
    BY <2>3, <2>4, SoundAttempt DEF AttemptIn
  <2>8. Routed(w, log, applied) /\ MovedTo(w, StateIn(log, i), applied)
    BY <2>1, <2>4, <2>5, <2>6, <2>7 DEF RetireInv
  <2>9. QED
    BY <2>2, <2>5, <2>8, MovedIsNewer
<1>2. QED
  BY <1>1, RetireInvariance, PTL

-----------------------------------------------------------------------------
(* The lifecycle implements the serving contract.                           *)

\* Every append by the code's own writers is a move of the contract, or none: a claim
\* and the start of the build it is saved with move nothing.
LEMMA AppendMoves ==
  ASSUME LifecycleInv, StreamInv, NEW h, NEW evs, Writes(h, evs, StateIn(log, Tip)),
         log' = Recorded(evs), NEW gone, PastFor(gone, StateIn(log, Tip))
  PROVE  LET s == StateIn(log, Tip)
             t == StateIn(log', Len(log'))
         IN  \/ Stays(s, t) \/ Flips(s, t, gone) \/ Reverts(s, t, gone) \/ Forfeits(s, t)
<1> DEFINE s == StateIn(log, Tip)
<1>1. Tip \in Nat /\ Tip = Len(log) /\ Sound(s) /\ LogOK
  BY FoldedIsSound DEF LifecycleInv, StreamInv, LogOK, Tip
<1>2. CASE evs = <<evs[1]>>
  <2>1. StateIn(log', Len(log')) = ApplyTo(evs[1], s)
    BY <1>1, <1>2, RecordedOne DEF StateIn
  <2>2. Accepts(evs[1], s) /\ NamedEvent(evs[1])
    BY DEF Writes, Accepted
  <2>3. QED
    BY <1>1, <2>1, <2>2, EventMoves
<1>3. CASE /\ evs = <<evs[1], BuildStarted>> /\ evs[1].type = "RunnerClaimed"
           /\ Accepts(BuildStarted, ApplyTo(evs[1], s))
  <2> DEFINE m == ApplyTo(evs[1], s)
             t == ApplyTo(BuildStarted, m)
  <2>1. evs[2] = BuildStarted /\ evs = <<evs[1], evs[2]>>
    BY <1>3
  <2>2. StateIn(log', Len(log')) = t
    BY <1>1, <2>1, RecordedTwo DEF StateIn
  <2>3. Accepts(evs[1], s) /\ NamedEvent(evs[1])
    BY DEF Writes, Accepted
  <2>4. Effect(evs[1], s, m) /\ Sound(m)
    BY <1>1, <2>3, AcceptedEffect, SoundStep DEF Sound
  <2>5. Effect(BuildStarted, m, t) /\ BuildStarted.type = "BuildStarted"
    BY <1>3, <2>4, AcceptedEffect DEF Sound, BuildStarted
  <2> HIDE DEF m, t, s
  <2>6. /\ Serves(s, m) /\ Serves(m, t) /\ m.attempt.phase = s.attempt.phase
        /\ m.attempt.phase = "created" /\ t.attempt.phase = "building"
    BY <1>3, <2>4, <2>5 DEF Effect
  <2>7. Stays(s, t)
    BY <2>6 DEF Stays, Serves, Fallback
  <2>8. QED
    BY <2>2, <2>7 DEF s
<1>4. QED
  BY <1>2, <1>3 DEF Writes, Accepted

\* What is being saved, or may still land.
Saving == inflight \cup {handle[h].cmd.evs : h \in {g \in Runner : handle[g].cmd.op \in SaveOps}}

\* The stream is appended to by its own writers, and by nothing that destroys.
OwnAppend ==
  \/ UNCHANGED log
  \/ /\ UNCHANGED torn
     /\ \E h \in Runner, evs \in Saving :
          Writes(h, evs, StateIn(log, Tip)) /\ log' = Recorded(evs)

LEMMA SavesAppend ==
  ASSUME LifecycleInv, StreamInv, NEW h \in Runner, NEW op \in SaveOps, NEW outcome,
         Saves(h, op, outcome)
  PROVE  OwnAppend
<1>1. CASE UNCHANGED log
  BY <1>1 DEF OwnAppend
<1>2. CASE Tip = handle[h].view /\ log' = Recorded(handle[h].cmd.evs)
  <2>1. Pends(h, handle[h], log) /\ handle[h].cmd.op = op
    BY StreamKept DEF Saves, Keeps
  <2>2. Writes(h, handle[h].cmd.evs, StateIn(log, Tip))
    BY <1>2, <2>1 DEF Pends
  <2>3. handle[h].cmd.evs \in Saving
    BY <2>1 DEF Saving
  <2>4. QED
    BY <1>2, <2>2, <2>3 DEF OwnAppend, Saves
<1>3. QED
  BY <1>1, <1>2 DEF Saves, Unmoved

LEMMA SaveAnswersAppend ==
  ASSUME LifecycleInv, StreamInv, NEW h \in Runner, SaveAnswers(h)
  PROVE  OwnAppend
<1>1. PICK op \in SaveOps : \E outcome \in Outcome : Saves(h, op, outcome)
  BY DEF SaveAnswers, SaveOps, BeginSave, PolicySave, ClaimSave, CatchUpSave, PromoteSave,
         PromoteAfterCatchUpSave, ResolveRetrySave, ReleaseClaimSave, EndSave, ReserveSave,
         RecordRetirement
<1>2. QED
  BY <1>1, SavesAppend

LEMMA NextAppends ==
  ASSUME LifecycleInv, StreamInv, [Next]_vars
  PROVE  OwnAppend
<1>1. ASSUME NEW h \in Runner, Internal(h), ~SaveAnswers(h)
      PROVE  UNCHANGED log
  BY <1>1 DEF Internal, ObserveClaim, PromoteAfterCatchUp, ResolveHalt, ResolveRetry,
     ResolveSlot, Wound, Drained, ClassifyExit, ReleaseClaim, PublishProcessorExit,
     ReconcileExit, Attest, Attested, Reattest, Teardown, DropCheckpoint
<1>2. ASSUME NEW h \in Runner, External(h) \/ ProcessorReturn(h)
      PROVE  UNCHANGED log
  BY <1>2, Zenon DEF External, ProcessorReturn, BeginLoad, PolicyLoad, Resume, RunEnter, CatchUp,
     Promote, Rollback, Abandon, Retire, CancelRun, ReconcileFail, Crash
<1>3. ASSUME NEW h \in Runner, NEW v \in 0 .. Tip, Reconcile(h, v)
      PROVE  UNCHANGED log
  BY <1>3 DEF Reconcile
<1>4. ASSUME NEW w \in Witness, Deliver(w)
      PROVE  UNCHANGED log
  BY <1>4 DEF Deliver
<1>5. CASE Land
  <2>1. PICK evs \in inflight : log' = Recorded(evs) /\ UNCHANGED torn
    BY <1>5 DEF Land
  <2>2. PICK k \in Runner : Writes(k, evs, StateIn(log, Tip))
    BY <2>1 DEF StreamInv, Lands
  <2>3. evs \in Saving
    BY <2>1 DEF Saving
  <2>4. QED
    BY <2>1, <2>2, <2>3 DEF OwnAppend
<1>6. QED
  BY <1>1, <1>2, <1>3, <1>4, <1>5, SaveAnswersAppend DEF Next, OwnAppend, vars

\* Destruction takes one reserved version at a time.
OneTorn ==
  \/ UNCHANGED torn
  \/ \E v : /\ torn' = torn \cup {v} /\ UNCHANGED log
            /\ Reserved(v, log, applied)

LEMMA NextTears ==
  ASSUME LifecycleInv, StreamInv, RetireInv, [Next]_vars
  PROVE  OneTorn
<1>1. ASSUME NEW h \in Runner, Teardown(h) \/ Crash(h)
      PROVE  OneTorn
  BY <1>1, TeardownIsReserved DEF OneTorn, Teardown, Crash
<1>2. ASSUME NEW h \in Runner, Internal(h)
      PROVE  OneTorn
  <2>1. CASE SaveAnswers(h)
    BY <2>1, SaveAnswersKeeps DEF StandsAside, OneTorn
  <2>2. QED
    BY <1>1, <1>2, <2>1, Zenon DEF Internal, OneTorn, ObserveClaim, PromoteAfterCatchUp,
       ResolveHalt, ResolveRetry, ResolveSlot, Wound, Drained, ClassifyExit, ReleaseClaim,
       PublishProcessorExit, ReconcileExit, Attest, Attested, Reattest, DropCheckpoint
<1>3. ASSUME NEW h \in Runner, External(h) \/ ProcessorReturn(h)
      PROVE  OneTorn
  BY <1>1, <1>3, Zenon DEF OneTorn, External, ProcessorReturn, BeginLoad, PolicyLoad, Resume,
     RunEnter, CatchUp, Promote, Rollback, Abandon, Retire, CancelRun, ReconcileFail
<1>4. QED
  BY <1>2, <1>3, Zenon DEF Next, OneTorn, Reconcile, Deliver, Land, vars

\* A step of the stream is a step of the contract or a stutter.
LEMMA StepMoves ==
  ASSUME LifecycleInv, StreamInv, RetireInv, [Next]_vars
  PROVE  [Contract!Next]_(Contract!vars)
<1> DEFINE s == StateAt(Tip)
           t == StateIn(log', Len(log'))
<1>1. /\ s = StateIn(log, Tip) /\ Tip = Len(log) /\ Tip \in Nat /\ Folded(log)
      /\ StateAt(Tip)' = t
  BY DEF LifecycleInv, LogOK, StreamInv, StateAt, StateIn, Tip
<1>2. PastFor(torn, s)
  BY TornIsPast DEF TornNeverServes, PastFor
<1>3. CASE UNCHANGED torn
  <2>1. Stays(s, t) \/ Flips(s, t, torn) \/ Reverts(s, t, torn) \/ Forfeits(s, t)
    <3>1. CASE UNCHANGED log
      BY <1>1, <3>1 DEF Stays, Serves
    <3>2. CASE ~UNCHANGED log
      <4>1. PICK h \in Runner : \E evs : Writes(h, evs, StateIn(log, Tip)) /\ log' = Recorded(evs)
        BY <3>2, NextAppends DEF OwnAppend
      <4>2. QED
        BY <1>1, <1>2, <4>1, AppendMoves
    <3>3. QED
      BY <3>1, <3>2
  <2> HIDE DEF s, t
  <2>2. /\ StateAt(Tip).live = s.live /\ StateAt(Tip).cutoverRevision = s.cutoverRevision
        /\ (IF StateAt(Tip).attempt.phase = "promoted"
              THEN StateAt(Tip).attempt.previous ELSE 0) = Fallback(s)
        /\ (StateAt(Tip).live)' = t.live /\ (StateAt(Tip).cutoverRevision)' = t.cutoverRevision
        /\ (IF StateAt(Tip).attempt.phase = "promoted"
              THEN StateAt(Tip).attempt.previous ELSE 0)' = Fallback(t)
    BY <1>1 DEF Fallback, s
  <2>3. CASE Stays(s, t)
    BY <1>3, <2>2, <2>3 DEF Stays, Serves, Contract!vars
  <2>4. CASE Flips(s, t, torn)
    BY <1>3, <2>2, <2>4 DEF Flips, Contract!Next, Contract!Flip
  <2>5. CASE Reverts(s, t, torn)
    BY <1>3, <2>2, <2>5 DEF Reverts, Contract!Next, Contract!Revert
  <2>6. CASE Forfeits(s, t)
    BY <1>3, <2>2, <2>6 DEF Forfeits, Serves, Contract!Next, Contract!Forfeit
  <2>7. QED
    BY <2>1, <2>3, <2>4, <2>5, <2>6
<1>4. CASE ~UNCHANGED torn
  <2>1. PICK v : torn' = torn \cup {v} /\ UNCHANGED log /\ Reserved(v, log, applied)
    BY <1>4, NextTears DEF OneTorn
  <2>2. PICK i \in 1 .. Len(log) : ReservedIn(log, i, v)
    BY <2>1 DEF Reserved
  <2>3. i \in 0 .. Len(log) /\ Tip \in i .. Len(log) /\ Tip \in 0 .. Len(log)
    BY <1>1
  <2>4. /\ Outlives(StateIn(log, i), s) /\ v \in Nat /\ v # 0
        /\ v < StateIn(log, i).attempt.target /\ StateIn(log, i).attempt.target \in Nat
        /\ s.live > v /\ s.live \in Nat
    BY <1>1, <2>2, <2>3, ReservedIsPast
  <2>5. s.attempt.previous \in Nat
    BY <1>1, <2>3, FoldedIsSound, SoundAttempt
  <2> HIDE DEF s, t
  <2>6. v \notin {s.live, Fallback(s)}
    BY <2>4, <2>5 DEF Outlives, Fallback
  <2>7. s = StateAt(Tip) /\ StateAt(Tip)' = StateAt(Tip)
    BY <2>1 DEF s, StateAt, Tip
  <2>8. Contract!Destroy
    BY <2>1, <2>6, <2>7 DEF Contract!Destroy, Fallback
  <2>9. QED
    BY <2>8 DEF Contract!Next
<1>5. QED
  BY <1>3, <1>4

\* The lifecycle implements the serving contract (ServingContract): cutovers one at a
\* time, a rollback only to the version kept for it, and no teardown of what is live or
\* kept (handle.go, Promote, Rollback and Retire; state.go, the fold).
THEOREM LifecycleKeepsContract ==
  ASSUME ForeignRefold = FALSE
  PROVE  Spec => KeepsContract
<1>1. LifecycleInv /\ StreamInv /\ Init => Contract!Init
  <2>1. SUFFICES ASSUME LifecycleInv, StreamInv, Init
                 PROVE  Contract!Init
    OBVIOUS
  <2>2. StateAt(Tip) = StateIn(log, Tip) /\ Tip = Len(log) /\ Tip \in Nat /\ Folded(log)
    BY <2>1 DEF LifecycleInv, LogOK, StreamInv, StateAt, StateIn, Tip
  <2>3. Tip \in 0 .. Len(log)
    BY <2>2
  <2>4. /\ StateAt(Tip).live \in Nat /\ StateAt(Tip).cutoverRevision \in Nat
        /\ StateAt(Tip).attempt.previous \in Nat
    BY <2>2, <2>3, FoldedIsSound, SoundAttempt
  <2>5. torn = {}
    BY <2>1 DEF Init
  <2>6. QED
    BY <2>4, <2>5 DEF Contract!Init
<1>2. LifecycleInv /\ StreamInv /\ RetireInv /\ [Next]_vars => [Contract!Next]_(Contract!vars)
  BY StepMoves
<1>3. Spec => [](LifecycleInv /\ StreamInv /\ RetireInv)
  BY RetireInvariance, Zenon
<1>4. QED
  BY <1>1, <1>2, <1>3, PTL DEF Spec, KeepsContract, Contract!Spec

-----------------------------------------------------------------------------
(* The verdict of a run: what it says of its attempt, the stream shows.     *)

Unstarted == {"idle", "claiming"}
Engaged == {"catchup", "promoting", "resolving", "tailing", "winding", "closing"}
Ending == {"rollback", "abandon"}
Driven == {"catchup", "autopromote", "retry"}

\* Since version e, attempt id has ended; or someone other than h has claimed it.
EndedIn(l, e, id) == \E i \in e .. Len(l) : AttemptIn(l, i).id # id
RivalIn(l, e, id, h) ==
  \E i \in e + 1 .. Len(l) :
    /\ l[i].event.type = "RunnerClaimed"
    /\ l[i].event.attempt = id
    /\ l[i].event.runner # h

\* What a run has before it has a processor, and what it has with one.
Posture(r) ==
  /\ r.stage \in Unstarted =>
       /\ r.processor = "none" /\ ~r.stopped
       /\ r.failure = "none" /\ r.result = "none" /\ r.slot = 0
  /\ r.stage = "idle" => r.runAttempt = 0
  /\ r.stage = "claiming" => r.cmd.op \in {"claim", "observe"}
  /\ r.stage \in Engaged \/ r.reconciling \/ r.cmd.op \in Driven => r.processor # "none"
  /\ r.stage = "resolving" => r.slot # 0
  /\ r.slot # 0 => r.slot > r.entry
  /\ r.cmd.op \in Ending => r.cmd.evs[1].type \in {"RolledBack", "Abandoned"}

\* The run came in at its entry, where its attempt stood, and its own claim is the
\* next event.
Entered(h, r, l) ==
  /\ r.entry \in 0 .. r.view
  /\ r.runAttempt # 0 => AttemptIn(l, r.entry).id = r.runAttempt
  /\ r.cmd.op = "claim" => r.runAttempt # 0 /\ r.entry = r.view
  /\ r.cmd.op = "observe" \/ r.processor # "none" =>
       /\ r.runAttempt # 0 /\ r.entry < Len(l)
       /\ AttemptIn(l, r.entry + 1).id = r.runAttempt
       /\ AttemptIn(l, r.entry + 1).runner = h
  /\ r.processor # "none" => r.entry < r.view

\* A stop without a cause, and the result nil, say that the attempt has ended; the
\* cause and the result "displaced" that it has another claimant.
Told(h, r, l) ==
  /\ r.failure # "nil"
  /\ (r.stopped /\ r.failure = "none") \/ r.result = "nil" =>
       r.runAttempt # 0 /\ EndedIn(l, r.entry, r.runAttempt)
  /\ "displaced" \in {r.failure, r.result} => RivalIn(l, r.entry, r.runAttempt, h)

Runs(h, r, l) == Posture(r) /\ Entered(h, r, l) /\ Told(h, r, l)

RunInv == \A h \in Runner : Runs(h, handle[h], log)

LEMMA ToldLater ==
  ASSUME NEW l, NEW m, Extends(l, m), NEW h, NEW q, NEW r, Told(h, q, l),
         r.entry = q.entry, q.entry \in Nat, r.runAttempt = q.runAttempt,
         r.stopped = q.stopped, r.failure = q.failure, r.result = q.result
  PROVE  Told(h, r, m)
<1> DEFINE e == q.entry
           id == q.runAttempt
<1>1. ASSUME EndedIn(l, e, id) PROVE EndedIn(m, e, id)
  <2>1. PICK i \in e .. Len(l) : AttemptIn(l, i).id # id
    BY <1>1 DEF EndedIn
  <2>2. i \in 0 .. Len(l) /\ i \in e .. Len(m)
    BY DEF Extends
  <2>3. AttemptIn(m, i) = AttemptIn(l, i)
    BY <2>2, StatesStay
  <2>4. QED
    BY <2>1, <2>2, <2>3 DEF EndedIn
<1>2. ASSUME RivalIn(l, e, id, h) PROVE RivalIn(m, e, id, h)
  <2>1. PICK i \in e + 1 .. Len(l) :
          /\ l[i].event.type = "RunnerClaimed" /\ l[i].event.attempt = id
          /\ l[i].event.runner # h
    BY <1>2 DEF RivalIn
  <2>2. i \in e + 1 .. Len(m) /\ m[i] = l[i]
    BY DEF Extends
  <2>3. QED
    BY <2>1, <2>2 DEF RivalIn
<1>3. QED
  BY <1>1, <1>2 DEF Told

\* The run keeps its entry and its attempt, its view is no earlier, and it claims
\* nothing that it was not claiming.
Goes(q, r) ==
  /\ r.entry = q.entry /\ r.runAttempt = q.runAttempt
  /\ r.cmd.op = "claim" => q.cmd.op = "claim" /\ r.view = q.view
  /\ r.cmd.op = "observe" => q.cmd.op = "observe"
  /\ r.processor # "none" => q.processor # "none"

LEMMA EnteredLater ==
  ASSUME NEW l, NEW m, Extends(l, m), NEW h, NEW q, NEW r, Entered(h, q, l), Goes(q, r),
         q.view \in 0 .. Len(l), r.view \in q.view .. Len(m)
  PROVE  Entered(h, r, m) /\ q.entry \in Nat
<1>1. q.entry \in Nat /\ q.entry \in 0 .. Len(l) /\ r.entry \in 0 .. r.view
  BY DEF Entered, Goes, Extends
<1>2. AttemptIn(m, q.entry) = AttemptIn(l, q.entry)
  BY <1>1, StatesStay
<1>3. q.entry < Len(l) =>
        /\ q.entry < Len(m)
        /\ AttemptIn(m, q.entry + 1) = AttemptIn(l, q.entry + 1)
  <2>1. SUFFICES ASSUME q.entry < Len(l)
                 PROVE  /\ q.entry < Len(m) /\ q.entry + 1 \in 0 .. Len(l)
    BY StatesStay
  <2>2. QED
    BY <1>1, <2>1 DEF Extends
<1>4. r.processor # "none" => r.entry < r.view
  BY <1>1 DEF Entered, Goes
<1>5. QED
  BY <1>1, <1>2, <1>3, <1>4 DEF Entered, Goes

LEMMA RunKept ==
  ASSUME RunInv, LifecycleInv, NEW h \in Runner
  PROVE  /\ Runs(h, handle[h], log) /\ Posture(handle[h]) /\ Entered(h, handle[h], log)
         /\ Told(h, handle[h], log)
         /\ handle[h].view \in 0 .. Len(log) /\ Len(log) = Tip /\ Tip \in Nat
         /\ handle[h].entry \in 0 .. handle[h].view
         /\ DOMAIN handle[h] = DOMAIN NewHandle
BY Shape DEF RunInv, Runs, Tip, Entered

\* What is not heard of a longer stream goes on holding of it.
LEMMA RunsLater ==
  ASSUME LifecycleInv, RunInv, Extends(log, log'), NEW g \in Runner
  PROVE  Runs(g, handle[g], log')
<1> DEFINE q == handle[g]
<1>1. /\ Posture(q) /\ Entered(g, q, log) /\ Told(g, q, log)
      /\ q.view \in 0 .. Len(log) /\ q.entry \in Nat
  BY RunKept
<1>2. q.view \in q.view .. Len(log') /\ Goes(q, q)
  BY <1>1 DEF Extends, Goes
<1> HIDE DEF q
<1>3. Entered(g, q, log') /\ Told(g, q, log')
  BY <1>1, <1>2, EnteredLater, ToldLater
<1>4. QED
  BY <1>1, <1>3 DEF Runs, q

\* A step of one handle; the stream may grow.
LEMMA RunStep ==
  ASSUME LifecycleInv, RunInv, Extends(log, log'), NEW h \in Runner, NEW r, Update(h, r),
         Runs(h, r, log')
  PROVE  RunInv'
BY RunsLater DEF RunInv, LifecycleInv, Update

LEMMA RunIdle ==
  ASSUME LifecycleInv, RunInv, Extends(log, log'), UNCHANGED handle
  PROVE  RunInv'
BY RunsLater DEF RunInv

\* Nothing of the run but its processor's end: it tells the same.
LEMMA TaleStep ==
  ASSUME LifecycleInv, RunInv, Extends(log, log'), NEW h \in Runner, NEW r, Update(h, r),
         Goes(handle[h], r), r.view \in handle[h].view .. Len(log'), Posture(r),
         r.stopped = handle[h].stopped, r.failure = handle[h].failure,
         r.result = handle[h].result
  PROVE  RunInv'
<1> DEFINE q == handle[h]
<1>1. /\ Entered(h, q, log) /\ Told(h, q, log)
      /\ q.view \in 0 .. Len(log) /\ q.entry \in Nat
  BY RunKept
<1>2. Entered(h, r, log')
  BY <1>1, EnteredLater
<1>3. Told(h, r, log')
  BY <1>1, ToldLater DEF Goes
<1>4. QED
  BY <1>2, <1>3, RunStep DEF Runs

\* A command of the handle, which leaves the run alone.
SameRun(q, r) ==
  /\ r.entry = q.entry /\ r.runAttempt = q.runAttempt /\ r.slot = q.slot
  /\ r.stopped = q.stopped /\ r.failure = q.failure /\ r.result = q.result
  /\ r.processor = q.processor /\ r.reconciling = q.reconciling /\ r.stage = q.stage

LEMMA CommandStep ==
  ASSUME LifecycleInv, RunInv, Extends(log, log'), NEW h \in Runner, NEW r, Update(h, r),
         SameRun(handle[h], r), r.view \in handle[h].view .. Len(log'),
         handle[h].cmd.op \notin {"claim", "observe"}, r.cmd.op \notin {"claim", "observe"},
         r.cmd.op \in Driven => handle[h].processor # "none",
         r.cmd.op \in Ending => r.cmd.evs[1].type \in {"RolledBack", "Abandoned"}
  PROVE  RunInv'
<1>1. Posture(handle[h])
  BY RunKept
<1>2. Posture(r) /\ Goes(handle[h], r)
  BY <1>1 DEF Posture, Goes, SameRun
<1>3. QED
  BY <1>2, TaleStep DEF SameRun

-----------------------------------------------------------------------------
(* Commands, and the steps of a run that tell nothing new.                  *)

LEMMA Unrecorded ==
  ASSUME LifecycleInv, UNCHANGED log
  PROVE  Extends(log, log') /\ Len(log') = Tip /\ Tip \in Nat /\ Tip = Len(log)
BY DEF LifecycleInv, LogOK, Extends, Tip

\* The command in hand is changed, and perhaps the view.
LEMMA AskStep ==
  ASSUME LifecycleInv, RunInv, UNCHANGED log, NEW h \in Runner, NEW r, Update(h, r),
         SameRun(handle[h], r), r.view \in {handle[h].view, Tip},
         handle[h].cmd.op \notin {"claim", "observe"}, r.cmd.op \notin {"claim", "observe"},
         r.cmd.op \in Driven => handle[h].processor # "none",
         r.cmd.op \in Ending => r.cmd.evs[1].type \in {"RolledBack", "Abandoned"}
  PROVE  RunInv'
<1>1. handle[h].view \in 0 .. Tip
  BY RunKept
<1>2. r.view \in handle[h].view .. Len(log')
  BY <1>1, Unrecorded
<1>3. QED
  BY <1>2, Unrecorded, CommandStep

LEMMA RefoldAsks ==
  ASSUME LifecycleInv, RunInv, UNCHANGED log, NEW h \in Runner, NEW c,
         Update(h, [handle[h] EXCEPT !.view = Tip, !.cmd = c]),
         handle[h].cmd.op \notin {"claim", "observe"}, c.op \notin {"claim", "observe"} \cup Driven,
         c.op \in Ending => c.evs[1].type \in {"RolledBack", "Abandoned"}
  PROVE  RunInv'
<1>1. PICK r : r = [handle[h] EXCEPT !.view = Tip, !.cmd = c] /\ Update(h, r)
  OBVIOUS
<1>2. SameRun(handle[h], r) /\ r.view = Tip /\ r.cmd = c
  BY <1>1, RunKept DEF SameRun, NewHandle
<1>3. QED
  BY <1>1, <1>2, AskStep

LEMMA CommandAsks ==
  ASSUME LifecycleInv, RunInv, UNCHANGED log, NEW h \in Runner, NEW c,
         Update(h, [handle[h] EXCEPT !.cmd = c]),
         handle[h].cmd.op \notin {"claim", "observe"}, c.op \notin {"claim", "observe"} \cup Ending,
         c.op \in Driven => handle[h].processor # "none"
  PROVE  RunInv'
<1>1. PICK r : r = [handle[h] EXCEPT !.cmd = c] /\ Update(h, r)
  OBVIOUS
<1>2. SameRun(handle[h], r) /\ r.view = handle[h].view /\ r.cmd = c
  BY <1>1, RunKept DEF SameRun, NewHandle
<1>3. QED
  BY <1>1, <1>2, AskStep

LEMMA LoadTells ==
  ASSUME LifecycleInv, RunInv, NEW h \in Runner,
         BeginLoad(h) \/ (\E W \in SUBSET Witness : PolicyLoad(h, W)) \/ Resume(h)
  PROVE  RunInv'
<1>1. UNCHANGED log /\ handle[h].cmd = NoCommand
  BY Zenon DEF BeginLoad, PolicyLoad, Resume, Unlocked
<1>2. handle[h].cmd.op \notin {"claim", "observe"}
  BY <1>1 DEF NoCommand
<1>3. CASE BeginLoad(h)
  <2>1. PICK c : c.op = "begin" /\ Update(h, [handle[h] EXCEPT !.view = Tip, !.cmd = c])
    BY <1>3, Zenon DEF BeginLoad, Pending
  <2>2. QED
    BY <1>1, <1>2, <2>1, RefoldAsks, Zenon DEF Ending, Driven
<1>4. CASE \E W \in SUBSET Witness : PolicyLoad(h, W)
  <2>1. PICK c : c.op = "policy" /\ Update(h, [handle[h] EXCEPT !.view = Tip, !.cmd = c])
    BY <1>4, Zenon DEF PolicyLoad, Pending
  <2>2. QED
    BY <1>1, <1>2, <2>1, RefoldAsks, Zenon DEF Ending, Driven
<1>5. CASE Resume(h)
  <2>1. PICK r : r = [handle[h] EXCEPT !.alive = "open", !.view = Tip] /\ Update(h, r)
    BY <1>5 DEF Resume
  <2>2. SameRun(handle[h], r) /\ r.view = Tip /\ r.cmd = NoCommand
    BY <1>1, <2>1, RunKept DEF SameRun, NewHandle
  <2>3. NoCommand.op \notin {"claim", "observe"} \cup Ending \cup Driven
    BY DEF NoCommand, Ending, Driven
  <2>4. QED
    BY <1>1, <1>2, <2>1, <2>2, <2>3, AskStep
<1>6. QED
  BY <1>3, <1>4, <1>5

LEMMA EndTells ==
  ASSUME LifecycleInv, RunInv, NEW h \in Runner, Rollback(h) \/ Abandon(h)
  PROVE  RunInv'
<1>1. UNCHANGED log /\ handle[h].cmd = NoCommand
  BY DEF Rollback, Abandon, Refolds, Open, Unlocked
<1>2. PICK c : /\ Update(h, [handle[h] EXCEPT !.view = Tip, !.cmd = c])
               /\ \/ c = NoCommand
                  \/ \E x, y, z : c = Pending("rollback", <<RolledBack(x, y, z)>>)
                  \/ c = Pending("abandon", <<Abandoned>>)
  BY Zenon DEF Rollback, Abandon
<1>3. /\ handle[h].cmd.op \notin {"claim", "observe"} /\ c.op \notin {"claim", "observe"} \cup Driven
      /\ c.op \in Ending => c.evs[1].type \in {"RolledBack", "Abandoned"}
  BY <1>1, <1>2 DEF NoCommand, Pending, RolledBack, Abandoned, Ending, Driven
<1>4. QED
  BY <1>1, <1>2, <1>3, RefoldAsks, Zenon

LEMMA RetireTells ==
  ASSUME LifecycleInv, RunInv, NEW h \in Runner,
         (\E override \in BOOLEAN : Retire(h, override)) \/ Reattest(h)
  PROVE  RunInv'
<1>1. UNCHANGED log /\ handle[h].cmd.op \in {"none", "reattest"}
  <2>1. NoCommand.op = "none"
    BY DEF NoCommand
  <2>2. QED
    BY <2>1, Zenon DEF Retire, Refolds, Open, Unlocked, Reattest
<1>2. \/ AbortRetire(h)
      \/ \E c : /\ Update(h, [handle[h] EXCEPT !.view = Tip, !.cmd = c])
                /\ c.op \in {"none", "complete", "preflight", "recheck"}
  <2> DEFINE s == StateAt(Tip)
             going(override) ==
               [op   |-> IF s.attempt.previous = 0 THEN "complete" ELSE "preflight",
                evs  |-> <<RetireEvent(s, override)>>,
                todo |-> IF s.attempt.previous = 0 THEN {}
                         ELSE RequiredWitnesses(s, override)]
             again == [op |-> "recheck", evs |-> <<RetireEvent(s, FALSE)>>,
                       todo |-> s.attempt.retiringWitnesses]
             asks(c) == Update(h, [handle[h] EXCEPT !.view = Tip, !.cmd = c])
  <2>1. \A override : going(override).op \in {"complete", "preflight"}
    OBVIOUS
  <2>2. again.op = "recheck" /\ NoCommand.op = "none"
    BY DEF NoCommand
  <2>3. CASE \E override \in BOOLEAN : Retire(h, override)
    <3>1. PICK override, refused : asks(IF refused THEN NoCommand ELSE going(override))
      BY <2>3, Zenon DEF Retire
    <3>2. asks(NoCommand) \/ asks(going(override))
      BY <3>1
    <3> HIDE DEF going
    <3>3. QED
      BY <2>1, <2>2, <3>2
  <2>4. CASE Reattest(h) /\ ~AbortRetire(h)
    <3>1. PICK through : asks(IF through THEN again ELSE NoCommand)
      BY <2>4, Zenon DEF Reattest
    <3>2. asks(NoCommand) \/ asks(again)
      BY <3>1
    <3> HIDE DEF again
    <3>3. QED
      BY <2>2, <3>2, Zenon
  <2>5. QED
    BY <2>3, <2>4, Zenon
<1>3. CASE AbortRetire(h)
  <2>1. PICK c : c = NoCommand /\ Update(h, [handle[h] EXCEPT !.cmd = c])
    BY <1>3 DEF AbortRetire
  <2>2. QED
    BY <1>1, <2>1, CommandAsks DEF NoCommand, Ending, Driven
<1>4. CASE ~AbortRetire(h)
  <2>1. PICK c : /\ Update(h, [handle[h] EXCEPT !.view = Tip, !.cmd = c])
                 /\ c.op \in {"none", "complete", "preflight", "recheck"}
    BY <1>2, <1>4, Zenon
  <2>2. QED
    BY <1>1, <2>1, RefoldAsks, Zenon DEF Ending, Driven
<1>5. QED
  BY <1>3, <1>4

LEMMA DestructionTells ==
  ASSUME LifecycleInv, RunInv, NEW h \in Runner,
         (\E w \in Witness : Attest(h, w)) \/ Attested(h) \/ Teardown(h) \/ DropCheckpoint(h)
  PROVE  RunInv'
<1>1. UNCHANGED log /\ handle[h].cmd.op \in RetireOps
  BY DEF Attest, Attested, Teardown, DropCheckpoint, RetireOps
<1>2. PICK c : /\ Update(h, [handle[h] EXCEPT !.cmd = c])
               /\ c.op \in RetireOps \cup {"none", "reserve", "complete"}
  <2> DEFINE d == handle[h].cmd
  <2>1. DOMAIN d = {"op", "evs", "todo"} /\ DOMAIN handle[h] = DOMAIN NewHandle
    BY Shape DEF IsCommand
  <2>2. CASE AbortRetire(h)
    <3>1. NoCommand.op = "none"
      BY DEF NoCommand
    <3>2. QED
      BY <2>2, <3>1 DEF AbortRetire
  <2>3. CASE \E w : Update(h, [handle[h] EXCEPT !.cmd.todo = @ \ {w}])
    <3>1. PICK w : Update(h, [handle[h] EXCEPT !.cmd.todo = @ \ {w}])
      BY <2>3
    <3>2. PICK c : c = [d EXCEPT !.todo = @ \ {w}]
      OBVIOUS
    <3>3. Update(h, [handle[h] EXCEPT !.cmd = c]) /\ c.op = d.op
      BY <2>1, <3>1, <3>2 DEF NewHandle
    <3>4. QED
      BY <1>1, <3>3
  <2>4. CASE \E x \in {"reserve", "teardown", "drop", "complete"} :
               Update(h, [handle[h] EXCEPT !.cmd.op = x])
    <3>1. PICK x \in {"reserve", "teardown", "drop", "complete"} :
            Update(h, [handle[h] EXCEPT !.cmd.op = x])
      BY <2>4
    <3>2. PICK c : c = [d EXCEPT !.op = x]
      OBVIOUS
    <3>3. Update(h, [handle[h] EXCEPT !.cmd = c]) /\ c.op = x
      BY <2>1, <3>1, <3>2 DEF NewHandle
    <3>4. QED
      BY <3>1, <3>3 DEF RetireOps
  <2>5. QED
    BY <2>2, <2>3, <2>4 DEF Attest, Attested, Teardown, DropCheckpoint
<1>3. QED
  BY <1>1, <1>2, CommandAsks DEF RetireOps, Ending, Driven

\* A step of the run that leaves its view alone and tells the same.
LEMMA StageStep ==
  ASSUME LifecycleInv, RunInv, UNCHANGED log, NEW h \in Runner, NEW r, Update(h, r),
         r.entry = handle[h].entry, r.runAttempt = handle[h].runAttempt,
         r.view = handle[h].view, Posture(r),
         r.cmd = handle[h].cmd \/ r.cmd.op \notin {"claim", "observe"},
         r.processor # "none" => handle[h].processor # "none",
         r.stopped = handle[h].stopped, r.failure = handle[h].failure,
         r.result = handle[h].result
  PROVE  RunInv'
<1>1. handle[h].view \in 0 .. Tip
  BY RunKept
<1>2. r.view \in handle[h].view .. Len(log') /\ Goes(handle[h], r)
  BY <1>1, Unrecorded DEF Goes
<1>3. QED
  BY <1>2, Unrecorded, TaleStep

LEMMA ProcessorTells ==
  ASSUME LifecycleInv, RunInv, NEW h \in Runner,
         ProcessorReturn(h) \/ PublishProcessorExit(h) \/ CancelRun(h) \/ ReconcileExit(h)
           \/ Drained(h)
  PROVE  RunInv'
<1> DEFINE q == handle[h]
<1>1. Posture(q) /\ DOMAIN q = DOMAIN NewHandle
  BY RunKept
<1>2. UNCHANGED log
  BY DEF ProcessorReturn, PublishProcessorExit, CancelRun, ReconcileExit, Drained
<1>3. CASE ProcessorReturn(h)
  <2>1. PICK r : r = [q EXCEPT !.processor = "returned"] /\ Update(h, r)
    BY <1>3 DEF ProcessorReturn
  <2>2. q.processor = "running"
    BY <1>3 DEF ProcessorReturn
  <2>3. QED
    BY <1>1, <1>2, <2>1, <2>2, StageStep DEF NewHandle, Posture
<1>4. CASE PublishProcessorExit(h)
  <2>1. PICK r : /\ r = [q EXCEPT !.processor = "exited", !.certificate = NoCertificate]
                 /\ Update(h, r)
    BY <1>4 DEF PublishProcessorExit
  <2>2. q.processor = "returned"
    BY <1>4 DEF PublishProcessorExit
  <2>3. QED
    BY <1>1, <1>2, <2>1, <2>2, StageStep DEF NewHandle, Posture
<1>5. CASE CancelRun(h)
  <2>1. PICK r : r = [q EXCEPT !.ctxDone = TRUE, !.cancel = TRUE] /\ Update(h, r)
    BY <1>5 DEF CancelRun
  <2>2. QED
    BY <1>1, <1>2, <2>1, StageStep DEF NewHandle, Posture
<1>6. CASE ReconcileExit(h)
  <2>1. PICK r : r = [q EXCEPT !.reconciling = FALSE] /\ Update(h, r)
    BY <1>6 DEF ReconcileExit
  <2>2. QED
    BY <1>1, <1>2, <2>1, StageStep DEF NewHandle, Posture
<1>7. CASE Drained(h)
  <2>1. PICK r : r = [q EXCEPT !.stage = "closing", !.cancel = TRUE] /\ Update(h, r)
    BY <1>7 DEF Drained
  <2>2. q.processor = "exited" /\ q.stage \in {"catchup", "tailing"}
    BY <1>7 DEF Drained, Joined
  <2>3. QED
    BY <1>1, <1>2, <2>1, <2>2, StageStep DEF NewHandle, Posture, Unstarted, Engaged
<1>8. QED
  BY <1>3, <1>4, <1>5, <1>6, <1>7

\* A promotion refused, or asked for.
LEMMA RefusalTells ==
  ASSUME LifecycleInv, RunInv, NEW h \in Runner
  PROVE  LET q == handle[h]
             r == PromotionRefused(h)
         IN  SameRun(q, r) /\ r.cmd = q.cmd /\ r.view = q.view /\ DOMAIN r = DOMAIN NewHandle
BY RunKept DEF PromotionRefused, SameRun, NewHandle

LEMMA PromotionTells ==
  ASSUME LifecycleInv, RunInv, NEW h \in Runner,
         Promote(h) \/ PromoteAfterCatchUp(h) \/ ResolveRetry(h)
  PROVE  RunInv'
<1> DEFINE q == handle[h]
           p == PromotionRefused(h)
<1>1. /\ Posture(q) /\ DOMAIN q = DOMAIN NewHandle
      /\ SameRun(q, p) /\ p.cmd = q.cmd /\ p.view = q.view /\ DOMAIN p = DOMAIN NewHandle
  BY RunKept, RefusalTells
<1>2. UNCHANGED log /\ q.cmd = NoCommand /\ NoCommand.op = "none"
  BY DEF Promote, PromoteAfterCatchUp, ResolveRetry, Open, Unlocked, NoCommand
<1> HIDE DEF p
<1>3. CASE Update(h, p)
  BY <1>1, <1>2, <1>3, AskStep DEF Ending, Driven
<1>4. ASSUME NEW c, Update(h, [q EXCEPT !.cmd = c]), c.op \in PromoteOps,
             c.op # "promote" => q.stage \in {"promoting", "resolving"}
      PROVE  RunInv'
  <2>1. c.op \in Driven => q.processor # "none"
    BY <1>1, <1>4 DEF Driven, Posture, Engaged
  <2>2. QED
    BY <1>2, <1>4, <2>1, CommandAsks DEF PromoteOps, Ending
<1>5. CASE /\ q.stage = "promoting"
           /\ Update(h, [p EXCEPT !.stage = "winding", !.cancel = TRUE])
  <2>1. PICK r : r = [p EXCEPT !.stage = "winding", !.cancel = TRUE] /\ Update(h, r)
    BY <1>5
  <2>2. /\ r.entry = q.entry /\ r.runAttempt = q.runAttempt /\ r.view = q.view
        /\ r.cmd = q.cmd /\ r.processor = q.processor /\ r.stopped = q.stopped
        /\ r.failure = q.failure /\ r.result = q.result /\ r.slot = q.slot
        /\ r.stage = "winding" /\ r.reconciling = q.reconciling
    BY <1>1, <2>1 DEF SameRun, NewHandle
  <2>3. Posture(r)
    BY <1>1, <1>5, <2>2 DEF Posture, Unstarted, Engaged
  <2>4. QED
    BY <1>2, <2>1, <2>2, <2>3, StageStep
<1>6. QED
  <2>1. CASE Promote(h)
    <3>1. PICK c : c = Pending("promote", <<Promotion(h)>>)
      OBVIOUS
    <3>2. c.op = "promote" /\ c.op \in PromoteOps
      BY <3>1 DEF Pending, PromoteOps
    <3>3. Update(h, [q EXCEPT !.cmd = c]) \/ Update(h, p)
      BY <2>1, <3>1 DEF Promote, p
    <3>4. QED
      BY <1>3, <1>4, <3>2, <3>3
  <2>2. CASE PromoteAfterCatchUp(h)
    <3>1. PICK c : c = Pending("autopromote", <<Promotion(h)>>)
      OBVIOUS
    <3>2. c.op \in PromoteOps /\ q.stage = "promoting"
      BY <2>2, <3>1 DEF Pending, PromoteOps, PromoteAfterCatchUp
    <3>3. \/ Update(h, [q EXCEPT !.cmd = c])
          \/ Update(h, [p EXCEPT !.stage = "winding", !.cancel = TRUE])
      BY <2>2, <3>1 DEF PromoteAfterCatchUp, p
    <3>4. QED
      BY <1>4, <1>5, <3>2, <3>3
  <2>3. CASE ResolveRetry(h)
    <3>1. PICK c : c = Pending("retry", <<Promotion(h)>>)
      OBVIOUS
    <3>2. c.op \in PromoteOps /\ q.stage = "resolving"
      BY <2>3, <3>1 DEF Pending, PromoteOps, ResolveRetry
    <3>3. Update(h, [q EXCEPT !.cmd = c]) \/ Update(h, p)
      BY <2>3, <3>1 DEF ResolveRetry, p
    <3>4. QED
      BY <1>3, <1>4, <3>2, <3>3
  <2>4. QED
    BY <2>1, <2>2, <2>3

LEMMA ReleaseTells ==
  ASSUME LifecycleInv, RunInv, NEW h \in Runner, ReleaseClaim(h)
  PROVE  RunInv'
<1> DEFINE q == handle[h]
<1>1. Posture(q) /\ DOMAIN q = DOMAIN NewHandle
  BY RunKept
<1>2. UNCHANGED log /\ q.cmd = NoCommand /\ NoCommand.op = "none" /\ q.stage = "releasing"
  BY DEF ReleaseClaim, Unlocked, NoCommand
<1>3. CASE \E e : Update(h, [q EXCEPT !.cmd = Pending("release", e)])
  <2>1. PICK e, c : c = Pending("release", e) /\ Update(h, [q EXCEPT !.cmd = c])
    BY <1>3
  <2>2. c.op = "release"
    BY <2>1 DEF Pending
  <2>3. QED
    BY <1>2, <2>1, <2>2, CommandAsks DEF Ending, Driven
<1>4. CASE Update(h, [q EXCEPT !.stage = "done"])
  <2>1. PICK r : r = [q EXCEPT !.stage = "done"] /\ Update(h, r)
    BY <1>4
  <2>2. Posture(r)
    BY <1>1, <1>2, <2>1 DEF NewHandle, Posture, Unstarted, Engaged
  <2>3. QED
    BY <1>1, <1>2, <2>1, <2>2, StageStep DEF NewHandle
<1>5. QED
  BY <1>3, <1>4 DEF ReleaseClaim

LEMMA ResolveHaltTells ==
  ASSUME LifecycleInv, RunInv, NEW h \in Runner, ResolveHalt(h)
  PROVE  RunInv'
<1> DEFINE q == handle[h]
<1>1. Posture(q) /\ DOMAIN q = DOMAIN NewHandle
  BY RunKept
<1>2. PICK slot, r : /\ slot = 0 \/ slot = q.slot
                     /\ r = [q EXCEPT !.stage = "winding", !.cancel = TRUE, !.slot = slot]
                     /\ Update(h, r)
  BY Zenon DEF ResolveHalt, Winding
<1>3. UNCHANGED log /\ q.stage = "resolving"
  BY DEF ResolveHalt
<1>4. Posture(r)
  BY <1>1, <1>2, <1>3 DEF NewHandle, Posture, Unstarted, Engaged
<1>5. QED
  BY <1>1, <1>2, <1>3, <1>4, StageStep DEF NewHandle

-----------------------------------------------------------------------------
(* Verdicts.                                                                *)

\* Whoever holds the attempt of a run after the run's claim has claimed it since.
LEMMA RivalShows ==
  ASSUME NEW l, Len(l) \in Nat, Folded(l), NEW h, NEW q, Entered(h, q, l),
         q.entry \in Nat, q.processor # "none" \/ q.cmd.op = "observe",
         NEW v \in q.entry + 1 .. Len(l),
         AttemptIn(l, v).id = q.runAttempt, AttemptIn(l, v).runner # h
  PROVE  RivalIn(l, q.entry, q.runAttempt, h)
<1> DEFINE i == q.entry + 1
<1>1. /\ q.runAttempt # 0 /\ AttemptIn(l, i).id = q.runAttempt
      /\ AttemptIn(l, i).runner = h
  BY DEF Entered
<1>2. i \in 0 .. Len(l) /\ v \in i .. Len(l)
  OBVIOUS
<1> HIDE DEF i
<1>3. PICK k \in i + 1 .. v : ClaimedAt(l, k, AttemptIn(l, v).runner, AttemptIn(l, v).id)
  BY <1>1, <1>2, ClaimBetween
<1>4. k \in q.entry + 1 .. Len(l)
  BY <1>2 DEF i
<1>5. QED
  BY <1>3, <1>4 DEF RivalIn, ClaimedAt

\* What a fold of the stream after the entry says of the run's attempt.
LEMMA FoldTells ==
  ASSUME LifecycleInv, StreamInv, RunInv, NEW h \in Runner,
         NEW v \in handle[h].entry .. Tip
  PROVE  LET q == handle[h]
         IN  /\ Ended(h, StateAt(v)) => EndedIn(log, q.entry, q.runAttempt)
             /\ /\ Displaced(h, StateAt(v)) /\ v # q.entry
                /\ q.processor # "none" \/ q.cmd.op = "observe"
                => RivalIn(log, q.entry, q.runAttempt, h)
             /\ q.processor # "none" \/ q.cmd.op \in {"observe", "claim"} =>
                  q.runAttempt # 0
<1> DEFINE q == handle[h]
<1>1. /\ Entered(h, q, log) /\ Len(log) = Tip /\ Tip \in Nat /\ Folded(log)
      /\ q.entry \in Nat
  BY RunKept DEF StreamInv
<1>2. StateAt(v).attempt = AttemptIn(log, v)
  BY DEF StateAt, AttemptIn, StateIn
<1>3. Ended(h, StateAt(v)) => EndedIn(log, q.entry, q.runAttempt)
  BY <1>1, <1>2 DEF Ended, EndedIn
<1>4. ASSUME Displaced(h, StateAt(v)), v # q.entry,
             q.processor # "none" \/ q.cmd.op = "observe"
      PROVE  RivalIn(log, q.entry, q.runAttempt, h)
  <2>1. AttemptIn(log, v).id = q.runAttempt /\ AttemptIn(log, v).runner # h
    BY <1>2, <1>4 DEF Displaced, Ended
  <2>2. v \in q.entry + 1 .. Len(log) /\ Len(log) \in Nat
    BY <1>1, <1>4
  <2> HIDE DEF q
  <2>3. QED
    BY <1>1, <1>4, <2>1, <2>2, RivalShows
<1>5. q.processor # "none" \/ q.cmd.op \in {"observe", "claim"} => q.runAttempt # 0
  BY <1>1 DEF Entered
<1>6. QED
  BY <1>3, <1>4, <1>5

\* What may change of a run's verdict, given what the stream shows.
NewTale(h, q, r, l) ==
  LET ended == q.runAttempt # 0 /\ EndedIn(l, q.entry, q.runAttempt)
      clean == q.stopped /\ q.failure = "none"
      rival == RivalIn(l, q.entry, q.runAttempt, h)
  IN  /\ r.failure = "nil" => q.failure = "nil"
      /\ r.stopped /\ r.failure = "none" => clean \/ ended
      /\ r.failure = "displaced" => q.failure = "displaced" \/ rival
      /\ r.result = "nil" => q.result = "nil" \/ clean \/ ended
      /\ r.result = "displaced" => "displaced" \in {q.result, q.failure} \/ rival

LEMMA VerdictStep ==
  ASSUME LifecycleInv, RunInv, UNCHANGED log, NEW h \in Runner, NEW r, Update(h, r),
         Goes(handle[h], r), Posture(r), r.view \in handle[h].view .. Tip,
         NewTale(h, handle[h], r, log)
  PROVE  RunInv'
<1> DEFINE q == handle[h]
<1>1. /\ Entered(h, q, log) /\ Told(h, q, log)
      /\ q.view \in 0 .. Len(log) /\ Len(log) = Tip
  BY RunKept
<1>2. Extends(log, log') /\ r.view \in q.view .. Len(log')
  BY <1>1, Unrecorded
<1>3. Entered(h, r, log')
  BY <1>1, <1>2, EnteredLater
<1>4. Told(h, r, log)
  BY <1>1 DEF Told, NewTale, Goes
<1>5. QED
  BY <1>2, <1>3, <1>4, RunStep DEF Runs

\* A record whose run tells the same, whatever becomes of its other marks.
LEMMA SameTale ==
  ASSUME NEW h, NEW q, NEW r, NEW l, r.stopped = q.stopped, r.failure = q.failure,
         r.result = q.result
  PROVE  NewTale(h, q, r, l)
BY DEF NewTale

LEMMA ReconcileTells ==
  ASSUME LifecycleInv, StreamInv, RunInv, NEW h \in Runner, NEW v \in 0 .. Tip,
         Reconcile(h, v)
  PROVE  RunInv'
<1> DEFINE q == handle[h]
           s == StateAt(v)
           over == Superseded(h, s)
<1>1. /\ Posture(q) /\ Entered(h, q, log) /\ DOMAIN q = DOMAIN NewHandle
      /\ q.view \in 0 .. Tip /\ Tip \in Nat
  BY RunKept
<1>2. UNCHANGED log /\ q.reconciling /\ ~q.stopped /\ v \in q.view .. Tip /\ q.cmd = NoCommand
  BY DEF Reconcile, Unlocked
<1>3. q.processor # "none" /\ q.stage \notin Unstarted /\ q.cmd.op = "none"
  BY <1>1, <1>2 DEF Posture, NoCommand
<1>4. v \in q.entry .. Tip /\ v # q.entry
  BY <1>1, <1>2, <1>3 DEF Entered
<1>5. /\ q.runAttempt # 0
      /\ Ended(h, s) => EndedIn(log, q.entry, q.runAttempt)
      /\ Displaced(h, s) => RivalIn(log, q.entry, q.runAttempt, h)
  BY <1>3, <1>4, FoldTells
<1>6. CASE Valid(s)
  <2>1. PICK f, c, k, b, r :
          /\ f = (IF Displaced(h, s) THEN "displaced" ELSE q.failure)
          /\ r = [q EXCEPT !.view = v, !.stopped = over, !.failure = f, !.certificate = c,
                           !.cancel = k, !.reconciling = b]
          /\ Update(h, r)
    BY <1>6, Zenon DEF Reconcile
  <2>2. /\ r.entry = q.entry /\ r.runAttempt = q.runAttempt /\ r.view = v /\ r.cmd = q.cmd
        /\ r.processor = q.processor /\ r.stopped = over /\ r.failure = f
        /\ r.result = q.result /\ r.slot = q.slot /\ r.stage = q.stage
    BY <1>1, <2>1 DEF NewHandle
  <2>3. Posture(r) /\ Goes(q, r)
    BY <1>1, <1>2, <1>3, <2>2 DEF Posture, Goes
  <2>4. over => Ended(h, s) \/ Displaced(h, s)
    BY DEF Superseded
  <2>5. r.stopped <=> over
    BY <2>2
  <2> HIDE DEF over, s
  <2>6. NewTale(h, q, r, log)
    BY <1>5, <2>1, <2>2, <2>4, <2>5 DEF NewTale
  <2>7. QED
    BY <1>2, <2>1, <2>2, <2>3, <2>6, VerdictStep
<1>7. CASE ~Valid(s)
  <2>1. PICK r : /\ r = [[q EXCEPT !.stopped = TRUE, !.failure = "invalid",
                                   !.certificate = NoCertificate]
                           EXCEPT !.cancel = TRUE, !.reconciling = FALSE]
                 /\ Update(h, r)
    BY <1>2, <1>7 DEF Reconcile, TerminalStop
  <2>2. /\ r.entry = q.entry /\ r.runAttempt = q.runAttempt /\ r.view = q.view
        /\ r.cmd = q.cmd /\ r.processor = q.processor /\ r.failure = "invalid"
        /\ r.result = q.result /\ r.slot = q.slot /\ r.stage = q.stage
    BY <1>1, <2>1 DEF NewHandle
  <2>3. Posture(r) /\ Goes(q, r)
    BY <1>1, <1>2, <1>3, <2>2 DEF Posture, Goes
  <2>4. NewTale(h, q, r, log)
    BY <2>2 DEF NewTale
  <2>5. r.view \in q.view .. Tip
    BY <1>1, <2>2
  <2>6. QED
    BY <1>2, <2>1, <2>3, <2>4, <2>5, VerdictStep
<1>8. QED
  BY <1>6, <1>7

LEMMA ReconcileFailTells ==
  ASSUME LifecycleInv, RunInv, NEW h \in Runner, ReconcileFail(h)
  PROVE  RunInv'
<1> DEFINE q == handle[h]
<1>1. /\ Posture(q) /\ DOMAIN q = DOMAIN NewHandle /\ q.view \in 0 .. Tip /\ Tip \in Nat
  BY RunKept
<1>2. UNCHANGED log /\ q.reconciling /\ q.cmd = NoCommand
  BY DEF ReconcileFail, Unlocked
<1>3. q.processor # "none" /\ q.stage \notin Unstarted /\ q.cmd.op = "none"
  BY <1>1, <1>2 DEF Posture, NoCommand
<1>4. PICK p, r : /\ \/ q.stopped /\ p = q
                     \/ /\ ~q.stopped
                        /\ p = [q EXCEPT !.stopped = TRUE, !.failure = "reconcile",
                                         !.certificate = NoCertificate]
                  /\ r = [p EXCEPT !.cancel = TRUE, !.reconciling = FALSE]
                  /\ Update(h, r)
  BY Zenon DEF ReconcileFail, TerminalStop
<1>5. /\ p.entry = q.entry /\ p.runAttempt = q.runAttempt /\ p.view = q.view
      /\ p.cmd = q.cmd /\ p.processor = q.processor
      /\ p.result = q.result /\ p.slot = q.slot /\ p.stage = q.stage
      /\ p.failure = "reconcile" \/ (p.failure = q.failure /\ p.stopped = q.stopped)
      /\ DOMAIN p = DOMAIN NewHandle
  BY <1>1, <1>4 DEF NewHandle
<1>6. /\ r.entry = q.entry /\ r.runAttempt = q.runAttempt /\ r.view = q.view
      /\ r.cmd = q.cmd /\ r.processor = q.processor
      /\ r.result = q.result /\ r.slot = q.slot /\ r.stage = q.stage
      /\ r.failure = "reconcile" \/ (r.failure = q.failure /\ r.stopped = q.stopped)
  BY <1>4, <1>5 DEF NewHandle
<1>7. Posture(r) /\ Goes(q, r)
  BY <1>1, <1>2, <1>3, <1>6 DEF Posture, Goes
<1>8. NewTale(h, q, r, log)
  BY <1>6 DEF NewTale
<1>9. r.view \in q.view .. Tip
  BY <1>1, <1>6
<1>10. QED
  BY <1>2, <1>4, <1>7, <1>8, <1>9, VerdictStep

\* The verdict of a lost slot.
LEMMA DefeatTells ==
  ASSUME LifecycleInv, StreamInv, RunInv, NEW h \in Runner, NEW slot \in 1 .. Tip,
         slot > handle[h].entry, handle[h].processor # "none"
  PROVE  LET q == handle[h]
             p == SlotDefeat(h, slot)
         IN  /\ DOMAIN p = DOMAIN NewHandle
             /\ p.entry = q.entry /\ p.runAttempt = q.runAttempt /\ p.cmd = q.cmd
             /\ p.view \in q.view .. Tip /\ p.processor = q.processor
             /\ p.reconciling = q.reconciling /\ p.stage = q.stage /\ p.slot = q.slot
             /\ p.result = q.result
             /\ NewTale(h, q, p, log)
<1> DEFINE q == handle[h]
           s == StateAt(slot)
           p == SlotDefeat(h, slot)
           over == Superseded(h, s)
<1>1. /\ DOMAIN q = DOMAIN NewHandle /\ q.view \in 0 .. Tip /\ Tip \in Nat
      /\ q.entry \in 0 .. Tip
  BY RunKept
<1>2. /\ q.runAttempt # 0
      /\ Ended(h, s) => EndedIn(log, q.entry, q.runAttempt)
      /\ Displaced(h, s) => RivalIn(log, q.entry, q.runAttempt, h)
  BY <1>1, FoldTells
<1>3. CASE p = q
  BY <1>1, <1>3, SameTale
<1>4. CASE p = [q EXCEPT !.stopped = TRUE, !.failure = "invalid", !.certificate = NoCertificate]
  <2>1. PICK r : r = [q EXCEPT !.stopped = TRUE, !.failure = "invalid",
                               !.certificate = NoCertificate]
    OBVIOUS
  <2>2. NewTale(h, q, r, log)
    BY <1>1, <2>1 DEF NewTale, NewHandle
  <2>3. QED
    BY <1>1, <1>4, <2>1, <2>2 DEF NewHandle
<1>5. CASE \E f : /\ q.stopped
                  /\ f = (IF q.failure = "none" /\ Displaced(h, s)
                            THEN "displaced" ELSE q.failure)
                  /\ p = [q EXCEPT !.failure = f]
  <2>1. PICK f, r : /\ f = (IF q.failure = "none" /\ Displaced(h, s)
                              THEN "displaced" ELSE q.failure)
                    /\ r = [q EXCEPT !.failure = f] /\ r = p
    BY <1>5
  <2>2. /\ r.failure = f /\ r.result = q.result /\ r.stopped = q.stopped
    BY <1>1, <2>1 DEF NewHandle
  <2> HIDE DEF s
  <2>3. NewTale(h, q, r, log)
    BY <1>2, <2>1, <2>2 DEF NewTale
  <2> HIDE DEF p
  <2>4. QED
    BY <1>1, <2>1, <2>3 DEF NewHandle, p
<1>6. CASE \E c, v, f : /\ v = MaxOf(q.view, slot)
                        /\ f = (IF Displaced(h, s) THEN "displaced" ELSE q.failure)
                        /\ p = [q EXCEPT !.view = v, !.stopped = over, !.failure = f,
                                         !.certificate = c]
  <2>1. PICK c, v, f, r : /\ v = MaxOf(q.view, slot)
                          /\ f = (IF Displaced(h, s) THEN "displaced" ELSE q.failure)
                          /\ r = [q EXCEPT !.view = v, !.stopped = over, !.failure = f,
                                           !.certificate = c]
                          /\ r = p
    BY <1>6, Zenon
  <2>2. /\ r.failure = f /\ r.result = q.result /\ (r.stopped <=> over) /\ r.view = v
        /\ r.entry = q.entry /\ r.runAttempt = q.runAttempt /\ r.cmd = q.cmd
        /\ r.processor = q.processor /\ r.reconciling = q.reconciling
        /\ r.stage = q.stage /\ r.slot = q.slot /\ DOMAIN r = DOMAIN NewHandle
    BY <1>1, <2>1 DEF NewHandle
  <2>3. v \in q.view .. Tip
    BY <1>1, <2>1 DEF MaxOf
  <2>4. over => Ended(h, s) \/ Displaced(h, s)
    BY DEF Superseded
  <2> HIDE DEF s, over
  <2>5. NewTale(h, q, r, log)
    BY <1>2, <2>1, <2>2, <2>4 DEF NewTale
  <2> HIDE DEF p
  <2>6. QED
    BY <2>1, <2>2, <2>3, <2>5 DEF p
<1>7. QED
  BY <1>3, <1>4, <1>5, <1>6, Zenon DEF SlotDefeat, TerminalStop

LEMMA ResolveSlotTells ==
  ASSUME LifecycleInv, StreamInv, RunInv, NEW h \in Runner, ResolveSlot(h)
  PROVE  RunInv'
<1> DEFINE q == handle[h]
           slot == q.slot
<1>1. /\ Posture(q) /\ DOMAIN q = DOMAIN NewHandle /\ q.view \in 0 .. Tip /\ Tip \in Nat
      /\ slot \in Nat /\ q.entry \in 0 .. q.view
  BY RunKept, Shape
<1>2. UNCHANGED log /\ q.stage = "resolving" /\ Tip >= slot /\ q.cmd.op = "none"
  <2>1. NoCommand.op = "none"
    BY DEF NoCommand
  <2>2. QED
    BY <2>1, Zenon DEF ResolveSlot, Open, Unlocked
<1>3. slot \in 1 .. Tip /\ slot > q.entry /\ q.processor # "none"
  BY <1>1, <1>2 DEF Posture, Engaged
<1>4. CASE \E v \in (slot .. Tip) \cup {0} :
             Update(h, [q EXCEPT !.view = MaxOf(@, v), !.certificate = NoCertificate,
                                 !.stage = "tailing"])
  <2>1. PICK v \in (slot .. Tip) \cup {0} :
          Update(h, [q EXCEPT !.view = MaxOf(@, v), !.certificate = NoCertificate,
                              !.stage = "tailing"])
    BY <1>4, Zenon
  <2>2. PICK n, r : /\ n = MaxOf(q.view, v)
                    /\ r = [q EXCEPT !.view = n, !.certificate = NoCertificate,
                                     !.stage = "tailing"]
                    /\ Update(h, r)
    BY <2>1, Zenon
  <2>3. n \in q.view .. Tip
    BY <1>1, <1>3, <2>2 DEF MaxOf
  <2>4. /\ r.entry = q.entry /\ r.runAttempt = q.runAttempt /\ r.view = n
        /\ r.cmd = q.cmd /\ r.processor = q.processor /\ r.failure = q.failure
        /\ r.result = q.result /\ r.slot = q.slot /\ r.stage = "tailing"
        /\ r.stopped = q.stopped
    BY <1>1, <2>2 DEF NewHandle
  <2>5. Posture(r) /\ Goes(q, r) /\ NewTale(h, q, r, log)
    BY <1>1, <1>2, <1>3, <2>4, SameTale DEF Posture, Goes, Unstarted, Engaged
  <2>6. QED
    BY <1>2, <2>2, <2>3, <2>4, <2>5, VerdictStep
<1>5. CASE Update(h, Winding(SlotDefeat(h, slot), 0))
  <2>1. PICK p : p = SlotDefeat(h, slot)
    OBVIOUS
  <2>2. /\ DOMAIN p = DOMAIN NewHandle
        /\ p.entry = q.entry /\ p.runAttempt = q.runAttempt /\ p.cmd = q.cmd
        /\ p.view \in q.view .. Tip /\ p.processor = q.processor
        /\ p.reconciling = q.reconciling /\ p.result = q.result
        /\ NewTale(h, q, p, log)
    BY <1>3, <2>1, DefeatTells
  <2>3. PICK r : /\ r = [p EXCEPT !.stage = "winding", !.cancel = TRUE, !.slot = 0]
                 /\ Update(h, r)
    BY <1>5, <2>1 DEF Winding
  <2>4. /\ r.entry = p.entry /\ r.runAttempt = p.runAttempt /\ r.view = p.view
        /\ r.cmd = p.cmd /\ r.processor = p.processor /\ r.failure = p.failure
        /\ r.result = p.result /\ r.slot = 0 /\ r.stage = "winding"
        /\ r.stopped = p.stopped
    BY <2>2, <2>3 DEF NewHandle
  <2>5. Posture(r) /\ Goes(q, r)
    BY <1>2, <1>3, <2>2, <2>4 DEF Posture, Goes, Unstarted, Ending
  <2>6. NewTale(h, q, r, log)
    BY <2>2, <2>4 DEF NewTale
  <2>7. QED
    BY <1>2, <2>2, <2>3, <2>4, <2>5, <2>6, VerdictStep
<1>6. QED
  BY <1>4, <1>5, Zenon DEF ResolveSlot

LEMMA WoundTells ==
  ASSUME LifecycleInv, StreamInv, RunInv, NEW h \in Runner, Wound(h)
  PROVE  RunInv'
<1> DEFINE q == handle[h]
<1>1. /\ Posture(q) /\ DOMAIN q = DOMAIN NewHandle /\ q.view \in 0 .. Tip /\ Tip \in Nat
  BY RunKept
<1>2. UNCHANGED log /\ q.stage = "winding" /\ q.processor = "exited" /\ q.cmd.op = "none"
  BY DEF Wound, Open, Unlocked, NoCommand, Joined
<1>3. PICK p, r : /\ p = q \/ (q.slot \in 1 .. Tip /\ p = SlotDefeat(h, q.slot))
                  /\ r = [p EXCEPT !.stage = "closing"] /\ Update(h, r)
  BY DEF Wound
<1>4. /\ DOMAIN p = DOMAIN NewHandle
      /\ p.entry = q.entry /\ p.runAttempt = q.runAttempt /\ p.cmd = q.cmd
      /\ p.view \in q.view .. Tip /\ p.processor = q.processor /\ p.slot = q.slot
      /\ p.reconciling = q.reconciling /\ p.result = q.result
      /\ NewTale(h, q, p, log)
  <2>1. CASE p = q
    BY <1>1, <2>1, SameTale
  <2>2. CASE q.slot \in 1 .. Tip /\ p = SlotDefeat(h, q.slot)
    <3>1. q.slot > q.entry
      BY <1>1, <2>2 DEF Posture
    <3>2. QED
      BY <1>2, <2>2, <3>1, DefeatTells
  <2>3. QED
    BY <1>3, <2>1, <2>2
<1>5. /\ r.entry = p.entry /\ r.runAttempt = p.runAttempt /\ r.view = p.view
      /\ r.cmd = p.cmd /\ r.processor = p.processor /\ r.failure = p.failure
      /\ r.result = p.result /\ r.slot = p.slot /\ r.stage = "closing"
      /\ r.stopped = p.stopped
  BY <1>3, <1>4 DEF NewHandle
<1>6. Posture(r) /\ Goes(q, r)
  BY <1>1, <1>2, <1>4, <1>5 DEF Posture, Goes, Unstarted, Ending
<1>7. NewTale(h, q, r, log)
  BY <1>4, <1>5 DEF NewTale
<1>8. QED
  BY <1>2, <1>3, <1>4, <1>5, <1>6, <1>7, VerdictStep

LEMMA ClassifyTells ==
  ASSUME LifecycleInv, RunInv, NEW h \in Runner, ClassifyExit(h)
  PROVE  RunInv'
<1> DEFINE q == handle[h]
<1>0. q.failure # "nil"
  BY RunKept DEF Told
<1>1. /\ Posture(q) /\ DOMAIN q = DOMAIN NewHandle /\ q.view \in 0 .. Tip /\ Tip \in Nat
  BY RunKept
<1>2. /\ UNCHANGED log /\ q.stage = "closing" /\ ~q.reconciling
      /\ q.cmd = NoCommand /\ NoCommand.op = "none"
  BY DEF ClassifyExit, Unlocked, NoCommand
<1>3. PICK x, r : /\ x = ProcessorExit(q)
                  /\ r = [q EXCEPT !.stage = "releasing", !.certificate = NoCertificate,
                                   !.result = x]
                  /\ Update(h, r)
  BY Zenon DEF ClassifyExit
<1>4. /\ r.entry = q.entry /\ r.runAttempt = q.runAttempt /\ r.view = q.view
      /\ r.cmd = q.cmd /\ r.processor = q.processor /\ r.failure = q.failure
      /\ r.result = x /\ r.slot = q.slot /\ r.stage = "releasing"
      /\ r.stopped = q.stopped /\ r.reconciling = q.reconciling
  BY <1>1, <1>3 DEF NewHandle
<1>5. Posture(r) /\ Goes(q, r)
  BY <1>1, <1>2, <1>4 DEF Posture, Goes, Unstarted, Engaged
<1>6. NewTale(h, q, r, log)
  <2>1. /\ x = "nil" => q.result = "nil" \/ (q.stopped /\ q.failure = "none")
        /\ x = "displaced" => "displaced" \in {q.result, q.failure}
    <3>1. \/ x = q.result
          \/ q.failure # "none" /\ x = q.failure
          \/ q.failure = "none" /\ q.stopped /\ x = "nil"
          \/ x = "error"
      BY <1>3, Zenon DEF ProcessorExit
    <3>2. QED
      BY <1>0, <3>1
  <2>2. QED
    BY <1>4, <2>1 DEF NewTale
<1>7. r.view \in q.view .. Tip
  BY <1>1, <1>4
<1>8. QED
  BY <1>2, <1>3, <1>5, <1>6, <1>7, VerdictStep

LEMMA CatchUpTells ==
  ASSUME LifecycleInv, RunInv, NEW h \in Runner, NEW p \in Position, CatchUp(h, p)
  PROVE  RunInv'
<1> DEFINE q == handle[h]
<1>1. /\ Posture(q) /\ DOMAIN q = DOMAIN NewHandle /\ q.view \in 0 .. Tip /\ Tip \in Nat
      /\ q.failure # "nil"
  BY RunKept DEF Told
<1>2. /\ UNCHANGED log /\ q.stage = "catchup" /\ q.processor # "none"
      /\ q.cmd = NoCommand /\ NoCommand.op = "none"
  BY DEF CatchUp, Open, Unlocked, NoCommand
<1>3. CASE q.stopped
  <2>1. PICK x, r : /\ x = (IF q.failure = "none" THEN "nil" ELSE q.failure)
                    /\ r = [q EXCEPT !.stage = "tailing", !.result = x]
                    /\ Update(h, r)
    BY <1>3, Zenon DEF CatchUp, StoppedMeanwhile
  <2>2. /\ r.entry = q.entry /\ r.runAttempt = q.runAttempt /\ r.view = q.view
        /\ r.cmd = q.cmd /\ r.processor = q.processor /\ r.failure = q.failure
        /\ r.result = x /\ r.slot = q.slot /\ r.stage = "tailing"
        /\ r.stopped = q.stopped /\ r.reconciling = q.reconciling
    BY <1>1, <2>1 DEF NewHandle
  <2>3. Posture(r) /\ Goes(q, r)
    BY <1>1, <1>2, <2>2 DEF Posture, Goes, Unstarted
  <2>4. NewTale(h, q, r, log)
    BY <1>1, <1>3, <2>1, <2>2 DEF NewTale
  <2>5. r.view \in q.view .. Tip
    BY <1>1, <2>2
  <2>6. QED
    BY <1>2, <2>1, <2>3, <2>4, <2>5, VerdictStep
<1>4. CASE ~q.stopped
  <2>1. PICK c : c = Pending("catchup", <<CaughtUp(p)>>) /\ Update(h, [q EXCEPT !.cmd = c])
    BY <1>4 DEF CatchUp, StoppedMeanwhile
  <2>2. c.op = "catchup"
    BY <2>1 DEF Pending
  <2>3. QED
    BY <1>2, <2>1, <2>2, CommandAsks DEF Ending
<1>5. QED
  BY <1>3, <1>4

\* A run comes in at the tip, where the attempt it will claim stands.
LEMMA RunEnterTells ==
  ASSUME LifecycleInv, StreamInv, RunInv, NEW h \in Runner, NEW takeover,
         RunEnter(h, takeover)
  PROVE  RunInv'
<1> DEFINE q == handle[h]
           s == StateAt(Tip)
<1>1. /\ Posture(q) /\ DOMAIN q = DOMAIN NewHandle /\ q.view \in 0 .. Tip /\ Tip \in Nat
      /\ Entered(h, q, log) /\ Told(h, q, log) /\ q.entry \in 0 .. q.view /\ Len(log) = Tip
  BY RunKept
<1>2. /\ UNCHANGED log /\ q.stage = "idle" /\ q.cmd = NoCommand /\ NoCommand.op = "none"
  BY DEF RunEnter, Open, Unlocked, NoCommand
<1>3. /\ q.processor = "none" /\ ~q.stopped /\ q.failure = "none" /\ q.result = "none"
      /\ q.slot = 0 /\ q.runAttempt = 0 /\ ~q.reconciling
  BY <1>1, <1>2 DEF Posture, Unstarted
<1>4. Extends(log, log') /\ Len(log') = Tip
  BY Unrecorded, <1>2
<1>5. CASE RunRefused(s, takeover)
  <2>1. PICK r : /\ r = [q EXCEPT !.view = Tip, !.stage = "done", !.result = "error"]
                 /\ Update(h, r)
    BY <1>5 DEF RunEnter
  <2>2. /\ r.entry = q.entry /\ r.runAttempt = q.runAttempt /\ r.view = Tip
        /\ r.cmd = q.cmd /\ r.processor = q.processor /\ r.failure = q.failure
        /\ r.result = "error" /\ r.slot = q.slot /\ r.stage = "done"
        /\ r.stopped = q.stopped /\ r.reconciling = q.reconciling
    BY <1>1, <2>1 DEF NewHandle
  <2>3. Posture(r) /\ Goes(q, r)
    BY <1>2, <1>3, <2>2 DEF Posture, Goes, Unstarted, Engaged, Driven, Ending
  <2>4. NewTale(h, q, r, log)
    BY <2>2 DEF NewTale
  <2>5. r.view \in q.view .. Tip
    BY <1>1, <2>2
  <2>6. QED
    BY <1>2, <2>1, <2>3, <2>4, <2>5, VerdictStep
<1>6. CASE ~RunRefused(s, takeover)
  <2>1. PICK evs, c, r : /\ c = Pending("claim", evs)
                         /\ r = [q EXCEPT !.view = Tip, !.entry = Tip, !.stage = "claiming",
                                          !.runAttempt = s.attempt.id, !.cmd = c]
                         /\ Update(h, r)
    BY <1>6, Zenon DEF RunEnter
  <2>2. c.op = "claim"
    BY <2>1 DEF Pending
  <2>3. /\ r.entry = Tip /\ r.runAttempt = s.attempt.id /\ r.view = Tip
        /\ r.cmd = c /\ r.processor = "none" /\ r.failure = "none"
        /\ r.result = "none" /\ r.slot = 0 /\ r.stage = "claiming"
        /\ ~r.stopped /\ ~r.reconciling
    BY <1>1, <1>3, <2>1 DEF NewHandle
  <2>4. s.attempt.id # 0 /\ s.attempt = AttemptIn(log, Tip)
    <3>1. Sound(s) /\ s.attempt.phase # "none"
      BY <1>6, SoundView DEF RunRefused
    <3>2. QED
      BY <3>1, SoundAttempt, ViewIn DEF AttemptIn
  <2>5. Posture(r)
    BY <2>2, <2>3 DEF Posture, Unstarted, Engaged, Driven, Ending
  <2>6. Entered(h, r, log')
    BY <1>1, <1>2, <2>2, <2>3, <2>4 DEF Entered
  <2>7. Told(h, r, log')
    BY <2>3 DEF Told
  <2>8. QED
    BY <1>4, <2>1, <2>5, <2>6, <2>7, RunStep DEF Runs
<1>7. QED
  BY <1>5, <1>6

\* A handle that has not run tells nothing.
LEMMA Silent ==
  ASSUME NEW h, NEW r, NEW l, r.stage = "idle", r.runAttempt = 0, r.entry = 0,
         r.view \in Nat, r.cmd = NoCommand, r.processor = "none", ~r.stopped,
         r.failure = "none", r.result = "none", r.slot = 0, ~r.reconciling
  PROVE  Runs(h, r, l)
<1>1. r.cmd.op = "none"
  BY DEF NoCommand
<1>2. QED
  BY <1>1 DEF Runs, Posture, Entered, Told, Unstarted, Engaged, Driven, Ending

LEMMA NewTells ==
  ASSUME NEW h, NEW l, NEW x
  PROVE  Runs(h, NewHandle, l) /\ Runs(h, [NewHandle EXCEPT !.alive = x], l)
<1>1. Runs(h, NewHandle, l)
  <2>1. PICK r : r = NewHandle
    OBVIOUS
  <2>2. /\ r.stage = "idle" /\ r.runAttempt = 0 /\ r.entry = 0
        /\ r.view = 0 /\ r.cmd = NoCommand /\ r.processor = "none" /\ ~r.stopped
        /\ r.failure = "none" /\ r.result = "none" /\ r.slot = 0 /\ ~r.reconciling
    BY <2>1 DEF NewHandle
  <2>3. Runs(h, r, l)
    BY <2>2, Silent
  <2>4. QED
    BY <2>1, <2>3
<1>2. Runs(h, [NewHandle EXCEPT !.alive = x], l)
  <2>1. PICK r : r = [NewHandle EXCEPT !.alive = x]
    OBVIOUS
  <2>2. /\ r.stage = "idle" /\ r.runAttempt = 0 /\ r.entry = 0
        /\ r.view = 0 /\ r.cmd = NoCommand /\ r.processor = "none" /\ ~r.stopped
        /\ r.failure = "none" /\ r.result = "none" /\ r.slot = 0 /\ ~r.reconciling
    BY <2>1 DEF NewHandle
  <2>3. Runs(h, r, l)
    BY <2>2, Silent
  <2>4. QED
    BY <2>1, <2>3
<1>3. QED
  BY <1>1, <1>2

LEMMA CrashTells ==
  ASSUME LifecycleInv, RunInv, NEW h \in Runner, Crash(h)
  PROVE  RunInv'
<1>1. PICK r : r = [NewHandle EXCEPT !.alive = "gone"] /\ Update(h, r)
  BY DEF Crash
<1>2. UNCHANGED log
  BY DEF Crash
<1>3. Runs(h, r, log')
  BY <1>1, NewTells
<1>4. QED
  BY <1>1, <1>2, <1>3, Unrecorded, RunStep

LEMMA InitRuns ==
  ASSUME Init
  PROVE  RunInv
<1>1. ASSUME NEW h \in Runner PROVE handle[h] \in {NewHandle, [NewHandle EXCEPT !.alive = "gone"]}
  BY DEF Init
<1>2. ASSUME NEW h \in Runner PROVE Runs(h, handle[h], log)
  <2>1. Runs(h, NewHandle, log) /\ Runs(h, [NewHandle EXCEPT !.alive = "gone"], log)
    BY NewTells
  <2>2. QED
    BY <1>1, <2>1
<1>3. QED
  BY <1>2 DEF RunInv

-----------------------------------------------------------------------------
(* Saves.                                                                   *)

LEMMA AnsweredTells ==
  ASSUME LifecycleInv, RunInv, NEW h \in Runner, NEW op \in SaveOps, NEW outcome,
         Saves(h, op, outcome)
  PROVE  LET q == handle[h]
             a == Answered(h, outcome)
         IN  /\ SameRun(q, a) /\ DOMAIN a = DOMAIN NewHandle
             /\ a.cmd.op = "none" /\ q.cmd.op = op /\ Posture(q)
             /\ a.view \in q.view .. Len(log') /\ Extends(log, log')
             /\ outcome # "ok" => a.view = q.view
             /\ outcome = "ok" => a.view = Len(log')
<1> DEFINE q == handle[h]
<1>1. PICK v, c, r :
        /\ v = (IF outcome = "ok" THEN q.view + Len(q.cmd.evs) ELSE q.view)
        /\ r = [q EXCEPT !.cmd = NoCommand, !.view = v, !.certificate = c]
        /\ r = Answered(h, outcome)
  BY Zenon DEF Answered
<1>2. /\ SameRun(q, r) /\ DOMAIN r = DOMAIN NewHandle /\ r.cmd = NoCommand /\ r.view = v
  BY <1>1, RunKept DEF NewHandle, SameRun
<1>3. /\ Extends(log, log') /\ q.cmd.op = op
      /\ outcome = "ok" => Len(log') = q.view + Len(q.cmd.evs)
  BY SaveFacts DEF Saves
<1>4. v \in q.view .. Len(log')
  <2>1. q.view \in 0 .. Len(log) /\ Len(log) \in Nat /\ Len(log') \in Nat
        /\ Len(log) <= Len(log')
    BY <1>3, RunKept DEF Extends
  <2>2. outcome = "ok" => v = Len(log')
    BY <1>1, <1>3
  <2>3. outcome # "ok" => v = q.view
    BY <1>1
  <2>4. QED
    BY <2>1, <2>2, <2>3
<1>5. NoCommand.op = "none" /\ Posture(q)
  BY RunKept DEF NoCommand
<1>6. QED
  BY <1>1, <1>2, <1>3, <1>4, <1>5

\* A save of anything but a claim: the run tells what it told.
LEMMA SaveTells ==
  ASSUME LifecycleInv, RunInv, NEW h \in Runner, NEW op \in SaveOps, NEW outcome,
         Saves(h, op, outcome), NEW a, a = Answered(h, outcome), NEW r, Update(h, r),
         r.entry = a.entry, r.runAttempt = a.runAttempt, r.view = a.view,
         r.processor = a.processor, r.stopped = a.stopped, r.failure = a.failure,
         r.result = a.result, r.cmd.op \notin {"claim", "observe"}, Posture(r)
  PROVE  RunInv'
<1>1. SameRun(handle[h], a) /\ a.view \in handle[h].view .. Len(log') /\ Extends(log, log')
  BY AnsweredTells
<1>2. Goes(handle[h], r)
  BY <1>1 DEF Goes, SameRun
<1>3. r.view \in handle[h].view .. Len(log')
  BY <1>1
<1>4. QED
  BY <1>1, <1>2, <1>3, TaleStep DEF SameRun

LEMMA PromoteSaveTells ==
  ASSUME LifecycleInv, RunInv, NEW h \in Runner, NEW outcome, PromoteSave(h, outcome)
  PROVE  RunInv'
<1>1. Saves(h, "promote", outcome) /\ "promote" \in SaveOps
  BY DEF PromoteSave, SaveOps
<1>2. PICK a, c, r : /\ a = Answered(h, outcome) /\ r = [a EXCEPT !.certificate = c]
                     /\ Update(h, r)
  BY DEF PromoteSave
<1>3. /\ SameRun(handle[h], a) /\ a.cmd.op = "none" /\ Posture(handle[h])
      /\ handle[h].cmd.op = "promote"
      /\ DOMAIN a = DOMAIN NewHandle
  BY <1>1, <1>2, AnsweredTells
<1>4. SameRun(a, r) /\ r.cmd = a.cmd /\ r.view = a.view
  BY <1>2, <1>3 DEF NewHandle, SameRun
<1>5. Posture(r)
  BY <1>3, <1>4 DEF Posture, SameRun, Driven, Ending
<1>6. r.cmd.op \notin {"claim", "observe"}
  BY <1>3, <1>4
<1>7. /\ a = Answered(h, outcome) /\ Update(h, r)
      /\ r.entry = a.entry /\ r.runAttempt = a.runAttempt /\ r.view = a.view
      /\ r.processor = a.processor /\ r.stopped = a.stopped
      /\ r.failure = a.failure /\ r.result = a.result
  BY <1>2, <1>4 DEF SameRun
<1>8. QED
  BY <1>1, <1>5, <1>6, <1>7, SaveTells

LEMMA ReserveSaveTells ==
  ASSUME LifecycleInv, RunInv, NEW h \in Runner, NEW outcome, ReserveSave(h, outcome)
  PROVE  RunInv'
<1>1. Saves(h, "reserve", outcome) /\ "reserve" \in SaveOps
  BY DEF ReserveSave, SaveOps
<1>2. PICK a : a = Answered(h, outcome)
  OBVIOUS
<1>3. /\ SameRun(handle[h], a) /\ a.cmd.op = "none" /\ Posture(handle[h])
      /\ handle[h].cmd.op = "reserve"
      /\ DOMAIN a = DOMAIN NewHandle
  BY <1>1, <1>2, AnsweredTells
<1>4. PICK r : /\ r = a \/ r = [a EXCEPT !.cmd = Pending("reattest", handle[h].cmd.evs)]
               /\ Update(h, r)
  BY <1>2 DEF ReserveSave
<1>5. SameRun(a, r) /\ r.cmd.op \in {"none", "reattest"} /\ r.view = a.view
  BY <1>3, <1>4 DEF NewHandle, SameRun, Pending
<1>6. Posture(r)
  BY <1>3, <1>4, <1>5 DEF Posture, SameRun, Driven, Ending
<1>7. r.cmd.op \notin {"claim", "observe"}
  BY <1>4, <1>5
<1>8. QED
  BY <1>1, <1>2, <1>4, <1>5, <1>6, <1>7, SaveTells DEF SameRun

LEMMA RecordRetirementTells ==
  ASSUME LifecycleInv, RunInv, NEW h \in Runner, NEW outcome, RecordRetirement(h, outcome)
  PROVE  RunInv'
<1>1. Saves(h, "complete", outcome) /\ "complete" \in SaveOps
  BY DEF RecordRetirement, SaveOps
<1>2. PICK a : a = Answered(h, outcome) /\ Update(h, a)
  BY DEF RecordRetirement
<1>3. SameRun(handle[h], a) /\ a.cmd.op = "none" /\ Posture(handle[h])
      /\ handle[h].cmd.op = "complete"
  BY <1>1, <1>2, AnsweredTells
<1>4. Posture(a)
  BY <1>3 DEF Posture, SameRun, Driven, Ending
<1>5. QED
  BY <1>1, <1>2, <1>3, <1>4, SaveTells

LEMMA ReleaseClaimSaveTells ==
  ASSUME LifecycleInv, RunInv, NEW h \in Runner, NEW outcome, ReleaseClaimSave(h, outcome)
  PROVE  RunInv'
<1>1. Saves(h, "release", outcome) /\ "release" \in SaveOps
  BY DEF ReleaseClaimSave, SaveOps
<1>2. PICK a, r : /\ a = Answered(h, outcome) /\ r = [a EXCEPT !.stage = "done"]
                  /\ Update(h, r)
  BY DEF ReleaseClaimSave
<1>3. /\ SameRun(handle[h], a) /\ a.cmd.op = "none" /\ Posture(handle[h])
      /\ DOMAIN a = DOMAIN NewHandle
  BY <1>1, <1>2, AnsweredTells
<1>4. /\ r.entry = a.entry /\ r.runAttempt = a.runAttempt /\ r.view = a.view
      /\ r.cmd = a.cmd /\ r.processor = a.processor /\ r.stopped = a.stopped
      /\ r.failure = a.failure /\ r.result = a.result /\ r.slot = a.slot
      /\ r.reconciling = a.reconciling /\ r.stage = "done"
  BY <1>2, <1>3 DEF NewHandle
<1>5. Posture(r)
  BY <1>3, <1>4 DEF Posture, SameRun, Driven, Ending, Unstarted, Engaged
<1>6. r.cmd.op \notin {"claim", "observe"}
  BY <1>3, <1>4
<1>7. a = Answered(h, outcome) /\ Update(h, r)
  BY <1>2
<1>8. QED
  BY <1>1, <1>4, <1>5, <1>6, <1>7, SaveTells

LEMMA ResolveRetrySaveTells ==
  ASSUME LifecycleInv, RunInv, NEW h \in Runner, NEW outcome, ResolveRetrySave(h, outcome)
  PROVE  RunInv'
<1>1. Saves(h, "retry", outcome) /\ "retry" \in SaveOps
  BY DEF ResolveRetrySave, SaveOps
<1>2. PICK a : a = Answered(h, outcome)
  OBVIOUS
<1>3. /\ SameRun(handle[h], a) /\ a.cmd.op = "none" /\ Posture(handle[h])
      /\ DOMAIN a = DOMAIN NewHandle /\ handle[h].cmd.op = "retry"
  BY <1>1, <1>2, AnsweredTells
<1>4. PICK r : /\ \/ r = [a EXCEPT !.certificate = NoCertificate, !.stage = "tailing"]
                  \/ r = a
               /\ Update(h, r)
  BY <1>2 DEF ResolveRetrySave
<1>5. /\ r.entry = a.entry /\ r.runAttempt = a.runAttempt /\ r.view = a.view
      /\ r.cmd = a.cmd /\ r.processor = a.processor /\ r.stopped = a.stopped
      /\ r.failure = a.failure /\ r.result = a.result /\ r.slot = a.slot
      /\ r.reconciling = a.reconciling /\ r.stage \in {"tailing", a.stage}
  BY <1>3, <1>4 DEF NewHandle
<1>6. handle[h].processor # "none" /\ handle[h].stage \notin Unstarted
  BY <1>3 DEF Posture, Driven
<1>7. Posture(r)
  BY <1>3, <1>5, <1>6 DEF Posture, SameRun, Driven, Ending, Unstarted, Engaged
<1>8. r.cmd.op \notin {"claim", "observe"}
  BY <1>3, <1>5
<1>9. QED
  BY <1>1, <1>2, <1>4, <1>5, <1>7, <1>8, SaveTells

\* The slot a loss contends for is past the run's entry.
LEMMA LostPastEntry ==
  ASSUME LifecycleInv, RunInv, NEW h \in Runner, NEW outcome
  PROVE  LET slot == LostSlot(h, outcome)
         IN  slot = 0 \/ slot > handle[h].entry
BY RunKept DEF LostSlot

LEMMA CatchUpSaveTells ==
  ASSUME LifecycleInv, RunInv, NEW h \in Runner, NEW outcome, CatchUpSave(h, outcome)
  PROVE  RunInv'
<1>1. Saves(h, "catchup", outcome) /\ "catchup" \in SaveOps
  BY DEF CatchUpSave, SaveOps
<1>2. PICK a : a = Answered(h, outcome)
  OBVIOUS
<1>3. /\ SameRun(handle[h], a) /\ a.cmd.op = "none" /\ Posture(handle[h])
      /\ DOMAIN a = DOMAIN NewHandle /\ handle[h].cmd.op = "catchup"
  BY <1>1, <1>2, AnsweredTells
<1>4. PICK r : /\ r.entry = a.entry /\ r.runAttempt = a.runAttempt /\ r.view = a.view
               /\ r.cmd = a.cmd /\ r.processor = a.processor /\ r.stopped = a.stopped
               /\ r.failure = a.failure /\ r.result = a.result
               /\ r.slot \in {a.slot, LostSlot(h, outcome)}
               /\ r.reconciling = a.reconciling
               /\ r.stage \in {"promoting", "tailing", "winding"}
               /\ Update(h, r)
  <2>1. CASE outcome = "ok"
    <3>1. PICK x \in {"promoting", "tailing"} :
            Update(h, [a EXCEPT !.stage = x,
                         !.certificate = [attempt  |-> handle[h].runAttempt,
                                          position |-> handle[h].cmd.evs[1].position,
                                          version  |-> a.view]])
      BY <1>2, <2>1 DEF CatchUpSave
    <3>2. PICK c, r : r = [a EXCEPT !.stage = x, !.certificate = c] /\ Update(h, r)
      BY <3>1, Zenon
    <3>3. /\ r.entry = a.entry /\ r.runAttempt = a.runAttempt /\ r.view = a.view
          /\ r.cmd = a.cmd /\ r.processor = a.processor /\ r.stopped = a.stopped
          /\ r.failure = a.failure /\ r.result = a.result /\ r.slot = a.slot
          /\ r.reconciling = a.reconciling /\ r.stage = x
      BY <1>3, <3>2 DEF NewHandle
    <3>4. QED
      BY <3>2, <3>3
  <2>2. CASE outcome # "ok"
    <3>1. PICK s, r : /\ s = LostSlot(h, outcome)
                      /\ r = [a EXCEPT !.stage = "winding", !.cancel = TRUE, !.slot = s]
                      /\ Update(h, r)
      BY <1>2, <2>2, Zenon DEF CatchUpSave
    <3>2. /\ r.entry = a.entry /\ r.runAttempt = a.runAttempt /\ r.view = a.view
          /\ r.cmd = a.cmd /\ r.processor = a.processor /\ r.stopped = a.stopped
          /\ r.failure = a.failure /\ r.result = a.result /\ r.slot = s
          /\ r.reconciling = a.reconciling /\ r.stage = "winding"
      BY <1>3, <3>1 DEF NewHandle
    <3>3. QED
      BY <3>1, <3>2
  <2>3. QED
    BY <2>1, <2>2
<1>5. handle[h].processor # "none" /\ (r.slot # 0 => r.slot > handle[h].entry)
  BY <1>3, <1>4, LostPastEntry DEF Posture, Driven, SameRun
<1>6. Posture(r)
  BY <1>3, <1>4, <1>5 DEF Posture, SameRun, Driven, Ending, Unstarted, Engaged
<1>7. r.cmd.op \notin {"claim", "observe"}
  BY <1>3, <1>4
<1>8. QED
  BY <1>1, <1>2, <1>4, <1>6, <1>7, SaveTells

LEMMA PromoteAfterCatchUpSaveTells ==
  ASSUME LifecycleInv, RunInv, NEW h \in Runner, NEW outcome,
         PromoteAfterCatchUpSave(h, outcome)
  PROVE  RunInv'
<1>1. Saves(h, "autopromote", outcome) /\ "autopromote" \in SaveOps
  BY DEF PromoteAfterCatchUpSave, SaveOps
<1>2. PICK a : a = Answered(h, outcome)
  OBVIOUS
<1>3. /\ SameRun(handle[h], a) /\ a.cmd.op = "none" /\ Posture(handle[h])
      /\ DOMAIN a = DOMAIN NewHandle /\ handle[h].cmd.op = "autopromote"
  BY <1>1, <1>2, AnsweredTells
<1>4. PICK s, r : /\ s = LostSlot(h, outcome)
                  /\ \/ r = [a EXCEPT !.certificate = NoCertificate, !.stage = "tailing"]
                     \/ r = [a EXCEPT !.stage = "tailing"]
                     \/ outcome = "unknown" /\ r = [a EXCEPT !.stage = "resolving", !.slot = s]
                     \/ r = [a EXCEPT !.stage = "winding", !.cancel = TRUE, !.slot = s]
                  /\ Update(h, r)
  <2>1. CASE outcome = "ok"
    BY <1>2, <2>1, Zenon DEF PromoteAfterCatchUpSave
  <2>2. CASE outcome = "appended"
    BY <1>2, <2>2, Zenon DEF PromoteAfterCatchUpSave
  <2>3. CASE outcome = "unknown"
    BY <1>2, <2>3, Zenon DEF PromoteAfterCatchUpSave
  <2>4. CASE outcome \notin {"ok", "appended", "unknown"}
    BY <1>2, <2>4, Zenon DEF PromoteAfterCatchUpSave
  <2>5. QED
    BY <2>1, <2>2, <2>3, <2>4, Zenon
<1>5. /\ r.entry = a.entry /\ r.runAttempt = a.runAttempt /\ r.view = a.view
      /\ r.cmd = a.cmd /\ r.processor = a.processor /\ r.stopped = a.stopped
      /\ r.failure = a.failure /\ r.result = a.result /\ r.slot \in {a.slot, s}
      /\ r.reconciling = a.reconciling
      /\ \/ r.stage \in {"tailing", "winding"}
         \/ r.stage = "resolving" /\ r.slot = s /\ outcome = "unknown"
  BY <1>3, <1>4 DEF NewHandle
<1>6. outcome = "unknown" => s # 0
  BY <1>4, RunKept DEF LostSlot
<1>7. /\ handle[h].processor # "none" /\ handle[h].stage \notin Unstarted
      /\ r.slot # 0 => r.slot > handle[h].entry
  BY <1>3, <1>4, <1>5, LostPastEntry DEF Posture, Driven, SameRun
<1>8. Posture(r)
  BY <1>3, <1>5, <1>6, <1>7 DEF Posture, SameRun, Driven, Ending, Unstarted, Engaged
<1>9. r.cmd.op \notin {"claim", "observe"}
  BY <1>3, <1>5
<1>10. QED
  BY <1>1, <1>2, <1>4, <1>5, <1>8, <1>9, SaveTells

LEMMA OpeningSaveTells ==
  ASSUME LifecycleInv, RunInv, NEW h \in Runner, NEW outcome,
         BeginSave(h, outcome) \/ PolicySave(h, outcome)
  PROVE  RunInv'
<1>1. PICK op \in {"begin", "policy"} : op \in SaveOps /\ Saves(h, op, outcome)
  BY DEF BeginSave, PolicySave, SaveOps
<1>2. PICK a : a = Answered(h, outcome)
  OBVIOUS
<1>3. /\ SameRun(handle[h], a) /\ a.cmd.op = "none" /\ Posture(handle[h])
      /\ DOMAIN a = DOMAIN NewHandle /\ handle[h].cmd.op = op /\ Extends(log, log')
  BY <1>1, <1>2, AnsweredTells
<1>4. CASE Update(h, NewHandle)
  BY <1>3, <1>4, NewTells, RunStep
<1>5. CASE Update(h, [a EXCEPT !.alive = "open"])
  <2>1. PICK r : r = [a EXCEPT !.alive = "open"] /\ Update(h, r)
    BY <1>5
  <2>2. SameRun(a, r) /\ r.cmd = a.cmd /\ r.view = a.view
    BY <1>3, <2>1 DEF NewHandle, SameRun
  <2>3. Posture(r)
    BY <1>3, <2>2 DEF Posture, SameRun, Driven, Ending
  <2>4. r.cmd.op \notin {"claim", "observe"}
    BY <1>3, <2>2
  <2>5. /\ a = Answered(h, outcome) /\ Update(h, r)
        /\ r.entry = a.entry /\ r.runAttempt = a.runAttempt /\ r.view = a.view
        /\ r.processor = a.processor /\ r.stopped = a.stopped
        /\ r.failure = a.failure /\ r.result = a.result
    BY <1>2, <2>1, <2>2 DEF SameRun
  <2>6. QED
    BY <1>1, <2>3, <2>4, <2>5, SaveTells
<1>6. Update(h, NewHandle) \/ Update(h, [a EXCEPT !.alive = "open"])
  <2>1. CASE BeginSave(h, outcome)
    BY <1>2, <2>1 DEF BeginSave
  <2>2. CASE PolicySave(h, outcome)
    BY <2>2 DEF PolicySave
  <2>3. QED
    BY <2>1, <2>2
<1>7. QED
  BY <1>4, <1>5, <1>6

\* A recorded rollback or abandonment ends the attempt in view, with its own event.
LEMMA EndShows ==
  ASSUME LifecycleInv, StreamInv, RunInv, NEW h \in Runner, NEW op \in {"rollback", "abandon"},
         NEW outcome \in {"ok", "appended"}, Saves(h, op, outcome),
         View(h).attempt.id = handle[h].runAttempt
  PROVE  LET q == handle[h]
         IN  q.runAttempt # 0 /\ EndedIn(log', q.entry, q.runAttempt)
<1> DEFINE q == handle[h]
           evs == q.cmd.evs
           s == StateIn(log, Tip)
<1>1. /\ Tip = q.view /\ log' = Recorded(evs) /\ q.cmd.op = op /\ op \in SaveOps
  BY DEF Saves, Unmoved, SaveOps
<1>2. /\ evs[1].type \in {"RolledBack", "Abandoned"} /\ q.entry \in 0 .. Tip
      /\ Posture(q)
  BY <1>1, RunKept DEF Posture, Ending
<1>3. Writes(h, evs, s)
  BY <1>1, StreamKept DEF Keeps, Pends
<1>4. /\ Extends(log, log') /\ Folded(log') /\ Tip \in Nat /\ Len(log) = Tip
      /\ log'[Tip + 1].event = evs[1]
  BY <1>1, <1>3, AppendGrows DEF LifecycleInv, StreamInv
<1>5. Tip + 1 \in 1 .. Len(log')
  <2>1. Tip' = Len(log') /\ evs = <<evs[1]>>
    BY <1>2, <1>3 DEF Writes, Accepted, Tip
  <2>2. Len(log') = Tip + 1
    BY <1>1, <2>1, RecordedOne DEF LifecycleInv
  <2>3. QED
    BY <1>4, <2>2
<1>6. StateIn(log', Tip) = s /\ (Tip + 1) - 1 = Tip /\ Len(log') \in Nat
  <2>1. Tip \in 0 .. Len(log) /\ (Tip + 1) - 1 = Tip /\ Len(log') \in Nat
    BY <1>4 DEF Extends
  <2>2. StateIn(log', Tip) = s
    BY <1>4, <2>1, StatesStay
  <2>3. QED
    BY <2>1, <2>2
<1>7. Effect(evs[1], s, StateIn(log', Tip + 1)) /\ Sound(s)
  BY <1>4, <1>5, <1>6, FoldedStep
<1>8. AttemptIn(log', Tip + 1).id = 0 /\ s.attempt.phase # "none"
  BY <1>2, <1>7 DEF Effect, NoAttempt, AttemptIn
<1>9. s.attempt.id # 0 /\ View(h) = s
  BY <1>1, <1>7, <1>8, SoundAttempt, ViewIn
<1>10. q.runAttempt # 0
  BY <1>9
<1>11. Tip + 1 \in q.entry .. Len(log')
  BY <1>2, <1>4, <1>5
<1>12. QED
  BY <1>8, <1>10, <1>11 DEF EndedIn

LEMMA EndSaveTells ==
  ASSUME LifecycleInv, StreamInv, RunInv, NEW h \in Runner, NEW op \in {"rollback", "abandon"},
         NEW outcome, EndSave(h, op, outcome)
  PROVE  RunInv'
<1> DEFINE q == handle[h]
           ends == outcome \in {"ok", "appended"} /\ View(h).attempt.id = q.runAttempt
<1>1. Saves(h, op, outcome) /\ op \in SaveOps
  BY DEF EndSave, SaveOps
<1>2. PICK a : a = Answered(h, outcome)
  OBVIOUS
<1>3. /\ SameRun(q, a) /\ a.cmd.op = "none" /\ Posture(q)
      /\ DOMAIN a = DOMAIN NewHandle /\ q.cmd.op = op
      /\ a.view \in q.view .. Len(log') /\ Extends(log, log')
  BY <1>1, <1>2, AnsweredTells
<1>4. CASE ~ends
  <2>1. Update(h, a)
    BY <1>2, <1>4 DEF EndSave
  <2>2. Posture(a)
    BY <1>3 DEF Posture, SameRun, Driven, Ending
  <2>3. QED
    BY <1>1, <1>2, <1>3, <2>1, <2>2, SaveTells
<1>5. CASE ends
  <2>1. PICK x, r : /\ r = [a EXCEPT !.stopped = TRUE, !.cancel = TRUE, !.commandEnded = x]
                    /\ Update(h, r)
    BY <1>2, <1>5, Zenon DEF EndSave
  <2>2. /\ r.entry = q.entry /\ r.runAttempt = q.runAttempt /\ r.view = a.view
        /\ r.cmd = a.cmd /\ r.processor = q.processor /\ r.stopped = TRUE
        /\ r.failure = q.failure /\ r.result = q.result /\ r.slot = q.slot
        /\ r.reconciling = q.reconciling /\ r.stage = q.stage
    BY <1>3, <2>1 DEF NewHandle, SameRun
  <2>3. q.runAttempt # 0 /\ EndedIn(log', q.entry, q.runAttempt)
    BY <1>1, <1>5, EndShows
  <2>4. q.stage \notin Unstarted
    BY <1>3, <2>3 DEF Posture, Unstarted
  <2>5. Posture(r)
    BY <1>3, <2>2, <2>4 DEF Posture, Driven, Ending, Unstarted, Engaged
  <2>6. Entered(h, q, log) /\ Told(h, q, log) /\ q.view \in 0 .. Len(log) /\ q.entry \in Nat
    BY RunKept
  <2>7. Goes(q, r)
    BY <1>3, <2>2 DEF Goes
  <2>8. Entered(h, r, log')
    BY <1>3, <2>2, <2>6, <2>7, EnteredLater
  <2>9. Told(h, q, log')
    BY <1>3, <2>6, ToldLater
  <2>10. Told(h, r, log')
    BY <2>2, <2>3, <2>9 DEF Told
  <2>11. QED
    BY <1>3, <2>1, <2>5, <2>8, <2>10, RunStep DEF Runs
<1>6. QED
  BY <1>4, <1>5

-----------------------------------------------------------------------------
(* The claim's answer.                                                      *)

\* A run whose own claim is the first event after its entry may start.
LEMMA StartedTells ==
  ASSUME NEW h, NEW l, NEW p, DOMAIN p = DOMAIN NewHandle, NEW r \in Started(h, p),
         p.cmd.op = "none", p.processor = "none", ~p.stopped, p.failure = "none",
         p.result = "none", p.slot = 0, p.entry \in Nat, p.view \in Nat,
         p.entry < p.view, p.entry < Len(l), p.runAttempt # 0,
         AttemptIn(l, p.entry).id = p.runAttempt,
         AttemptIn(l, p.entry + 1).id = p.runAttempt, AttemptIn(l, p.entry + 1).runner = h,
         ~p.reconciling
  PROVE  Runs(h, r, l)
<1>1. /\ r.entry = p.entry /\ r.runAttempt = p.runAttempt /\ r.view = p.view
      /\ r.cmd = p.cmd /\ r.stopped = p.stopped
      /\ r.failure = p.failure /\ r.slot = p.slot
      /\ r.result \in {"none", "error"}
      /\ \/ r.stage \in {"catchup", "tailing"} /\ r.processor = "running"
         \/ r.stage = "releasing" /\ r.processor = "none" /\ ~r.reconciling
  <2>1. CASE r = [p EXCEPT !.stage = "releasing", !.result = "error"]
    BY <2>1 DEF NewHandle
  <2>2. CASE r # [p EXCEPT !.stage = "releasing", !.result = "error"]
    <3>1. PICK x \in {"catchup", "tailing"} :
            r = [p EXCEPT !.processor = "running", !.reconciling = TRUE, !.stage = x]
      BY <2>2 DEF Started
    <3>2. QED
      BY <3>1 DEF NewHandle
  <2>3. QED
    BY <2>1, <2>2
<1>2. Posture(r)
  BY <1>1 DEF Posture, Unstarted, Engaged, Driven, Ending
<1>3. Entered(h, r, l)
  BY <1>1 DEF Entered
<1>4. Told(h, r, l)
  BY <1>1 DEF Told
<1>5. QED
  BY <1>2, <1>3, <1>4 DEF Runs

\* A run that ends at its claim.
LEMMA FinishedTells ==
  ASSUME LifecycleInv, StreamInv, RunInv, UNCHANGED log, NEW h \in Runner,
         handle[h].stage = "claiming",
         NEW p, DOMAIN p = DOMAIN NewHandle, SameRun(handle[h], p), p.cmd.op = "none",
         p.view \in handle[h].view .. Tip,
         NEW x, Update(h, Finished(p, x)),
         x = "nil" => handle[h].runAttempt # 0
                      /\ EndedIn(log, handle[h].entry, handle[h].runAttempt),
         x = "displaced" => RivalIn(log, handle[h].entry, handle[h].runAttempt, h)
  PROVE  RunInv'
<1> DEFINE q == handle[h]
<1>1. PICK r : r = [p EXCEPT !.stage = "done", !.result = x] /\ Update(h, r)
  BY DEF Finished
<1>2. /\ r.entry = q.entry /\ r.runAttempt = q.runAttempt /\ r.view = p.view
      /\ r.cmd = p.cmd /\ r.processor = q.processor /\ r.stopped = q.stopped
      /\ r.failure = q.failure /\ r.result = x /\ r.slot = q.slot
      /\ r.reconciling = q.reconciling /\ r.stage = "done"
  BY <1>1 DEF NewHandle, SameRun
<1>3. Posture(q)
  BY RunKept
<1>4. Posture(r) /\ Goes(q, r)
  BY <1>2, <1>3 DEF Posture, Goes, Unstarted, Engaged, Driven, Ending
<1>5. NewTale(h, q, r, log)
  BY <1>2 DEF NewTale
<1>6. r.view \in q.view .. Tip
  BY <1>2
<1>7. QED
  BY <1>1, <1>4, <1>5, <1>6, VerdictStep

LEMMA ObserveClaimTells ==
  ASSUME LifecycleInv, StreamInv, RunInv, NEW h \in Runner, ObserveClaim(h)
  PROVE  RunInv'
<1> DEFINE q == handle[h]
           s == StateAt(Tip)
<1>1. /\ Posture(q) /\ Entered(h, q, log) /\ DOMAIN q = DOMAIN NewHandle
      /\ q.view \in 0 .. Tip /\ Tip \in Nat /\ q.entry \in 0 .. q.view /\ Len(log) = Tip
  BY RunKept
<1>2. q.cmd.op = "observe" /\ UNCHANGED log /\ q.stage = "claiming"
  BY StreamKept DEF ObserveClaim, Stages
<1>3. /\ q.runAttempt # 0 /\ q.entry < Tip
      /\ AttemptIn(log, q.entry).id = q.runAttempt
      /\ AttemptIn(log, q.entry + 1).id = q.runAttempt
      /\ AttemptIn(log, q.entry + 1).runner = h
  BY <1>1, <1>2 DEF Entered
<1>4. /\ Ended(h, s) => EndedIn(log, q.entry, q.runAttempt)
      /\ Displaced(h, s) => RivalIn(log, q.entry, q.runAttempt, h)
  <2>1. Tip \in q.entry .. Tip /\ Tip # q.entry
    BY <1>1, <1>3
  <2>2. QED
    BY <1>2, <2>1, FoldTells
<1>5. PICK there, here : /\ there = [q EXCEPT !.cmd = NoCommand, !.view = Tip]
                         /\ here = [q EXCEPT !.cmd = NoCommand]
  OBVIOUS
<1>6. /\ DOMAIN there = DOMAIN NewHandle /\ DOMAIN here = DOMAIN NewHandle
      /\ SameRun(q, there) /\ SameRun(q, here) /\ there.view = Tip /\ here.view = q.view
      /\ there.cmd.op = "none" /\ here.cmd.op = "none"
  <2>1. NoCommand.op = "none"
    BY DEF NoCommand
  <2>2. QED
    BY <1>1, <1>5, <2>1 DEF NewHandle, SameRun
<1>7. there.view \in q.view .. Tip /\ here.view \in q.view .. Tip
  BY <1>1, <1>6
<1>8. \/ Update(h, Finished(here, "error"))
      \/ Ended(h, s) /\ Update(h, Finished(there, "nil"))
      \/ Displaced(h, s) /\ Update(h, Finished(there, "displaced"))
      \/ \E r \in Started(h, there) : Update(h, r)
  BY <1>5 DEF ObserveClaim
<1>9. CASE Update(h, Finished(here, "error"))
  BY <1>2, <1>6, <1>7, <1>9, FinishedTells
<1>10. CASE Ended(h, s) /\ Update(h, Finished(there, "nil"))
  BY <1>2, <1>3, <1>4, <1>6, <1>7, <1>10, FinishedTells
<1>11. CASE Displaced(h, s) /\ Update(h, Finished(there, "displaced"))
  BY <1>2, <1>4, <1>6, <1>7, <1>11, FinishedTells
<1>12. CASE \E r \in Started(h, there) : Update(h, r)
  <2>1. PICK r \in Started(h, there) : Update(h, r)
    BY <1>12
  <2>2. /\ there.processor = "none" /\ ~there.stopped /\ there.failure = "none"
        /\ there.result = "none" /\ there.slot = 0 /\ ~there.reconciling
        /\ there.entry = q.entry /\ there.runAttempt = q.runAttempt
    BY <1>1, <1>2, <1>6 DEF Posture, SameRun, Unstarted
  <2>3. there.entry \in Nat /\ there.view \in Nat /\ there.entry < there.view
        /\ there.entry < Len(log)
    BY <1>1, <1>3, <1>6, <2>2
  <2>4. Runs(h, r, log)
    BY <1>3, <1>6, <2>1, <2>2, <2>3, StartedTells
  <2>5. Extends(log, log') /\ Runs(h, r, log')
    BY <1>2, <2>4, Unrecorded
  <2>6. QED
    BY <2>1, <2>5, RunStep
<1>13. QED
  BY <1>8, <1>9, <1>10, <1>11, <1>12

\* A claim that is recorded is the first event after the entry.
LEMMA ClaimShows ==
  ASSUME LifecycleInv, StreamInv, RunInv, NEW h \in Runner, handle[h].cmd.op = "claim",
         Tip = handle[h].view, log' = Recorded(handle[h].cmd.evs)
  PROVE  LET q == handle[h]
         IN  /\ q.entry = q.view /\ q.runAttempt # 0 /\ q.entry \in Nat
             /\ q.entry < Len(log') /\ Len(log') \in Nat
             /\ AttemptIn(log', q.entry).id = q.runAttempt
             /\ AttemptIn(log', q.entry + 1).id = q.runAttempt
             /\ AttemptIn(log', q.entry + 1).runner = h
<1> DEFINE q == handle[h]
           evs == q.cmd.evs
           s == StateIn(log, Tip)
           t == StateIn(log', Tip + 1)
<1>1. /\ q.entry = q.view /\ q.runAttempt # 0 /\ Tip \in Nat /\ Len(log) = Tip
      /\ AttemptIn(log, Tip).id = q.runAttempt
  BY RunKept DEF Entered
<1>2. Writes(h, evs, s) /\ evs[1].type = "RunnerClaimed"
  BY StreamKept DEF Keeps, Claims, Pends, SaveOps
<1>3. evs[1].runner = h
  BY <1>2 DEF Writes
<1>4. /\ Extends(log, log') /\ Folded(log') /\ log'[Tip + 1].event = evs[1]
  BY <1>2, AppendGrows DEF LifecycleInv, StreamInv
<1>5. Len(log') \in Nat /\ Tip < Len(log')
  <2>1. CASE evs = <<evs[1]>>
    <3>1. Len(log') = Tip + 1
      BY <2>1, RecordedOne DEF LifecycleInv
    <3>2. QED
      BY <1>1, <3>1
  <2>2. CASE evs = <<evs[1], BuildStarted>>
    <3>1. evs = <<evs[1], evs[2]>>
      BY <2>2
    <3>2. Len(log') = Tip + 2
      BY <3>1, RecordedTwo DEF LifecycleInv
    <3>3. QED
      BY <1>1, <3>2
  <2>3. QED
    BY <1>2, <2>1, <2>2 DEF Writes, Accepted
<1>6. Tip + 1 \in 1 .. Len(log') /\ (Tip + 1) - 1 = Tip /\ Tip \in 0 .. Len(log)
  BY <1>1, <1>5
<1>7. StateIn(log', Tip) = s /\ AttemptIn(log', Tip) = AttemptIn(log, Tip)
  BY <1>4, <1>6, StatesStay
<1>8. Effect(evs[1], s, t)
  BY <1>4, <1>5, <1>6, <1>7, FoldedStep
<1>9. t.attempt.id = s.attempt.id /\ t.attempt.runner = h
  BY <1>2, <1>3, <1>8 DEF Effect, SameAttempt
<1>10. QED
  BY <1>1, <1>5, <1>7, <1>9 DEF AttemptIn

\* claimDefeat tells what the winner of the slot did.
LEMMA ClaimDefeatShows ==
  ASSUME LifecycleInv, StreamInv, RunInv, NEW h \in Runner, handle[h].cmd.op = "claim",
         handle[h].view < Tip
  PROVE  LET q == handle[h]
             s == StateAt(q.view + 1)
         IN  /\ Ended(h, s) => q.runAttempt # 0 /\ EndedIn(log, q.entry, q.runAttempt)
             /\ ~Ended(h, s) /\ NewClaimant(h, s) =>
                  RivalIn(log, q.entry, q.runAttempt, h)
<1> DEFINE q == handle[h]
           e == q.view
           v == q.view + 1
           s == StateAt(v)
<1>1. /\ q.entry = e /\ q.runAttempt # 0 /\ Tip \in Nat /\ Len(log) = Tip
      /\ e \in 0 .. Tip /\ AttemptIn(log, e).id = q.runAttempt
  BY RunKept DEF Entered
<1>2. v \in q.entry .. Tip /\ v \in 1 .. Len(log) /\ v \in e .. Len(log) /\ e \in 0 .. Len(log)
  BY <1>1
<1>3. s.attempt = AttemptIn(log, v) /\ View(h).attempt = AttemptIn(log, e)
  BY <1>2, SoundView, ViewIn DEF StateAt, StateIn, AttemptIn
<1>4. Ended(h, s) => q.runAttempt # 0 /\ EndedIn(log, q.entry, q.runAttempt)
  BY <1>1, <1>2, FoldTells
<1>5. ASSUME ~Ended(h, s), NewClaimant(h, s)
      PROVE  RivalIn(log, q.entry, q.runAttempt, h)
  <2>1. /\ AttemptIn(log, v).id = q.runAttempt
        /\ AttemptIn(log, e).runner # AttemptIn(log, v).runner
    BY <1>3, <1>5 DEF Ended, NewClaimant
  <2>2. Folded(log) /\ Len(log) \in Nat
    BY <1>1 DEF StreamInv
  <2>3. PICK k \in e + 1 .. v : ClaimedAt(log, k, AttemptIn(log, v).runner, AttemptIn(log, v).id)
    <3> HIDE DEF e, v
    <3>1. QED
      BY <1>1, <1>2, <2>1, <2>2, ClaimBetween
  <2>4. AttemptIn(log, v).runner # h
    BY <1>2, StreamKept DEF Keeps, Claims
  <2>5. k \in q.entry + 1 .. Len(log)
    BY <1>1, <1>2
  <2>6. QED
    BY <2>1, <2>3, <2>4, <2>5 DEF RivalIn, ClaimedAt
<1>6. QED
  BY <1>4, <1>5

LEMMA ClaimSaveTells ==
  ASSUME LifecycleInv, StreamInv, RunInv, NEW h \in Runner, NEW outcome, ClaimSave(h, outcome)
  PROVE  RunInv'
<1> DEFINE q == handle[h]
<1>1. Saves(h, "claim", outcome) /\ "claim" \in SaveOps /\ q.cmd.op = "claim"
  BY DEF ClaimSave, SaveOps, Saves
<1>2. PICK a : a = Answered(h, outcome)
  OBVIOUS
<1>3. /\ SameRun(q, a) /\ a.cmd.op = "none" /\ Posture(q)
      /\ DOMAIN a = DOMAIN NewHandle /\ Extends(log, log')
      /\ outcome # "ok" => a.view = q.view
      /\ outcome = "ok" => a.view = Len(log')
  BY <1>1, <1>2, AnsweredTells
<1>4. /\ q.stage = "claiming" /\ Entered(h, q, log)
      /\ q.view \in 0 .. Tip /\ Tip \in Nat /\ Len(log) = Tip
  BY <1>1, StreamKept, RunKept DEF Stages
<1>5. /\ a.processor = "none" /\ ~a.stopped /\ a.failure = "none"
      /\ a.result = "none" /\ a.slot = 0 /\ ~a.reconciling /\ a.stage = "claiming"
      /\ a.entry = q.entry /\ a.runAttempt = q.runAttempt
  BY <1>3, <1>4 DEF Posture, SameRun, Unstarted
<1>6. outcome \in {"ok", "appended"} => Tip = q.view /\ log' = Recorded(q.cmd.evs)
  BY <1>1 DEF Saves, Unmoved
<1>7. CASE outcome = "ok"
  <2>1. PICK r \in Started(h, a) : Update(h, r)
    BY <1>2, <1>7 DEF ClaimSave
  <2>2. /\ q.runAttempt # 0 /\ q.entry \in Nat
        /\ q.entry < Len(log') /\ Len(log') \in Nat
        /\ AttemptIn(log', q.entry).id = q.runAttempt
        /\ AttemptIn(log', q.entry + 1).id = q.runAttempt
        /\ AttemptIn(log', q.entry + 1).runner = h
    BY <1>1, <1>6, <1>7, ClaimShows
  <2>3. a.view = Len(log')
    BY <1>3, <1>7
  <2>4. Runs(h, r, log')
    BY <1>3, <1>5, <2>1, <2>2, <2>3, StartedTells
  <2>5. QED
    BY <1>3, <2>1, <2>4, RunStep
<1>8. CASE outcome = "appended"
  <2>1. PICK r : r = [a EXCEPT !.cmd = Pending("observe", <<>>)] /\ Update(h, r)
    BY <1>2, <1>8 DEF ClaimSave
  <2>2. /\ r.entry = q.entry /\ r.runAttempt = q.runAttempt /\ r.view = q.view
        /\ r.cmd.op = "observe" /\ r.processor = "none" /\ ~r.stopped
        /\ r.failure = "none" /\ r.result = "none" /\ r.slot = 0
        /\ ~r.reconciling /\ r.stage = "claiming"
    BY <1>3, <1>5, <1>8, <2>1 DEF NewHandle, Pending
  <2>3. /\ q.runAttempt # 0 /\ q.entry \in Nat /\ q.entry = q.view
        /\ q.entry < Len(log') /\ Len(log') \in Nat
        /\ AttemptIn(log', q.entry).id = q.runAttempt
        /\ AttemptIn(log', q.entry + 1).id = q.runAttempt
        /\ AttemptIn(log', q.entry + 1).runner = h
    BY <1>1, <1>6, <1>8, ClaimShows
  <2>4. Posture(r)
    BY <2>2 DEF Posture, Unstarted, Engaged, Driven, Ending
  <2>5. Entered(h, r, log')
    BY <2>2, <2>3 DEF Entered
  <2>6. Told(h, r, log')
    BY <2>2 DEF Told
  <2>7. QED
    BY <1>3, <2>1, <2>4, <2>5, <2>6, RunStep DEF Runs
<1>9. CASE outcome \notin {"ok", "appended"}
  <2>1. UNCHANGED log /\ a.view = q.view /\ a.view \in q.view .. Tip
    BY <1>1, <1>3, <1>4, <1>9 DEF Saves
  <2>2. CASE Update(h, Finished(a, "error"))
    BY <1>3, <1>4, <2>1, <2>2, FinishedTells
  <2>3. CASE outcome = "mismatch" /\ ~Update(h, Finished(a, "error"))
    <3> DEFINE s == StateAt(q.view + 1)
    <3>1. q.view < Tip
      BY <1>1, <2>3, SaveFacts
    <3>2. PICK p : p = [a EXCEPT !.view = q.view + 1]
      OBVIOUS
    <3>3. /\ DOMAIN p = DOMAIN NewHandle /\ SameRun(q, p) /\ p.cmd.op = "none"
          /\ p.view = q.view + 1
      BY <1>3, <3>2 DEF NewHandle, SameRun
    <3>4. p.view \in q.view .. Tip
      BY <1>4, <3>1, <3>3
    <3>5. Update(h, ClaimDefeat(h, a))
      BY <1>2, <2>3 DEF ClaimSave
    <3>6. \/ Ended(h, s) /\ Update(h, Finished(p, "nil"))
          \/ ~Ended(h, s) /\ NewClaimant(h, s) /\ Update(h, Finished(p, "displaced"))
      BY <2>3, <3>2, <3>5 DEF ClaimDefeat
    <3>7. /\ Ended(h, s) => q.runAttempt # 0 /\ EndedIn(log, q.entry, q.runAttempt)
          /\ ~Ended(h, s) /\ NewClaimant(h, s) =>
               RivalIn(log, q.entry, q.runAttempt, h)
      BY <1>1, <3>1, ClaimDefeatShows
    <3>8. QED
      BY <1>4, <2>1, <3>3, <3>4, <3>6, <3>7, FinishedTells
  <2>4. QED
    BY <1>2, <1>9, <2>2, <2>3 DEF ClaimSave
<1>10. QED
  BY <1>7, <1>8, <1>9

-----------------------------------------------------------------------------
(* The theorem.                                                             *)

LEMMA SaveAnswersTell ==
  ASSUME LifecycleInv, StreamInv, RunInv, NEW h \in Runner, SaveAnswers(h)
  PROVE  RunInv'
<1>1. PICK outcome \in Outcome :
        \/ BeginSave(h, outcome)
        \/ PolicySave(h, outcome)
        \/ ClaimSave(h, outcome)
        \/ CatchUpSave(h, outcome)
        \/ PromoteSave(h, outcome)
        \/ PromoteAfterCatchUpSave(h, outcome)
        \/ ResolveRetrySave(h, outcome)
        \/ ReleaseClaimSave(h, outcome)
        \/ EndSave(h, "rollback", outcome)
        \/ EndSave(h, "abandon", outcome)
        \/ ReserveSave(h, outcome)
        \/ RecordRetirement(h, outcome)
  BY DEF SaveAnswers
<1>2. QED
  BY <1>1, OpeningSaveTells, ClaimSaveTells, CatchUpSaveTells, PromoteSaveTells,
     PromoteAfterCatchUpSaveTells, ResolveRetrySaveTells, ReleaseClaimSaveTells,
     EndSaveTells, ReserveSaveTells, RecordRetirementTells

LEMMA InternalTells ==
  ASSUME LifecycleInv, StreamInv, RunInv, NEW h \in Runner, Internal(h)
  PROVE  RunInv'
BY SaveAnswersTell, ObserveClaimTells, PromotionTells, ResolveHaltTells, ResolveSlotTells,
   WoundTells, ProcessorTells, ClassifyTells, ReleaseTells, RetireTells, DestructionTells
   DEF Internal

LEMMA ExternalTells ==
  ASSUME LifecycleInv, StreamInv, RunInv, NEW h \in Runner, External(h)
  PROVE  RunInv'
BY LoadTells, RunEnterTells, CatchUpTells, PromotionTells, EndTells, RetireTells,
   ProcessorTells, ReconcileFailTells, CrashTells
   DEF External

LEMMA NextTells ==
  ASSUME LifecycleInv, StreamInv, RunInv, [Next]_vars
  PROVE  RunInv'
<1>1. ASSUME NEW h \in Runner, Internal(h) \/ External(h) \/ ProcessorReturn(h)
      PROVE  RunInv'
  BY <1>1, InternalTells, ExternalTells, ProcessorTells
<1>2. ASSUME NEW h \in Runner, NEW v \in 0 .. Tip, Reconcile(h, v)
      PROVE  RunInv'
  BY <1>2, ReconcileTells
<1>3. ASSUME UNCHANGED <<log, handle>>
      PROVE  RunInv'
  BY <1>3, Unrecorded, RunIdle
<1>4. CASE Land
  <2>1. PICK evs \in inflight : log' = Recorded(evs) /\ UNCHANGED handle
    BY <1>4 DEF Land
  <2>2. PICK k \in Runner : Writes(k, evs, StateIn(log, Tip))
    BY <2>1 DEF StreamInv, Lands
  <2>3. Extends(log, log')
    BY <2>1, <2>2, AppendGrows DEF LifecycleInv, StreamInv
  <2>4. QED
    BY <2>1, <2>3, RunIdle
<1>5. QED
  BY <1>1, <1>2, <1>3, <1>4 DEF Next, Deliver, vars

\* A run comes in where its attempt stands, its own claim is the next event, and
\* whatever it has made of the attempt since (stopped, displaced, nil) the stream
\* shows (handle.go, Run and its verdict helpers).
THEOREM RunInvariance ==
  ASSUME ForeignRefold = FALSE
  PROVE  Spec => [](LifecycleInv /\ StreamInv /\ RunInv)
<1>1. Init => RunInv
  BY InitRuns
<1>2. LifecycleInv /\ StreamInv /\ RunInv /\ [Next]_vars => RunInv'
  BY NextTells
<1>3. QED
  BY <1>1, <1>2, StreamInvariance, PTL DEF Spec

\* Run's documented results (handle.go, Run): nil only for an attempt that has ended,
\* and that never comes back; ErrRunnerDisplaced only once another runner has claimed
\* the attempt, after the fold this run started from.
THEOREM LifecycleRunVerdict ==
  ASSUME ForeignRefold = FALSE
  PROVE  Spec => []RunVerdict
<1>1. LifecycleInv /\ StreamInv /\ RunInv => RunVerdict
  <2>1. SUFFICES ASSUME LifecycleInv, StreamInv, RunInv, NEW h \in Runner
                 PROVE  /\ handle[h].result = "nil" =>
                             StateAt(Tip).attempt.id # handle[h].runAttempt
                        /\ handle[h].result = "displaced" =>
                             \E i \in handle[h].entry + 1 .. Tip :
                               /\ log[i].event.type = "RunnerClaimed"
                               /\ log[i].event.attempt = handle[h].runAttempt
                               /\ log[i].event.runner # h
    BY DEF RunVerdict
  <2> DEFINE q == handle[h]
  <2>2. /\ Entered(h, q, log) /\ Told(h, q, log) /\ q.view \in 0 .. Len(log)
        /\ Len(log) = Tip /\ Tip \in Nat /\ Folded(log) /\ q.entry \in 0 .. q.view
    BY <2>1, RunKept DEF StreamInv
  <2>3. ASSUME q.result = "nil"
        PROVE  StateAt(Tip).attempt.id # q.runAttempt
    <3>1. q.runAttempt # 0 /\ EndedIn(log, q.entry, q.runAttempt)
      BY <2>2, <2>3 DEF Told
    <3>2. AttemptIn(log, q.entry).id = q.runAttempt
      BY <2>2, <3>1 DEF Entered
    <3>3. PICK i \in q.entry .. Len(log) : AttemptIn(log, i).id # q.runAttempt
      BY <3>1 DEF EndedIn
    <3>4. q.entry \in 0 .. Len(log) /\ Tip \in i .. Len(log)
      BY <2>2
    <3>5. AttemptIn(log, Tip).id # AttemptIn(log, q.entry).id
      BY <2>2, <3>1, <3>2, <3>3, <3>4, EndedStays
    <3>6. QED
      BY <3>2, <3>5, ViewIn DEF AttemptIn
  <2>4. ASSUME q.result = "displaced"
        PROVE  RivalIn(log, q.entry, q.runAttempt, h)
    BY <2>2, <2>4 DEF Told
  <2>5. QED
    BY <2>2, <2>3, <2>4 DEF RivalIn
<1>2. QED
  BY <1>1, RunInvariance, PTL

-----------------------------------------------------------------------------
(* The builders: taken over only as documented, an attempt has one.         *)

\* A processor that has not exited, or a claim recorded that will start one.
Builds(r) == r.processor \in {"running", "returned"} \/ r.cmd.op = "observe"

\* The run is past its processor for good, or its process is gone.
Over(r) == r.alive = "gone" \/ r.stage \in {"releasing", "done"}

\* A run that is ending has no processor, and none but such a run releases its
\* claim; one that is driving its attempt on is not ending.
Exits(r) ==
  /\ r.stage \in {"closing", "releasing", "done"} => r.processor \in {"none", "exited"}
  /\ r.cmd.op = "release" => r.stage = "releasing"
  /\ r.cmd.op \in Driven => r.stage \notin {"closing", "releasing", "done"}

\* Only its own run's end releases a claim.
Frees(h, r) ==
  r.cmd.op \in SaveOps \cup RetireOps /\ r.cmd.evs[1].type = "RunnerReleased" =>
    r.cmd.op = "release" /\ r.cmd.evs[1].runner = h

\* Nobody builds attempt id.
Vacated(id) == \A h \in Runner : Builds(handle[h]) => handle[h].runAttempt # id

Standpoint == AttemptIn(log, Len(log))

\* Whoever builds the standing attempt holds it.
BuilderHolds ==
  \A h \in Runner :
    Builds(handle[h]) /\ Standpoint.id = handle[h].runAttempt => Standpoint.runner = h

\* Whoever released an attempt is past its processor.
ReleaserOver ==
  \A i \in 1 .. Len(log), h \in Runner :
    AttemptIn(log, i).released /\ AttemptIn(log, i).runner = h => Over(handle[h])

OneEach ==
  \A g \in Runner, h \in Runner :
    g # h /\ Builds(handle[g]) /\ Builds(handle[h]) =>
      handle[g].runAttempt # handle[h].runAttempt

\* A claim that may still be recorded is of an attempt that nobody builds; a release,
\* by someone past its processor.
MayLand(evs) ==
  /\ evs[1].type = "RunnerClaimed" => Vacated(Standpoint.id)
  /\ evs[1].type = "RunnerReleased" =>
       evs[1].runner \in Runner /\ Over(handle[evs[1].runner])

Claimable(r) == r.cmd.op = "claim" /\ r.view = Len(log) => Vacated(Standpoint.id)

BuildInv ==
  /\ \A h \in Runner :
       Exits(handle[h]) /\ Frees(h, handle[h]) /\ Claimable(handle[h])
  /\ BuilderHolds
  /\ ReleaserOver
  /\ OneEach
  /\ \A evs \in inflight : MayLand(evs)

LEMMA OverBuildsNothing ==
  ASSUME NEW q, Stages(q), Posture(q), Exits(q), Over(q)
  PROVE  ~Builds(q)
<1>1. q.alive = "gone" => q.processor = "none" /\ q.cmd.op # "observe"
  BY DEF Stages, Posture, Unstarted, NoCommand
<1>2. q.stage \in {"releasing", "done"} =>
        q.processor \notin {"running", "returned"} /\ q.cmd.op # "observe"
  BY DEF Stages, Exits
<1>3. QED
  BY <1>1, <1>2 DEF Over, Builds

\* A step of runner h that builds nothing new, claims nothing but an attempt that
\* nobody builds, and takes back no end.
Wanes(h, q, r) ==
  /\ Builds(r) => Builds(q) /\ r.runAttempt = q.runAttempt
  /\ r.cmd.op = "claim" =>
       \/ q.cmd.op = "claim" /\ r.view = q.view
       \/ r.view = Len(log) /\ Vacated(Standpoint.id)
  /\ Over(q) => Over(r)
  /\ Exits(r) /\ Frees(h, r)

LEMMA WanesSelf ==
  ASSUME BuildInv, NEW g \in Runner
  PROVE  Wanes(g, handle[g], handle[g])
BY DEF BuildInv, Wanes

LEMMA VacatedStays ==
  ASSUME \A g \in Runner : Wanes(g, handle[g], handle'[g]), NEW id, Vacated(id)
  PROVE  \A g \in Runner : Builds(handle'[g]) => handle'[g].runAttempt # id
BY DEF Vacated, Wanes

\* A step that records nothing: what may land now is what could, or the save of a
\* claim or a release just given up.
LEMMA UnrecordedWane ==
  ASSUME LifecycleInv, StreamInv, BuildInv, UNCHANGED log, NEW h \in Runner, NEW r,
         Update(h, r), Wanes(h, handle[h], r),
         \A evs \in inflight' : evs \in inflight \/
           /\ evs = handle[h].cmd.evs /\ handle[h].cmd.op \in SaveOps
           /\ handle[h].view = Len(log)
           /\ handle[h].cmd.op = "release" => Over(r)
  PROVE  BuildInv'
<1>1. /\ \A g \in Runner : Wanes(g, handle[g], handle'[g])
      /\ handle'[h] = r
  BY WanesSelf DEF Update, LifecycleInv
<1>2. Standpoint' = Standpoint /\ Len(log') = Len(log)
  BY DEF Standpoint, AttemptIn, StateIn
<1>3. ASSUME Vacated(Standpoint.id) PROVE Vacated(Standpoint.id)'
  BY <1>1, <1>2, <1>3, VacatedStays DEF Vacated
<1>4. ASSUME NEW g \in Runner
      PROVE  (Exits(handle[g]) /\ Frees(g, handle[g]) /\ Claimable(handle[g]))'
  <2>1. Wanes(g, handle[g], handle'[g]) /\ Claimable(handle[g])
    BY <1>1 DEF BuildInv
  <2>2. Exits(handle'[g]) /\ Frees(g, handle'[g])
    BY <2>1 DEF Wanes
  <2>3. ASSUME handle'[g].cmd.op = "claim", handle'[g].view = Len(log)
        PROVE  Vacated(Standpoint.id)
    BY <2>1, <2>3 DEF Wanes, Claimable
  <2>4. Claimable(handle[g])'
    BY <1>2, <1>3, <2>3 DEF Claimable
  <2>5. QED
    BY <2>2, <2>4
<1>5. BuilderHolds'
  BY <1>1, <1>2 DEF BuildInv, BuilderHolds, Wanes
<1>6. ReleaserOver'
  BY <1>1, <1>2 DEF BuildInv, ReleaserOver, Wanes
<1>7. OneEach'
  BY <1>1 DEF BuildInv, OneEach, Wanes
<1>8. ASSUME NEW evs \in inflight' PROVE MayLand(evs)'
  <2>1. CASE evs \in inflight
    BY <1>1, <1>2, <1>3, <2>1 DEF BuildInv, MayLand, Wanes
  <2>2. CASE evs \notin inflight
    <3> DEFINE q == handle[h]
    <3>1. /\ evs = q.cmd.evs /\ q.cmd.op \in SaveOps /\ q.view = Len(log)
          /\ q.cmd.op = "release" => Over(r)
      BY <2>2
    <3>2. /\ q.cmd.op # "claim" => q.cmd.evs[1].type # "RunnerClaimed"
          /\ Claimable(q) /\ Frees(h, q)
      BY <3>1 DEF StreamInv, Keeps, Pends, BuildInv
    <3>3. evs[1].type = "RunnerClaimed" => Vacated(Standpoint.id)
      BY <3>1, <3>2 DEF Claimable
    <3>4. evs[1].type = "RunnerReleased" => evs[1].runner = h /\ Over(handle'[h])
      BY <1>1, <3>1, <3>2 DEF Frees
    <3>5. QED
      BY <1>3, <3>3, <3>4 DEF MayLand
  <2>3. QED
    BY <2>1, <2>2
<1>9. QED
  BY <1>4, <1>5, <1>6, <1>7, <1>8 DEF BuildInv

LEMMA WaneStep ==
  ASSUME LifecycleInv, StreamInv, BuildInv, UNCHANGED <<log, inflight>>,
         NEW h \in Runner, NEW r, Update(h, r), Wanes(h, handle[h], r)
  PROVE  BuildInv'
BY UnrecordedWane

\* Who holds the attempt, and whether it is released, from one version to the next.
LEMMA HolderMoves ==
  ASSUME NEW l, Len(l) \in Nat, Folded(l), NEW i \in 1 .. Len(l)
  PROVE  LET a == AttemptIn(l, i - 1)
             b == AttemptIn(l, i)
             e == l[i].event
         IN  /\ e.type # "RunnerClaimed" /\ b.id = a.id /\ b.id # 0 => b.runner = a.runner
             /\ e.type = "RunnerClaimed" => b.runner = e.runner /\ ~b.released /\ b.id = a.id
             /\ b.released /\ b.runner \in Runner =>
                  \/ a.released /\ b.runner = a.runner
                  \/ e.type = "RunnerReleased" /\ b.runner = e.runner
             /\ e.type = "BuildStarted" =>
                  b.runner = a.runner /\ b.released = a.released /\ b.id = a.id
<1> DEFINE s == StateIn(l, i - 1)
           t == StateIn(l, i)
           e == l[i].event
<1>1. Effect(e, s, t) /\ Sound(s) /\ e.type \in EventType
  BY FoldedStep
<1>2. s.attempt.phase = "none" => s.attempt.id = 0
  BY <1>1, SoundAttempt
<1>3. s.attempt = AttemptIn(l, i - 1) /\ t.attempt = AttemptIn(l, i)
  BY DEF AttemptIn
<1> HIDE DEF s, t, e
<1>4. CASE e.type \in {"RolledBack", "Abandoned", "PreviousRetired"}
  BY <1>1, <1>3, <1>4, NoRunnerAssumption DEF Effect, NoAttempt, e
<1>5. CASE e.type \in {"RebuildInitiated", "RetirementPolicySet"}
  BY <1>1, <1>2, <1>3, <1>5 DEF Effect, e
<1>6. CASE e.type \in {"RunnerClaimed", "RunnerReleased"}
  BY <1>1, <1>3, <1>6 DEF Effect, SameAttempt, e
<1>7. CASE e.type \in {"BuildStarted", "CaughtUp", "Promoted", "RetireStarted"}
  BY <1>1, <1>3, <1>7 DEF Effect, SameClaim, SameAttempt, e
<1>8. QED
  BY <1>1, <1>4, <1>5, <1>6, <1>7 DEF EventType

\* The same of an append, which is one event, or a claim and the start of the build.
LEMMA AppendHolds ==
  ASSUME LifecycleInv, StreamInv, NEW k, NEW evs, Writes(k, evs, StateIn(log, Tip)),
         log' = Recorded(evs)
  PROVE  /\ Extends(log, log') /\ Folded(log') /\ Len(log) < Len(log') /\ Len(log) = Tip
         /\ \A i \in Len(log) + 1 .. Len(log') :
              LET a == Standpoint
                  b == AttemptIn(log', i)
                  e == evs[1]
              IN  /\ e.type # "RunnerClaimed" /\ b.id = a.id /\ b.id # 0 => b.runner = a.runner
                  /\ e.type = "RunnerClaimed" => b.runner = e.runner /\ ~b.released /\ b.id = a.id
                  /\ b.released /\ b.runner \in Runner =>
                       \/ a.released /\ b.runner = a.runner
                       \/ e.type = "RunnerReleased" /\ b.runner = e.runner
<1> DEFINE e == evs[1]
           n == Len(log)
<1>1. LogOK /\ Folded(log) /\ Len(log) = Tip /\ Tip \in Nat
  BY DEF LifecycleInv, StreamInv, LogOK, Tip
<1>2. Extends(log, log') /\ Folded(log') /\ log'[n + 1].event = e
  BY <1>1, AppendGrows
<1>3. Len(log') \in Nat /\ n \in Nat /\ n \in 0 .. Len(log)
  BY <1>2 DEF Extends
<1>4. AttemptIn(log', n) = Standpoint
  BY <1>2, <1>3, StatesStay DEF Standpoint
<1>5. \/ Len(log') = n + 1
      \/ /\ Len(log') = n + 2 /\ log'[n + 2].event.type = "BuildStarted"
         /\ e.type = "RunnerClaimed"
  <2>1. CASE evs = <<evs[1]>>
    BY <1>1, <2>1, RecordedOne
  <2>2. CASE evs = <<evs[1], BuildStarted>> /\ evs[1].type = "RunnerClaimed"
    <3>1. evs[2] = BuildStarted /\ evs = <<evs[1], evs[2]>>
      BY <2>2
    <3>2. Len(log') = n + 2 /\ log'[n + 2].event = BuildStarted
      BY <1>1, <3>1, RecordedTwo
    <3>3. QED
      BY <2>2, <3>2 DEF BuildStarted
  <2>3. QED
    BY <2>1, <2>2 DEF Writes, Accepted
<1> HIDE DEF e, n
<1>6. n + 1 \in 1 .. Len(log') /\ (n + 1) - 1 = n
  BY <1>3, <1>5
<1>7. LET a == Standpoint
          b == AttemptIn(log', n + 1)
      IN  /\ e.type # "RunnerClaimed" /\ b.id = a.id /\ b.id # 0 => b.runner = a.runner
          /\ e.type = "RunnerClaimed" => b.runner = e.runner /\ ~b.released /\ b.id = a.id
          /\ b.released /\ b.runner \in Runner =>
               \/ a.released /\ b.runner = a.runner
               \/ e.type = "RunnerReleased" /\ b.runner = e.runner
  BY <1>2, <1>3, <1>4, <1>6, HolderMoves
<1>8. CASE Len(log') = n + 1
  <2>1. \A i \in n + 1 .. Len(log') : i = n + 1
    BY <1>3, <1>8
  <2>2. Len(log) < Len(log')
    BY <1>3, <1>8 DEF n
  <2>3. QED
    BY <1>1, <1>2, <1>7, <2>1, <2>2 DEF e, n
<1>9. CASE /\ Len(log') = n + 2 /\ log'[n + 2].event.type = "BuildStarted"
           /\ e.type = "RunnerClaimed"
  <2>1. n + 2 \in 1 .. Len(log') /\ (n + 2) - 1 = n + 1
    BY <1>3, <1>9
  <2>2. /\ AttemptIn(log', n + 2).runner = AttemptIn(log', n + 1).runner
        /\ AttemptIn(log', n + 2).released = AttemptIn(log', n + 1).released
        /\ AttemptIn(log', n + 2).id = AttemptIn(log', n + 1).id
    BY <1>2, <1>3, <1>9, <2>1, HolderMoves
  <2>3. \A i \in n + 1 .. Len(log') : i = n + 1 \/ i = n + 2
    BY <1>3, <1>9
  <2>4. Len(log) < Len(log')
    BY <1>3, <1>9 DEF n
  <2>5. QED
    BY <1>1, <1>2, <1>7, <1>9, <2>2, <2>3, <2>4 DEF e, n
<1>10. QED
  BY <1>5, <1>8, <1>9

\* Runner g, about to claim the attempt in view, has claimed it with events evs.
Takes(g, q, r, evs) ==
  /\ evs[1].type = "RunnerClaimed" /\ evs[1].runner = g
  /\ r.runAttempt = Standpoint.id /\ r.cmd.op # "claim"
  /\ ~Over(q) /\ Exits(r) /\ Frees(g, r)

\* An attempt somebody builds is not one of a later version, unless it stood before.
LEMMA BuiltBefore ==
  ASSUME LifecycleInv, StreamInv, RunInv, Extends(log, log'), Folded(log'),
         NEW g \in Runner, Builds(handle[g]),
         AttemptIn(log', Len(log')).id = handle[g].runAttempt
  PROVE  Standpoint.id = handle[g].runAttempt /\ handle[g].runAttempt # 0
<1> DEFINE q == handle[g]
           i == q.entry
<1>1. Entered(g, q, log) /\ q.entry \in 0 .. q.view /\ q.view \in 0 .. Len(log)
  BY RunKept
<1>2. q.runAttempt # 0 /\ AttemptIn(log, i).id = q.runAttempt
  BY <1>1 DEF Builds, Entered
<1>3. /\ i \in 0 .. Len(log) /\ i \in 0 .. Len(log') /\ Len(log) \in i .. Len(log')
      /\ Len(log') \in Len(log) .. Len(log') /\ Len(log) \in 0 .. Len(log) /\ Len(log') \in Nat
  BY <1>1 DEF Extends
<1>4. AttemptIn(log', i) = AttemptIn(log, i) /\ AttemptIn(log', Len(log)) = Standpoint
  BY <1>3, StatesStay DEF Standpoint
<1> HIDE DEF i
<1>5. QED
  BY <1>2, <1>3, <1>4, EndedStays

LEMMA AppendWane ==
  ASSUME LifecycleInv, StreamInv, RunInv, BuildInv, NEW k, NEW evs,
         Writes(k, evs, StateIn(log, Tip)), log' = Recorded(evs), inflight' = {},
         evs[1].type = "RunnerClaimed" => Vacated(Standpoint.id),
         evs[1].type = "RunnerReleased" =>
           evs[1].runner \in Runner /\ Over(handle'[evs[1].runner]),
         \A g \in Runner : \/ Wanes(g, handle[g], handle'[g])
                           \/ Takes(g, handle[g], handle'[g], evs)
  PROVE  BuildInv'
<1> DEFINE a == Standpoint
           b(i) == AttemptIn(log', i)
           e == evs[1]
           claimed == e.type = "RunnerClaimed"
<1>1. /\ Extends(log, log') /\ Folded(log') /\ Len(log) < Len(log') /\ Len(log) = Tip
      /\ \A i \in Len(log) + 1 .. Len(log') :
           /\ ~claimed /\ b(i).id = a.id /\ b(i).id # 0 => b(i).runner = a.runner
           /\ claimed => b(i).runner = e.runner /\ ~b(i).released /\ b(i).id = a.id
           /\ b(i).released /\ b(i).runner \in Runner =>
                \/ a.released /\ b(i).runner = a.runner
                \/ e.type = "RunnerReleased" /\ b(i).runner = e.runner
  BY AppendHolds
<1>2. /\ Len(log) \in Nat /\ Len(log') \in Nat /\ Len(log) \in 0 .. Len(log)
      /\ Len(log') \in Len(log) + 1 .. Len(log')
  BY <1>1 DEF Extends
<1>3. Standpoint' = b(Len(log'))
  BY DEF Standpoint, AttemptIn, StateIn
<1>4. ASSUME NEW g \in Runner PROVE (Exits(handle[g]) /\ Frees(g, handle[g]) /\ Claimable(handle[g]))'
  <2>1. Exits(handle'[g]) /\ Frees(g, handle'[g])
    BY DEF Wanes, Takes
  <2>2. handle'[g].cmd.op = "claim" => handle'[g].view # Len(log')
    <3>1. handle[g].view \in 0 .. Len(log)
      BY RunKept
    <3>2. handle'[g].cmd.op = "claim" => handle'[g].view \in {handle[g].view, Len(log)}
      BY DEF Wanes, Takes
    <3>3. QED
      BY <1>1, <1>2, <3>1, <3>2
  <2>3. QED
    BY <2>1, <2>2 DEF Claimable
<1> HIDE DEF a, b, e, claimed
<1>5. ASSUME NEW g \in Runner, Builds(handle'[g]), b(Len(log')).id = handle'[g].runAttempt
      PROVE  b(Len(log')).runner = g
  <2>1. CASE Takes(g, handle[g], handle'[g], evs)
    BY <1>1, <1>2, <2>1 DEF Takes, claimed, e
  <2>2. CASE Wanes(g, handle[g], handle'[g])
    <3>1. Builds(handle[g]) /\ handle'[g].runAttempt = handle[g].runAttempt
      BY <1>5, <2>2 DEF Wanes
    <3>2. a.id = handle[g].runAttempt /\ handle[g].runAttempt # 0
      BY <1>1, <1>5, <3>1, BuiltBefore DEF a, b
    <3>3. a.runner = g
      BY <3>1, <3>2 DEF BuildInv, BuilderHolds, a
    <3>4. ~claimed
      BY <3>1, <3>2 DEF Vacated, a, claimed, e
    <3>5. QED
      BY <1>1, <1>2, <1>5, <3>1, <3>2, <3>3, <3>4
  <2>3. QED
    BY <2>1, <2>2
<1>6. ASSUME NEW i \in 1 .. Len(log'), NEW g \in Runner, b(i).released, b(i).runner = g
      PROVE  Over(handle'[g])
  <2>1. ASSUME NEW j \in 0 .. Len(log), AttemptIn(log, j).released, AttemptIn(log, j).runner = g
        PROVE  Over(handle'[g])
    <3>1. j # 0
      BY <2>1, NoRunnerAssumption DEF AttemptIn, StateIn, NewState, NoAttempt
    <3>2. Over(handle[g])
      BY <1>2, <2>1, <3>1 DEF BuildInv, ReleaserOver
    <3>3. QED
      BY <3>2 DEF Wanes, Takes
  <2>2. CASE i \in 1 .. Len(log)
    <3>1. b(i) = AttemptIn(log, i) /\ i \in 0 .. Len(log)
      BY <1>1, <2>2, StatesStay DEF b
    <3>2. QED
      BY <1>6, <2>1, <3>1
  <2>3. CASE i \notin 1 .. Len(log)
    <3>1. i \in Len(log) + 1 .. Len(log')
      BY <1>2, <2>3
    <3>2. CASE a.released /\ b(i).runner = a.runner
      BY <1>2, <1>6, <2>1, <3>2 DEF a, Standpoint
    <3>3. CASE e.type = "RunnerReleased" /\ b(i).runner = e.runner
      BY <1>6, <3>3 DEF e
    <3>4. QED
      BY <1>1, <1>6, <3>1, <3>2, <3>3
  <2>4. QED
    BY <2>2, <2>3
<1>7. ASSUME NEW g \in Runner, NEW h \in Runner, g # h, Builds(handle'[g]), Builds(handle'[h])
      PROVE  handle'[g].runAttempt # handle'[h].runAttempt
  <2>1. ASSUME NEW x \in Runner, NEW y \in Runner, Takes(x, handle[x], handle'[x], evs),
               Wanes(y, handle[y], handle'[y]), Builds(handle'[y])
        PROVE  handle'[x].runAttempt # handle'[y].runAttempt
    BY <2>1 DEF Takes, Wanes, Vacated
  <2>2. CASE Wanes(g, handle[g], handle'[g]) /\ Wanes(h, handle[h], handle'[h])
    BY <1>7, <2>2 DEF Wanes, BuildInv, OneEach
  <2>3. ~(Takes(g, handle[g], handle'[g], evs) /\ Takes(h, handle[h], handle'[h], evs))
    BY <1>7 DEF Takes
  <2>4. QED
    BY <1>7, <2>1, <2>2, <2>3
<1>8. BuilderHolds' /\ ReleaserOver' /\ OneEach'
  <2>1. BuilderHolds'
    BY <1>3, <1>5 DEF BuilderHolds
  <2>2. ReleaserOver'
    BY <1>6 DEF ReleaserOver, b, AttemptIn, StateIn
  <2>3. OneEach'
    BY <1>7 DEF OneEach
  <2>4. QED
    BY <2>1, <2>2, <2>3
<1>9. QED
  BY <1>4, <1>8 DEF BuildInv

\* What a step that starts nothing does to the record of a handle.
LEMMA Fades ==
  ASSUME NEW h, NEW q, NEW r, Exits(q), Frees(h, q),
         r.runAttempt = q.runAttempt, r.alive = q.alive,
         \/ r.processor \in {q.processor, "exited"}
         \/ q.processor = "running" /\ r.processor = "returned",
         \/ r.stage = q.stage
         \/ /\ q.stage \notin {"releasing", "done"}
            /\ \/ r.stage \notin {"closing", "releasing", "done"}
               \/ r.processor \in {"none", "exited"}
         \/ q.stage = "releasing" /\ r.stage = "done",
         \/ /\ r.cmd = q.cmd
            /\ r.cmd.op = "claim" => r.view = q.view
            /\ r.cmd.op \in Driven \cup {"release"} => r.stage = q.stage
         \/ /\ r.cmd.op \notin {"claim", "observe", "release"}
            /\ r.cmd.op \in Driven => r.stage \notin {"closing", "releasing", "done"}
            /\ r.cmd.op \in SaveOps \cup RetireOps => r.cmd.evs[1].type # "RunnerReleased"
  PROVE  Wanes(h, q, r)
<1>1. Builds(r) => Builds(q)
  BY DEF Builds
<1>2. r.cmd.op = "claim" => q.cmd.op = "claim" /\ r.view = q.view
  OBVIOUS
<1>3. Over(q) => Over(r)
  BY DEF Over
<1>4. Exits(r)
  BY DEF Exits
<1>5. Frees(h, r)
  BY DEF Frees
<1>6. QED
  BY <1>1, <1>2, <1>3, <1>4, <1>5 DEF Wanes

\* A handle without a run.
LEMMA NewWanes ==
  ASSUME NEW h, NEW q, NEW x, ~Over(q) \/ x = "gone"
  PROVE  /\ Wanes(h, q, [NewHandle EXCEPT !.alive = x])
         /\ ~Over(q) => Wanes(h, q, NewHandle)
<1>1. ASSUME NEW r, r.processor = "none", r.stage = "idle", r.cmd = NoCommand,
             ~Over(q) \/ r.alive = "gone"
      PROVE  Wanes(h, q, r)
  <2>1. r.cmd.op = "none"
    BY <1>1 DEF NoCommand
  <2>2. r.cmd.op \notin SaveOps \cup RetireOps
    BY <2>1 DEF SaveOps, RetireOps
  <2>3. QED
    BY <1>1, <2>1, <2>2 DEF Wanes, Builds, Over, Exits, Frees, Driven
<1>2. PICK r : r = [NewHandle EXCEPT !.alive = x]
  OBVIOUS
<1>3. r.processor = "none" /\ r.stage = "idle" /\ r.cmd = NoCommand /\ r.alive = x
  BY <1>2 DEF NewHandle
<1>4. Wanes(h, q, r)
  BY <1>1, <1>3
<1>5. PICK p : p = NewHandle
  OBVIOUS
<1>6. p.processor = "none" /\ p.stage = "idle" /\ p.cmd = NoCommand
  BY <1>5 DEF NewHandle
<1>7. ~Over(q) => Wanes(h, q, p)
  BY <1>1, <1>6
<1>8. QED
  BY <1>2, <1>4, <1>5, <1>7

LEMMA BuildKept ==
  ASSUME LifecycleInv, StreamInv, RunInv, BuildInv, NEW h \in Runner
  PROVE  /\ Exits(handle[h]) /\ Frees(h, handle[h]) /\ Stages(handle[h]) /\ Posture(handle[h])
         /\ DOMAIN handle[h] = DOMAIN NewHandle
BY RunKept, StreamKept DEF BuildInv

\* Any save but a claim's.
LEMMA SaveWanes ==
  ASSUME LifecycleInv, StreamInv, RunInv, BuildInv, NEW h \in Runner,
         NEW op \in SaveOps \ {"claim"}, NEW outcome, Saves(h, op, outcome), NEW r,
         Update(h, r), Wanes(h, handle[h], r), op = "release" => Over(r)
  PROVE  BuildInv'
<1> DEFINE q == handle[h]
           evs == q.cmd.evs
<1>1. /\ q.cmd.op = op /\ Keeps(h, q, log) /\ Frees(h, q) /\ Len(log) = Tip
  BY StreamKept, BuildKept DEF Saves, Tip
<1>2. /\ Writes(h, evs, StateIn(log, q.view)) /\ evs[1].type # "RunnerClaimed"
      /\ evs[1].type = "RunnerReleased" => op = "release" /\ evs[1].runner = h
  BY <1>1 DEF Keeps, Pends, Frees
<1>3. handle'[h] = r /\ \A g \in Runner : Wanes(g, handle[g], handle'[g])
  BY WanesSelf DEF Update, LifecycleInv
<1>4. CASE Tip = q.view /\ log' = Recorded(evs) /\ inflight' = {}
  BY <1>2, <1>3, <1>4, AppendWane
<1>5. CASE UNCHANGED log /\ inflight' \subseteq inflight \cup (IF Tip = q.view THEN {evs} ELSE {})
  <2>1. ASSUME NEW e \in inflight', e \notin inflight PROVE e = evs /\ q.view = Len(log)
    BY <1>1, <1>5, <2>1
  <2>2. QED
    BY <1>1, <1>5, <2>1, UnrecordedWane
<1>6. QED
  BY <1>4, <1>5 DEF Saves, Unmoved

LEMMA LandWanes ==
  ASSUME LifecycleInv, StreamInv, RunInv, BuildInv, Land
  PROVE  BuildInv'
<1>1. PICK evs \in inflight : log' = Recorded(evs) /\ inflight' = {} /\ UNCHANGED handle
  BY DEF Land
<1>2. PICK k \in Runner : Writes(k, evs, StateIn(log, Tip))
  BY DEF StreamInv, Lands
<1>3. MayLand(evs)
  BY DEF BuildInv
<1>4. \A g \in Runner : Wanes(g, handle[g], handle'[g])
  BY <1>1, WanesSelf
<1>5. QED
  BY <1>1, <1>2, <1>3, <1>4, AppendWane DEF MayLand

LEMMA CrashWanes ==
  ASSUME LifecycleInv, StreamInv, RunInv, BuildInv, NEW h \in Runner, Crash(h)
  PROVE  BuildInv'
<1>1. PICK r : r = [NewHandle EXCEPT !.alive = "gone"] /\ Update(h, r)
  BY DEF Crash
<1>2. Wanes(h, handle[h], r) /\ Over(r)
  BY <1>1, NewWanes DEF Over, NewHandle
<1>3. UNCHANGED log /\ Len(log) = Tip
  BY DEF Crash, Tip
<1>4. ASSUME NEW e \in inflight', e \notin inflight
      PROVE  e = handle[h].cmd.evs /\ handle[h].cmd.op \in SaveOps /\ handle[h].view = Len(log)
  BY <1>3, <1>4 DEF Crash, Unmoved
<1>5. QED
  BY <1>1, <1>2, <1>3, <1>4, UnrecordedWane

\* The record of a save that has been answered.
LEMMA AnsweredFades ==
  ASSUME LifecycleInv, StreamInv, RunInv, BuildInv, NEW h \in Runner,
         NEW op \in SaveOps, NEW outcome, Saves(h, op, outcome)
  PROVE  LET q == handle[h]
             a == Answered(h, outcome)
         IN  /\ SameRun(q, a) /\ DOMAIN a = DOMAIN NewHandle /\ a.alive = q.alive
             /\ a.cmd.op = "none" /\ q.cmd.op = op
             /\ Exits(q) /\ Frees(h, q) /\ Stages(q) /\ Posture(q)
BY AnsweredTells, AnsweredCarries, BuildKept

\* A save whose answer starts nothing.
LEMMA SaveFades ==
  ASSUME LifecycleInv, StreamInv, RunInv, BuildInv, NEW h \in Runner,
         NEW op \in SaveOps \ {"claim", "release"}, NEW outcome, Saves(h, op, outcome), NEW r,
         Update(h, r), r.runAttempt = handle[h].runAttempt, r.alive = handle[h].alive,
         r.processor = handle[h].processor, r.cmd.op \in {"none", "reattest"},
         \/ r.stage = handle[h].stage
         \/ /\ handle[h].stage \notin {"releasing", "done"}
            /\ r.stage \notin {"closing", "releasing", "done"}
  PROVE  BuildInv'
<1>1. Exits(handle[h]) /\ Frees(h, handle[h])
  BY BuildKept
<1>2. r.cmd.op \notin {"claim", "observe", "release"} \cup Driven \cup SaveOps \cup RetireOps
  BY DEF SaveOps, RetireOps, Driven
<1>3. Wanes(h, handle[h], r)
  BY <1>1, <1>2, Fades
<1>4. QED
  BY <1>3, SaveWanes

LEMMA OpeningSaveWanes ==
  ASSUME LifecycleInv, StreamInv, RunInv, BuildInv, NEW h \in Runner, NEW outcome,
         BeginSave(h, outcome) \/ PolicySave(h, outcome)
  PROVE  BuildInv'
<1> DEFINE q == handle[h]
<1>1. PICK op : op \in {"begin", "policy"} /\ Saves(h, op, outcome)
  BY DEF BeginSave, PolicySave
<1>2. op \in SaveOps \ {"claim", "release"}
  BY <1>1 DEF SaveOps
<1>3. PICK a : a = Answered(h, outcome)
  OBVIOUS
<1>4. /\ SameRun(q, a) /\ DOMAIN a = DOMAIN NewHandle /\ a.cmd.op = "none" /\ q.cmd.op = op
      /\ Stages(q) /\ Posture(q)
  BY <1>1, <1>2, <1>3, AnsweredFades
<1>5. ~Over(q) /\ q.stage = "idle" /\ q.processor = "none"
  BY <1>1, <1>4 DEF Stages, Posture, Over, Unstarted
<1>6. CASE Update(h, NewHandle)
  <2>1. PICK r : r = NewHandle /\ Update(h, r)
    BY <1>6
  <2>2. Wanes(h, q, r)
    BY <1>5, <2>1, NewWanes
  <2>3. QED
    BY <1>1, <1>2, <2>1, <2>2, SaveWanes
<1>7. CASE Update(h, [a EXCEPT !.alive = "open"])
  <2>1. PICK r : r = [a EXCEPT !.alive = "open"] /\ Update(h, r)
    BY <1>7
  <2>2. r.processor = "none" /\ r.stage = "idle" /\ r.cmd.op = "none"
    BY <1>4, <1>5, <2>1 DEF NewHandle, SameRun
  <2>3. r.cmd.op \notin SaveOps \cup RetireOps \cup Driven
    BY <2>2 DEF SaveOps, RetireOps, Driven
  <2>4. Wanes(h, q, r)
    BY <1>5, <2>2, <2>3 DEF Wanes, Builds, Exits, Frees
  <2>5. QED
    BY <1>1, <1>2, <2>1, <2>4, SaveWanes
<1>8. Update(h, NewHandle) \/ Update(h, [a EXCEPT !.alive = "open"])
  <2>1. CASE BeginSave(h, outcome)
    BY <1>3, <2>1 DEF BeginSave
  <2>2. CASE PolicySave(h, outcome)
    BY <2>2 DEF PolicySave
  <2>3. QED
    BY <2>1, <2>2
<1>9. QED
  BY <1>6, <1>7, <1>8

LEMMA CatchUpSaveWanes ==
  ASSUME LifecycleInv, StreamInv, RunInv, BuildInv, NEW h \in Runner, NEW outcome,
         CatchUpSave(h, outcome)
  PROVE  BuildInv'
<1> DEFINE q == handle[h]
<1>1. Saves(h, "catchup", outcome) /\ "catchup" \in SaveOps \ {"claim", "release"}
  BY DEF CatchUpSave, SaveOps
<1>2. PICK a : a = Answered(h, outcome)
  OBVIOUS
<1>3. /\ SameRun(q, a) /\ DOMAIN a = DOMAIN NewHandle /\ a.alive = q.alive
      /\ a.cmd.op = "none" /\ q.cmd.op = "catchup" /\ Exits(q)
  BY <1>1, <1>2, AnsweredFades
<1>4. q.stage \notin {"releasing", "done"}
  BY <1>3 DEF Exits, Driven
<1>5. PICK r : /\ Update(h, r) /\ r.runAttempt = a.runAttempt /\ r.alive = a.alive
               /\ r.processor = a.processor /\ r.cmd = a.cmd
               /\ r.stage \in {"promoting", "tailing", "winding"}
  <2>1. CASE outcome = "ok"
    <3>1. PICK s \in {"promoting", "tailing"} :
            Update(h, [a EXCEPT !.stage = s,
                         !.certificate = [attempt  |-> handle[h].runAttempt,
                                          position |-> handle[h].cmd.evs[1].position,
                                          version  |-> a.view]])
      BY <1>2, <2>1 DEF CatchUpSave
    <3>2. PICK c, r : r = [a EXCEPT !.stage = s, !.certificate = c] /\ Update(h, r)
      BY <3>1, Zenon
    <3>3. /\ r.runAttempt = a.runAttempt /\ r.alive = a.alive
          /\ r.processor = a.processor /\ r.cmd = a.cmd /\ r.stage = s
      BY <1>3, <3>2 DEF NewHandle
    <3>4. QED
      BY <3>2, <3>3
  <2>2. CASE outcome # "ok"
    <3>1. PICK slot, r : /\ slot = LostSlot(h, outcome)
                         /\ r = [a EXCEPT !.stage = "winding", !.cancel = TRUE, !.slot = slot]
                         /\ Update(h, r)
      BY <1>2, <2>2, Zenon DEF CatchUpSave
    <3>2. /\ r.runAttempt = a.runAttempt /\ r.alive = a.alive
          /\ r.processor = a.processor /\ r.cmd = a.cmd /\ r.stage = "winding"
      BY <1>3, <3>1 DEF NewHandle
    <3>3. QED
      BY <3>1, <3>2
  <2>3. QED
    BY <2>1, <2>2
<1>6. /\ r.runAttempt = q.runAttempt /\ r.alive = q.alive /\ r.processor = q.processor
      /\ r.cmd.op = "none"
  BY <1>3, <1>5 DEF SameRun
<1>7. QED
  BY <1>1, <1>4, <1>5, <1>6, SaveFades

LEMMA PromotionSaveWanes ==
  ASSUME LifecycleInv, StreamInv, RunInv, BuildInv, NEW h \in Runner, NEW outcome,
         PromoteSave(h, outcome) \/ PromoteAfterCatchUpSave(h, outcome)
           \/ ResolveRetrySave(h, outcome)
  PROVE  BuildInv'
<1> DEFINE q == handle[h]
<1>1. PICK op : op \in PromoteOps /\ Saves(h, op, outcome)
               /\ (PromoteSave(h, outcome) \/ op \in Driven)
  BY DEF PromoteSave, PromoteAfterCatchUpSave, ResolveRetrySave, PromoteOps, Driven
<1>2. op \in SaveOps \ {"claim", "release"}
  BY <1>1 DEF SaveOps, PromoteOps
<1>3. PICK a : a = Answered(h, outcome)
  OBVIOUS
<1>4. /\ SameRun(q, a) /\ DOMAIN a = DOMAIN NewHandle /\ a.alive = q.alive
      /\ a.cmd.op = "none" /\ q.cmd.op = op /\ Exits(q)
  BY <1>1, <1>2, <1>3, AnsweredFades
<1>5. op \in Driven => q.stage \notin {"releasing", "done"}
  BY <1>4 DEF Exits
<1>6. PICK c, slot, r :
        /\ \/ r = [a EXCEPT !.certificate = c]
           \/ /\ op \in Driven
              /\ \/ r = a
                 \/ r = [a EXCEPT !.certificate = c, !.stage = "tailing"]
                 \/ r = [a EXCEPT !.stage = "tailing"]
                 \/ r = [a EXCEPT !.stage = "resolving", !.slot = slot]
                 \/ r = [a EXCEPT !.stage = "winding", !.cancel = TRUE, !.slot = slot]
        /\ Update(h, r)
  <2>1. CASE PromoteSave(h, outcome)
    BY <1>3, <2>1 DEF PromoteSave
  <2>2. CASE PromoteAfterCatchUpSave(h, outcome) /\ op \in Driven
    <3>1. CASE outcome = "ok"
      BY <1>3, <2>2, <3>1 DEF PromoteAfterCatchUpSave
    <3>2. CASE outcome = "appended"
      BY <1>3, <2>2, <3>2 DEF PromoteAfterCatchUpSave
    <3>3. CASE outcome = "unknown"
      BY <1>3, <2>2, <3>3 DEF PromoteAfterCatchUpSave
    <3>4. CASE outcome \notin {"ok", "appended", "unknown"}
      BY <1>3, <2>2, <3>4 DEF PromoteAfterCatchUpSave
    <3>5. QED
      BY <3>1, <3>2, <3>3, <3>4
  <2>3. CASE ResolveRetrySave(h, outcome) /\ op \in Driven
    BY <1>3, <2>3, Zenon DEF ResolveRetrySave
  <2>4. QED
    BY <1>1, <2>1, <2>2, <2>3
<1>7. /\ r.runAttempt = q.runAttempt /\ r.alive = q.alive /\ r.processor = q.processor
      /\ r.cmd.op = "none"
      /\ \/ r.stage = q.stage
         \/ op \in Driven /\ r.stage \in {"tailing", "resolving", "winding"}
  <2>1. /\ r.runAttempt = a.runAttempt /\ r.alive = a.alive /\ r.processor = a.processor
        /\ r.cmd = a.cmd
        /\ \/ r.stage = a.stage
           \/ op \in Driven /\ r.stage \in {"tailing", "resolving", "winding"}
    BY <1>4, <1>6 DEF NewHandle
  <2>2. QED
    BY <1>4, <2>1 DEF SameRun
<1>8. QED
  BY <1>1, <1>2, <1>5, <1>6, <1>7, SaveFades

LEMMA ReleaseClaimSaveWanes ==
  ASSUME LifecycleInv, StreamInv, RunInv, BuildInv, NEW h \in Runner, NEW outcome,
         ReleaseClaimSave(h, outcome)
  PROVE  BuildInv'
<1> DEFINE q == handle[h]
<1>1. Saves(h, "release", outcome) /\ "release" \in SaveOps \ {"claim"}
  BY DEF ReleaseClaimSave, SaveOps
<1>2. PICK a, r : /\ a = Answered(h, outcome) /\ r = [a EXCEPT !.stage = "done"]
                  /\ Update(h, r)
  BY DEF ReleaseClaimSave
<1>3. /\ SameRun(q, a) /\ DOMAIN a = DOMAIN NewHandle /\ a.alive = q.alive
      /\ a.cmd.op = "none" /\ q.cmd.op = "release" /\ Exits(q) /\ Frees(h, q)
  BY <1>1, <1>2, AnsweredFades
<1>4. /\ r.runAttempt = a.runAttempt /\ r.alive = a.alive /\ r.processor = a.processor
      /\ r.cmd = a.cmd /\ r.stage = "done"
  BY <1>2, <1>3 DEF NewHandle
<1>5. /\ r.runAttempt = q.runAttempt /\ r.alive = q.alive /\ r.processor = q.processor
      /\ q.stage = "releasing" /\ r.cmd.op = "none"
  BY <1>3, <1>4 DEF SameRun, Exits
<1>6. r.cmd.op \notin {"claim", "observe", "release"} \cup Driven \cup SaveOps \cup RetireOps
  BY <1>5 DEF SaveOps, RetireOps, Driven
<1>7. Wanes(h, q, r)
  BY <1>3, <1>4, <1>5, <1>6, Fades
<1>8. Over(r)
  BY <1>4 DEF Over
<1>9. QED
  BY <1>1, <1>2, <1>7, <1>8, SaveWanes

\* A command's save that leaves the run where it stands.
LEMMA CommandSaveWanes ==
  ASSUME LifecycleInv, StreamInv, RunInv, BuildInv, NEW h \in Runner, NEW outcome,
         \/ EndSave(h, "rollback", outcome) \/ EndSave(h, "abandon", outcome)
         \/ ReserveSave(h, outcome) \/ RecordRetirement(h, outcome)
  PROVE  BuildInv'
<1> DEFINE q == handle[h]
<1>1. PICK op : op \in {"rollback", "abandon", "reserve", "complete"} /\ Saves(h, op, outcome)
  BY DEF EndSave, ReserveSave, RecordRetirement
<1>2. op \in SaveOps \ {"claim", "release"}
  BY <1>1 DEF SaveOps
<1>3. PICK a : a = Answered(h, outcome)
  OBVIOUS
<1>4. /\ SameRun(q, a) /\ DOMAIN a = DOMAIN NewHandle /\ a.alive = q.alive
      /\ a.cmd.op = "none"
  BY <1>1, <1>2, <1>3, AnsweredFades
<1>5. PICK c, r : /\ c.op = "reattest"
                  /\ \/ r = a
                     \/ r = [a EXCEPT !.stopped = TRUE, !.cancel = TRUE,
                                      !.commandEnded = q.runAttempt]
                     \/ r = [a EXCEPT !.cmd = c]
                  /\ Update(h, r)
  <2>1. PICK c : c = Pending("reattest", q.cmd.evs)
    OBVIOUS
  <2>2. c.op = "reattest"
    BY <2>1 DEF Pending
  <2>3. \/ Update(h, a)
        \/ Update(h, [a EXCEPT !.stopped = TRUE, !.cancel = TRUE, !.commandEnded = q.runAttempt])
        \/ Update(h, [a EXCEPT !.cmd = c])
    <3>1. CASE EndSave(h, "rollback", outcome) \/ EndSave(h, "abandon", outcome)
      BY <1>3, <3>1 DEF EndSave
    <3>2. CASE ReserveSave(h, outcome)
      BY <1>3, <2>1, <3>2 DEF ReserveSave
    <3>3. CASE RecordRetirement(h, outcome)
      BY <1>3, <3>3 DEF RecordRetirement
    <3>4. QED
      BY <3>1, <3>2, <3>3
  <2>4. QED
    BY <2>2, <2>3
<1>6. /\ r.runAttempt = a.runAttempt /\ r.alive = a.alive /\ r.processor = a.processor
      /\ r.stage = a.stage /\ r.cmd \in {a.cmd, c}
  BY <1>4, <1>5 DEF NewHandle
<1>7. /\ r.runAttempt = q.runAttempt /\ r.alive = q.alive /\ r.processor = q.processor
      /\ r.stage = q.stage /\ r.cmd.op \in {"none", "reattest"}
  BY <1>4, <1>5, <1>6 DEF SameRun
<1>8. QED
  BY <1>1, <1>2, <1>5, <1>7, SaveFades

-----------------------------------------------------------------------------
(* Steps of the run, and of the commands, that record nothing.              *)

\* A step that starts nothing, and leaves the command and the view alone.
LEMMA RunFades ==
  ASSUME LifecycleInv, StreamInv, RunInv, BuildInv, NEW h \in Runner, NEW r, Update(h, r),
         UNCHANGED <<log, inflight>>,
         r.runAttempt = handle[h].runAttempt, r.alive = handle[h].alive,
         r.cmd = handle[h].cmd,
         r.view = handle[h].view \/ handle[h].cmd = NoCommand,
         \/ r.processor \in {handle[h].processor, "exited"}
         \/ handle[h].processor = "running" /\ r.processor = "returned",
         \/ r.stage = handle[h].stage
         \/ /\ handle[h].cmd = NoCommand
            /\ \/ /\ handle[h].stage \notin {"releasing", "done"}
                  /\ \/ r.stage \notin {"closing", "releasing", "done"}
                     \/ r.processor \in {"none", "exited"}
               \/ handle[h].stage = "releasing" /\ r.stage = "done"
  PROVE  BuildInv'
<1>1. Exits(handle[h]) /\ Frees(h, handle[h])
  BY BuildKept
<1>2. NoCommand.op \notin Driven \cup {"claim", "observe", "release"}
  BY DEF NoCommand, Driven
<1>3. Wanes(h, handle[h], r)
  BY <1>1, <1>2, Fades
<1>4. QED
  BY <1>3, WaneStep

LEMMA ProcessorWanes ==
  ASSUME LifecycleInv, StreamInv, RunInv, BuildInv, NEW h \in Runner,
         ProcessorReturn(h) \/ PublishProcessorExit(h) \/ CancelRun(h) \/ ReconcileExit(h)
           \/ Drained(h) \/ ClassifyExit(h)
  PROVE  BuildInv'
<1> DEFINE q == handle[h]
<1>1. /\ DOMAIN q = DOMAIN NewHandle /\ UNCHANGED <<log, inflight>> /\ Exits(q)
  BY BuildKept DEF ProcessorReturn, PublishProcessorExit, CancelRun, ReconcileExit, Drained,
                   ClassifyExit
<1>2. CASE ProcessorReturn(h)
  <2>1. PICK r : r = [q EXCEPT !.processor = "returned"] /\ Update(h, r)
    BY <1>2 DEF ProcessorReturn
  <2>2. q.processor = "running"
    BY <1>2 DEF ProcessorReturn
  <2>3. QED
    BY <1>1, <2>1, <2>2, RunFades DEF NewHandle
<1>3. CASE PublishProcessorExit(h)
  <2>1. PICK r : /\ r = [q EXCEPT !.processor = "exited", !.certificate = NoCertificate]
                 /\ Update(h, r)
    BY <1>3 DEF PublishProcessorExit
  <2>2. QED
    BY <1>1, <2>1, RunFades DEF NewHandle
<1>4. CASE CancelRun(h)
  <2>1. PICK r : r = [q EXCEPT !.ctxDone = TRUE, !.cancel = TRUE] /\ Update(h, r)
    BY <1>4 DEF CancelRun
  <2>2. QED
    BY <1>1, <2>1, RunFades DEF NewHandle
<1>5. CASE ReconcileExit(h)
  <2>1. PICK r : r = [q EXCEPT !.reconciling = FALSE] /\ Update(h, r)
    BY <1>5 DEF ReconcileExit
  <2>2. QED
    BY <1>1, <2>1, RunFades DEF NewHandle
<1>6. CASE Drained(h)
  <2>1. PICK r : r = [q EXCEPT !.stage = "closing", !.cancel = TRUE] /\ Update(h, r)
    BY <1>6 DEF Drained
  <2>2. q.processor = "exited" /\ q.stage \in {"catchup", "tailing"} /\ q.cmd = NoCommand
    BY <1>6 DEF Drained, Joined, Unlocked
  <2>3. /\ r.runAttempt = q.runAttempt /\ r.alive = q.alive /\ r.cmd = q.cmd
        /\ r.view = q.view /\ r.processor = q.processor
    BY <1>1, <2>1 DEF NewHandle
  <2>4. QED
    BY <1>1, <2>1, <2>2, <2>3, RunFades
<1>7. CASE ClassifyExit(h)
  <2>1. PICK x, r : /\ r = [q EXCEPT !.stage = "releasing", !.certificate = NoCertificate,
                                     !.result = x]
                    /\ Update(h, r)
    BY <1>7, Zenon DEF ClassifyExit
  <2>2. q.stage = "closing" /\ q.cmd = NoCommand
    BY <1>7 DEF ClassifyExit, Unlocked
  <2>3. /\ r.runAttempt = q.runAttempt /\ r.alive = q.alive /\ r.cmd = q.cmd
        /\ r.view = q.view /\ r.processor = q.processor
    BY <1>1, <2>1 DEF NewHandle
  <2>4. q.processor \in {"none", "exited"}
    BY <1>1, <2>2 DEF Exits
  <2>5. QED
    BY <1>1, <2>1, <2>2, <2>3, <2>4, RunFades
<1>8. QED
  BY <1>2, <1>3, <1>4, <1>5, <1>6, <1>7

LEMMA ReconcileFailWanes ==
  ASSUME LifecycleInv, StreamInv, RunInv, BuildInv, NEW h \in Runner, ReconcileFail(h)
  PROVE  BuildInv'
<1> DEFINE q == handle[h]
<1>1. /\ DOMAIN q = DOMAIN NewHandle /\ UNCHANGED <<log, inflight>> /\ q.cmd = NoCommand
  BY BuildKept DEF ReconcileFail, Unlocked
<1>2. PICK p, r : /\ \/ p = q
                     \/ p = [q EXCEPT !.stopped = TRUE, !.failure = "reconcile",
                                      !.certificate = NoCertificate]
                  /\ r = [p EXCEPT !.cancel = TRUE, !.reconciling = FALSE]
                  /\ Update(h, r)
  BY Zenon DEF ReconcileFail, TerminalStop
<1>3. /\ DOMAIN p = DOMAIN NewHandle /\ p.runAttempt = q.runAttempt /\ p.alive = q.alive
      /\ p.cmd = q.cmd /\ p.processor = q.processor /\ p.stage = q.stage
  BY <1>1, <1>2 DEF NewHandle
<1>4. /\ r.runAttempt = q.runAttempt /\ r.alive = q.alive
      /\ r.cmd = q.cmd /\ r.processor = q.processor /\ r.stage = q.stage
  BY <1>2, <1>3 DEF NewHandle
<1>5. QED
  BY <1>1, <1>2, <1>4, RunFades

LEMMA ReconcileWanes ==
  ASSUME LifecycleInv, StreamInv, RunInv, BuildInv, NEW h \in Runner, NEW v \in 0 .. Tip,
         Reconcile(h, v)
  PROVE  BuildInv'
<1> DEFINE q == handle[h]
           s == StateAt(v)
           over == Superseded(h, s)
<1>1. /\ DOMAIN q = DOMAIN NewHandle /\ UNCHANGED <<log, inflight>> /\ q.cmd = NoCommand
      /\ ~q.stopped
  BY BuildKept DEF Reconcile, Unlocked
<1>2. CASE Valid(s)
  <2>1. PICK f, c, k, b, r :
          /\ f = (IF Displaced(h, s) THEN "displaced" ELSE q.failure)
          /\ r = [q EXCEPT !.view = v, !.stopped = over, !.failure = f, !.certificate = c,
                           !.cancel = k, !.reconciling = b]
          /\ Update(h, r)
    BY <1>2, Zenon DEF Reconcile
  <2>2. /\ r.runAttempt = q.runAttempt /\ r.alive = q.alive
        /\ r.cmd = q.cmd /\ r.processor = q.processor /\ r.stage = q.stage
    BY <1>1, <2>1 DEF NewHandle
  <2>3. QED
    BY <1>1, <2>1, <2>2, RunFades
<1>3. CASE ~Valid(s)
  <2>1. PICK r : /\ r = [[q EXCEPT !.stopped = TRUE, !.failure = "invalid",
                                   !.certificate = NoCertificate]
                           EXCEPT !.cancel = TRUE, !.reconciling = FALSE]
                 /\ Update(h, r)
    BY <1>1, <1>3 DEF Reconcile, TerminalStop
  <2>2. /\ r.runAttempt = q.runAttempt /\ r.alive = q.alive
        /\ r.cmd = q.cmd /\ r.processor = q.processor /\ r.stage = q.stage
    BY <1>1, <2>1 DEF NewHandle
  <2>3. QED
    BY <1>1, <2>1, <2>2, RunFades
<1>4. QED
  BY <1>2, <1>3

\* The wait for a lost promotion, and the wind-down after a lost append.
LEMMA LossWanes ==
  ASSUME LifecycleInv, StreamInv, RunInv, BuildInv, NEW h \in Runner,
         ResolveHalt(h) \/ ResolveSlot(h) \/ Wound(h)
  PROVE  BuildInv'
<1> DEFINE q == handle[h]
<1>1. /\ DOMAIN q = DOMAIN NewHandle /\ UNCHANGED <<log, inflight>> /\ q.cmd = NoCommand
      /\ q.stage \in {"resolving", "winding"} /\ q.slot \in Nat /\ Tip \in Nat
  BY BuildKept, Shape, Zenon DEF ResolveHalt, ResolveSlot, Wound, Open, Unlocked
<1>2. PICK p : p = SlotDefeat(h, q.slot)
  OBVIOUS
<1>3. q.slot \in 0 .. Tip =>
        /\ p.runAttempt = q.runAttempt /\ p.alive = q.alive /\ p.cmd = q.cmd
        /\ DOMAIN p = DOMAIN NewHandle
  BY <1>2, DefeatCarries DEF Carries
<1>4. ASSUME q.slot \in 1 .. Tip PROVE p.processor = q.processor
  <2>1. q.slot > q.entry /\ q.processor # "none"
    BY <1>1, <1>4, BuildKept DEF Posture, Engaged
  <2>2. QED
    BY <1>2, <1>4, <2>1, DefeatTells
<1>5. ASSUME NEW r, Update(h, r), r.runAttempt = q.runAttempt, r.alive = q.alive,
             r.cmd = q.cmd, r.processor = q.processor,
             \/ r.stage \in {"winding", "tailing"}
             \/ r.stage = "closing" /\ q.processor = "exited"
      PROVE  BuildInv'
  BY <1>1, <1>5, RunFades
<1>6. CASE ResolveHalt(h)
  <2>1. PICK slot, r : /\ r = [q EXCEPT !.stage = "winding", !.cancel = TRUE, !.slot = slot]
                       /\ Update(h, r)
    BY <1>6, Zenon DEF ResolveHalt, Winding
  <2>2. /\ r.runAttempt = q.runAttempt /\ r.alive = q.alive
        /\ r.cmd = q.cmd /\ r.processor = q.processor /\ r.stage = "winding"
    BY <1>1, <2>1 DEF NewHandle
  <2>3. QED
    BY <1>5, <2>1, <2>2
<1>7. CASE ResolveSlot(h)
  <2>1. q.slot \in 1 .. Tip /\ q.slot \in 0 .. Tip
    <3>1. q.stage = "resolving" /\ Tip >= q.slot
      BY <1>7, Zenon DEF ResolveSlot
    <3>2. q.slot # 0
      BY <3>1, BuildKept DEF Posture
    <3>3. QED
      BY <1>1, <3>1, <3>2
  <2>2. CASE \E n : Update(h, [q EXCEPT !.view = n, !.certificate = NoCertificate,
                                        !.stage = "tailing"])
    <3>1. PICK n, r : /\ r = [q EXCEPT !.view = n, !.certificate = NoCertificate,
                                       !.stage = "tailing"]
                      /\ Update(h, r)
      BY <2>2, Zenon
    <3>2. /\ r.runAttempt = q.runAttempt /\ r.alive = q.alive
          /\ r.cmd = q.cmd /\ r.processor = q.processor /\ r.stage = "tailing"
      BY <1>1, <3>1 DEF NewHandle
    <3>3. QED
      BY <1>5, <3>1, <3>2
  <2>3. CASE Update(h, Winding(p, 0))
    <3>1. PICK r : /\ r = [p EXCEPT !.stage = "winding", !.cancel = TRUE, !.slot = 0]
                   /\ Update(h, r)
      BY <2>3 DEF Winding
    <3>2. /\ r.runAttempt = p.runAttempt /\ r.alive = p.alive
          /\ r.cmd = p.cmd /\ r.processor = p.processor /\ r.stage = "winding"
      BY <1>3, <2>1, <3>1 DEF NewHandle
    <3>3. QED
      BY <1>3, <1>4, <1>5, <2>1, <3>1, <3>2
  <2>4. QED
    BY <1>2, <1>7, <2>2, <2>3, Zenon DEF ResolveSlot
<1>8. CASE Wound(h)
  <2>1. PICK b, r : /\ b = q \/ (q.slot \in 1 .. Tip /\ b = p)
                    /\ r = [b EXCEPT !.stage = "closing"] /\ Update(h, r)
    BY <1>2, <1>8 DEF Wound
  <2>2. /\ b.runAttempt = q.runAttempt /\ b.alive = q.alive /\ b.cmd = q.cmd
        /\ DOMAIN b = DOMAIN NewHandle /\ b.processor = q.processor
    <3>1. CASE b = q
      BY <1>1, <3>1
    <3>2. CASE q.slot \in 1 .. Tip /\ b = p
      <4>1. q.slot \in 0 .. Tip
        BY <3>2
      <4>2. QED
        BY <1>3, <1>4, <3>2, <4>1
    <3>3. QED
      BY <2>1, <3>1, <3>2
  <2>3. /\ r.runAttempt = b.runAttempt /\ r.alive = b.alive
        /\ r.cmd = b.cmd /\ r.processor = b.processor /\ r.stage = "closing"
    BY <2>1, <2>2 DEF NewHandle
  <2>4. q.processor = "exited"
    BY <1>8 DEF Wound, Joined
  <2>5. QED
    BY <1>5, <2>1, <2>2, <2>3, <2>4
<1>9. QED
  BY <1>6, <1>7, <1>8

-----------------------------------------------------------------------------
(* Commands that record nothing.                                            *)

\* A build that is begun stays within the bound on versions.
Bounded(evs) == evs[1].type = "RebuildInitiated" => evs[1].target <= MaxVersion

\* A command that claims nothing and releases nothing.
Plain(c) ==
  /\ c.op \notin {"claim", "observe", "release"}
  /\ c.op \in SaveOps \cup RetireOps =>
       c.evs[1].type # "RunnerReleased" /\ Bounded(c.evs)

LEMMA NoCommandPlain == NoCommand.op = "none" /\ Plain(NoCommand)
<1>1. NoCommand.op = "none"
  BY DEF NoCommand
<1>2. QED
  BY <1>1 DEF Plain, SaveOps, RetireOps

\* The command in hand is changed to c, and perhaps the view.
Asks(h, c) ==
  \/ Update(h, [handle[h] EXCEPT !.view = Tip, !.cmd = c])
  \/ Update(h, [handle[h] EXCEPT !.cmd = c])

PlainAsk(h) ==
  \E c : /\ Asks(h, c) /\ Plain(c)
         /\ c.op \in Driven => handle[h].stage \notin {"closing", "releasing", "done"}

LEMMA AskWanes ==
  ASSUME LifecycleInv, StreamInv, RunInv, BuildInv, UNCHANGED <<log, inflight>>,
         NEW h \in Runner, PlainAsk(h)
  PROVE  BuildInv'
<1> DEFINE q == handle[h]
<1>1. Exits(q) /\ Frees(h, q) /\ DOMAIN q = DOMAIN NewHandle
  BY BuildKept
<1>2. PICK c, r : /\ Update(h, r)
                  /\ \/ r = [q EXCEPT !.view = Tip, !.cmd = c]
                     \/ r = [q EXCEPT !.cmd = c]
                  /\ Plain(c)
                  /\ c.op \in Driven => q.stage \notin {"closing", "releasing", "done"}
  BY Zenon DEF PlainAsk, Asks
<1>3. /\ r.runAttempt = q.runAttempt /\ r.alive = q.alive /\ r.processor = q.processor
      /\ r.stage = q.stage /\ r.cmd = c
  BY <1>1, <1>2 DEF NewHandle
<1>4. Wanes(h, q, r)
  BY <1>1, <1>2, <1>3, Fades DEF Plain
<1>5. QED
  BY <1>2, <1>4, WaneStep

LEMMA LoadAsks ==
  ASSUME NEW h, BeginLoad(h) \/ (\E W \in SUBSET Witness : PolicyLoad(h, W))
  PROVE  PlainAsk(h)
<1>1. CASE BeginLoad(h)
  <2>1. PICK n, e, c : /\ n <= MaxVersion /\ \E x, y : e = RebuildInitiated(x, n, y)
                       /\ c = Pending("begin", <<e>>)
                       /\ Update(h, [handle[h] EXCEPT !.view = Tip, !.cmd = c])
    BY <1>1, Zenon DEF BeginLoad
  <2>2. Plain(c) /\ c.op \notin Driven
    BY <2>1 DEF Plain, Bounded, Pending, Driven, RebuildInitiated
  <2>3. QED
    BY <2>1, <2>2, Zenon DEF PlainAsk, Asks
<1>2. ASSUME NEW W, PolicyLoad(h, W)
      PROVE  PlainAsk(h)
  <2>1. PICK e : /\ \E x, y, z : e = RetirementPolicySet(x, W, y, z)
                 /\ Update(h, [handle[h] EXCEPT !.view = Tip, !.cmd = Pending("policy", <<e>>)])
    BY <1>2, Zenon DEF PolicyLoad
  <2>2. PICK c : c = Pending("policy", <<e>>)
    OBVIOUS
  <2>3. Plain(c) /\ c.op \notin Driven
    BY <2>1, <2>2 DEF Plain, Bounded, Pending, Driven, RetirementPolicySet
  <2>4. QED
    BY <2>1, <2>2, <2>3, Zenon DEF PlainAsk, Asks
<1>3. QED
  BY <1>1, <1>2

LEMMA ResumeWanes ==
  ASSUME LifecycleInv, StreamInv, RunInv, BuildInv, NEW h \in Runner, Resume(h)
  PROVE  BuildInv'
<1> DEFINE q == handle[h]
<1>1. UNCHANGED <<log, inflight>> /\ q.alive = "new" /\ q.cmd = NoCommand
  BY DEF Resume, Unlocked
<1>2. PICK r : r = [q EXCEPT !.alive = "open", !.view = Tip] /\ Update(h, r)
  BY DEF Resume
<1>3. Stages(q) /\ Posture(q) /\ DOMAIN q = DOMAIN NewHandle
  BY BuildKept
<1>4. q.stage = "idle" /\ q.processor = "none"
  BY <1>1, <1>3 DEF Stages, Posture, Unstarted
<1>5. /\ r.processor = "none" /\ r.stage = "idle" /\ r.cmd = NoCommand
      /\ r.runAttempt = q.runAttempt
  BY <1>1, <1>2, <1>3, <1>4 DEF NewHandle
<1>6. r.cmd.op = "none" /\ r.cmd.op \notin SaveOps \cup RetireOps
  BY <1>5, NoCommandPlain DEF SaveOps, RetireOps
<1>7. Wanes(h, q, r)
  BY <1>1, <1>4, <1>5, <1>6 DEF Wanes, Builds, Over, Exits, Frees, Driven
<1>8. QED
  BY <1>1, <1>2, <1>7, WaneStep

LEMMA EndAsks ==
  ASSUME NEW h, Rollback(h) \/ Abandon(h)
  PROVE  PlainAsk(h)
<1>1. PICK c : /\ Update(h, [handle[h] EXCEPT !.view = Tip, !.cmd = c])
               /\ \/ c = NoCommand
                  \/ \E x, y, z : c = Pending("rollback", <<RolledBack(x, y, z)>>)
                  \/ c = Pending("abandon", <<Abandoned>>)
  BY Zenon DEF Rollback, Abandon
<1>2. Plain(c) /\ c.op \notin Driven
  <2>1. CASE c = NoCommand
    BY <2>1, NoCommandPlain DEF Driven
  <2>2. CASE c # NoCommand
    BY <1>1, <2>2 DEF Plain, Bounded, Pending, RolledBack, Abandoned, Driven
  <2>3. QED
    BY <2>1, <2>2
<1>3. QED
  BY <1>1, <1>2, Zenon DEF PlainAsk, Asks

LEMMA RetireEventPlain ==
  ASSUME NEW s, NEW override
  PROVE  RetireEvent(s, override).type \in {"RetireStarted", "PreviousRetired"}
BY Zenon DEF RetireEvent, PreviousRetired, RetireStarted

LEMMA RetireAsks ==
  ASSUME NEW h, (\E override \in BOOLEAN : Retire(h, override)) \/ Reattest(h)
  PROVE  PlainAsk(h)
<1> DEFINE s == StateAt(Tip)
           going(override) ==
             [op   |-> IF s.attempt.previous = 0 THEN "complete" ELSE "preflight",
              evs  |-> <<RetireEvent(s, override)>>,
              todo |-> IF s.attempt.previous = 0 THEN {}
                       ELSE RequiredWitnesses(s, override)]
           again == [op |-> "recheck", evs |-> <<RetireEvent(s, FALSE)>>,
                     todo |-> s.attempt.retiringWitnesses]
<1>1. ASSUME NEW c, Asks(h, c), c.op \in {"none", "complete", "preflight", "recheck"},
             c = NoCommand \/ c.evs[1].type \in {"RetireStarted", "PreviousRetired"}
      PROVE  PlainAsk(h)
  <2>1. Plain(c) /\ c.op \notin Driven
    BY <1>1, NoCommandPlain DEF Plain, Bounded, Driven
  <2>2. QED
    BY <1>1, <2>1 DEF PlainAsk
<1>2. /\ NoCommand.op = "none"
      /\ again.op = "recheck" /\ again.evs[1].type \in {"RetireStarted", "PreviousRetired"}
      /\ \A override :
           /\ going(override).op \in {"complete", "preflight"}
           /\ going(override).evs[1].type \in {"RetireStarted", "PreviousRetired"}
  BY NoCommandPlain, RetireEventPlain
<1>3. CASE \E override \in BOOLEAN : Retire(h, override)
  <2>1. PICK override, refused : Asks(h, IF refused THEN NoCommand ELSE going(override))
    BY <1>3, Zenon DEF Retire, Asks
  <2>2. Asks(h, NoCommand) \/ Asks(h, going(override))
    BY <2>1
  <2> HIDE DEF going
  <2>3. QED
    BY <1>1, <1>2, <2>2
<1>4. CASE Reattest(h)
  <2>1. Asks(h, NoCommand) \/ \E through : Asks(h, IF through THEN again ELSE NoCommand)
    BY <1>4, Zenon DEF Reattest, AbortRetire, Asks
  <2>2. Asks(h, NoCommand) \/ Asks(h, again)
    BY <2>1
  <2> HIDE DEF again
  <2>3. QED
    BY <1>1, <1>2, <2>2
<1>5. QED
  BY <1>3, <1>4

LEMMA DestructionAsks ==
  ASSUME LifecycleInv, NEW h \in Runner,
         (\E w \in Witness : Attest(h, w)) \/ Attested(h) \/ Teardown(h) \/ DropCheckpoint(h)
  PROVE  PlainAsk(h)
<1> DEFINE d == handle[h].cmd
<1>1. d.op \in RetireOps
  BY DEF Attest, Attested, Teardown, DropCheckpoint, RetireOps
<1>2. /\ d.evs[1].type \in {"RetireStarted", "PreviousRetired"}
      /\ DOMAIN handle[h] = DOMAIN NewHandle
  BY <1>1, Shape DEF SoundHandle, Retiring
<1>3. DOMAIN d = {"op", "evs", "todo"}
  BY Shape DEF IsCommand
<1>4. PICK c : /\ Update(h, [handle[h] EXCEPT !.cmd = c])
               /\ \/ c = NoCommand
                  \/ c.op \in RetireOps \cup {"reserve", "complete"} /\ c.evs = d.evs
  <2>1. CASE AbortRetire(h)
    BY <2>1 DEF AbortRetire
  <2>2. CASE \E w : Update(h, [handle[h] EXCEPT !.cmd.todo = @ \ {w}])
    <3>1. PICK w : Update(h, [handle[h] EXCEPT !.cmd.todo = @ \ {w}])
      BY <2>2
    <3>2. PICK c : c = [d EXCEPT !.todo = @ \ {w}]
      OBVIOUS
    <3>3. Update(h, [handle[h] EXCEPT !.cmd = c]) /\ c.op = d.op /\ c.evs = d.evs
      BY <1>2, <1>3, <3>1, <3>2 DEF NewHandle
    <3>4. QED
      BY <1>1, <3>3
  <2>3. CASE \E x \in {"reserve", "teardown", "drop", "complete"} :
               Update(h, [handle[h] EXCEPT !.cmd.op = x])
    <3>1. PICK x \in {"reserve", "teardown", "drop", "complete"} :
            Update(h, [handle[h] EXCEPT !.cmd.op = x])
      BY <2>3
    <3>2. PICK c : c = [d EXCEPT !.op = x]
      OBVIOUS
    <3>3. Update(h, [handle[h] EXCEPT !.cmd = c]) /\ c.op = x /\ c.evs = d.evs
      BY <1>2, <1>3, <3>1, <3>2 DEF NewHandle
    <3>4. QED
      BY <3>1, <3>3 DEF RetireOps
  <2>4. QED
    BY <2>1, <2>2, <2>3 DEF Attest, Attested, Teardown, DropCheckpoint
<1>5. Plain(c) /\ c.op \notin Driven
  <2>1. CASE c = NoCommand
    BY <2>1, NoCommandPlain DEF Driven
  <2>2. CASE c # NoCommand
    BY <1>2, <1>4, <2>2 DEF Plain, Bounded, RetireOps, Driven
  <2>3. QED
    BY <2>1, <2>2
<1>6. QED
  BY <1>4, <1>5 DEF PlainAsk, Asks

LEMMA CommandWanes ==
  ASSUME LifecycleInv, StreamInv, RunInv, BuildInv, NEW h \in Runner,
         \/ BeginLoad(h) \/ \E W \in SUBSET Witness : PolicyLoad(h, W)
         \/ Rollback(h) \/ Abandon(h)
         \/ (\E override \in BOOLEAN : Retire(h, override)) \/ Reattest(h)
         \/ (\E w \in Witness : Attest(h, w)) \/ Attested(h) \/ Teardown(h)
         \/ DropCheckpoint(h)
  PROVE  BuildInv'
<1>1. PlainAsk(h)
  BY LoadAsks, EndAsks, RetireAsks, DestructionAsks
<1>2. UNCHANGED <<log, inflight>>
  BY Zenon DEF BeginLoad, PolicyLoad, Rollback, Abandon, Retire, Reattest, Attest, Attested,
     Teardown, DropCheckpoint
<1>3. QED
  BY <1>1, <1>2, AskWanes

LEMMA PromotionWanes ==
  ASSUME LifecycleInv, StreamInv, RunInv, BuildInv, NEW h \in Runner,
         Promote(h) \/ PromoteAfterCatchUp(h) \/ ResolveRetry(h)
  PROVE  BuildInv'
<1> DEFINE q == handle[h]
           p == PromotionRefused(h)
<1>1. /\ DOMAIN q = DOMAIN NewHandle /\ DOMAIN p = DOMAIN NewHandle
      /\ p.runAttempt = q.runAttempt /\ p.alive = q.alive /\ p.processor = q.processor
      /\ p.cmd = q.cmd /\ p.view = q.view /\ p.stage = q.stage
  BY BuildKept DEF PromotionRefused, NewHandle
<1>2. UNCHANGED <<log, inflight>> /\ q.cmd = NoCommand
  BY DEF Promote, PromoteAfterCatchUp, ResolveRetry, Open, Unlocked
<1> HIDE DEF p
<1>3. CASE Update(h, p)
  BY <1>1, <1>2, <1>3, RunFades
<1>4. ASSUME NEW op \in PromoteOps, NEW e, e.type = "Promoted",
             Update(h, [q EXCEPT !.cmd = Pending(op, <<e>>)]),
             op # "promote" => q.stage \in {"promoting", "resolving"}
      PROVE  BuildInv'
  <2>1. PICK c : c = Pending(op, <<e>>)
    OBVIOUS
  <2>2. Plain(c) /\ c.op = op
    BY <1>4, <2>1 DEF Plain, Bounded, Pending, PromoteOps
  <2>3. c.op \in Driven => q.stage \notin {"closing", "releasing", "done"}
    BY <1>4, <2>2 DEF Driven
  <2>4. PlainAsk(h)
    BY <1>4, <2>1, <2>2, <2>3, Zenon DEF PlainAsk, Asks
  <2>5. QED
    BY <1>2, <2>4, AskWanes
<1>5. CASE /\ q.stage = "promoting"
           /\ Update(h, [p EXCEPT !.stage = "winding", !.cancel = TRUE])
  <2>1. PICK r : r = [p EXCEPT !.stage = "winding", !.cancel = TRUE] /\ Update(h, r)
    BY <1>5
  <2>2. /\ r.runAttempt = q.runAttempt /\ r.alive = q.alive /\ r.processor = q.processor
        /\ r.cmd = q.cmd /\ r.view = q.view /\ r.stage = "winding"
    BY <1>1, <2>1 DEF NewHandle
  <2>3. QED
    BY <1>2, <1>5, <2>1, <2>2, RunFades
<1>6. PICK e : e = Promotion(h)
  OBVIOUS
<1>7. e.type = "Promoted" /\ {"promote", "autopromote", "retry"} \subseteq PromoteOps
  BY <1>6 DEF Promotion, Promoted, PromoteOps
<1>8. CASE Promote(h)
  <2>1. Update(h, [q EXCEPT !.cmd = Pending("promote", <<e>>)]) \/ Update(h, p)
    BY <1>6, <1>8 DEF Promote, p
  <2>2. QED
    BY <1>3, <1>4, <1>7, <2>1
<1>9. CASE PromoteAfterCatchUp(h)
  <2>1. /\ q.stage = "promoting"
        /\ \/ Update(h, [q EXCEPT !.cmd = Pending("autopromote", <<e>>)])
           \/ Update(h, [p EXCEPT !.stage = "winding", !.cancel = TRUE])
    BY <1>6, <1>9 DEF PromoteAfterCatchUp, p
  <2>2. QED
    BY <1>4, <1>5, <1>7, <2>1
<1>10. CASE ResolveRetry(h)
  <2>1. /\ q.stage = "resolving"
        /\ Update(h, [q EXCEPT !.cmd = Pending("retry", <<e>>)]) \/ Update(h, p)
    BY <1>6, <1>10 DEF ResolveRetry, p
  <2>2. QED
    BY <1>3, <1>4, <1>7, <2>1
<1>11. QED
  BY <1>8, <1>9, <1>10

LEMMA CatchUpWanes ==
  ASSUME LifecycleInv, StreamInv, RunInv, BuildInv, NEW h \in Runner, NEW p \in Position,
         CatchUp(h, p)
  PROVE  BuildInv'
<1> DEFINE q == handle[h]
<1>1. /\ DOMAIN q = DOMAIN NewHandle /\ UNCHANGED <<log, inflight>> /\ q.stage = "catchup"
      /\ q.cmd = NoCommand
  BY BuildKept DEF CatchUp, Open, Unlocked
<1>2. CASE q.stopped
  <2>1. PICK x, r : r = [q EXCEPT !.stage = "tailing", !.result = x] /\ Update(h, r)
    BY <1>2, Zenon DEF CatchUp, StoppedMeanwhile
  <2>2. /\ r.runAttempt = q.runAttempt /\ r.alive = q.alive /\ r.processor = q.processor
        /\ r.cmd = q.cmd /\ r.view = q.view /\ r.stage = "tailing"
    BY <1>1, <2>1 DEF NewHandle
  <2>3. QED
    BY <1>1, <2>1, <2>2, RunFades
<1>3. CASE ~q.stopped
  <2>1. PICK c : c = Pending("catchup", <<CaughtUp(p)>>) /\ Update(h, [q EXCEPT !.cmd = c])
    BY <1>3 DEF CatchUp, StoppedMeanwhile
  <2>2. Plain(c)
    BY <2>1 DEF Plain, Bounded, Pending, CaughtUp
  <2>3. q.stage \notin {"closing", "releasing", "done"}
    BY <1>1
  <2>4. PlainAsk(h)
    BY <2>1, <2>2, <2>3, Zenon DEF PlainAsk, Asks
  <2>5. QED
    BY <1>1, <2>4, AskWanes
<1>4. QED
  BY <1>2, <1>3

LEMMA ReleaseClaimWanes ==
  ASSUME LifecycleInv, StreamInv, RunInv, BuildInv, NEW h \in Runner, ReleaseClaim(h)
  PROVE  BuildInv'
<1> DEFINE q == handle[h]
<1>1. /\ DOMAIN q = DOMAIN NewHandle /\ UNCHANGED <<log, inflight>> /\ q.stage = "releasing"
      /\ q.cmd = NoCommand /\ Exits(q)
  BY BuildKept DEF ReleaseClaim, Unlocked
<1>2. CASE \E a : Update(h, [q EXCEPT !.cmd = Pending("release", <<RunnerReleased(a, h)>>)])
  <2>1. PICK a, c, r : /\ c = Pending("release", <<RunnerReleased(a, h)>>)
                       /\ r = [q EXCEPT !.cmd = c] /\ Update(h, r)
    BY <1>2
  <2>2. c.op = "release" /\ c.evs[1].runner = h
    BY <2>1 DEF Pending, RunnerReleased
  <2>3. /\ r.runAttempt = q.runAttempt /\ r.alive = q.alive /\ r.processor = q.processor
        /\ r.cmd = c /\ r.stage = "releasing"
    BY <1>1, <2>1 DEF NewHandle
  <2>4. Builds(r) => Builds(q)
    BY <2>2, <2>3 DEF Builds
  <2>5. Exits(r) /\ Frees(h, r)
    BY <1>1, <2>2, <2>3 DEF Exits, Frees, Driven
  <2>6. Wanes(h, q, r)
    BY <1>1, <2>2, <2>3, <2>4, <2>5 DEF Wanes, Over
  <2>7. QED
    BY <1>1, <2>1, <2>6, WaneStep
<1>3. CASE Update(h, [q EXCEPT !.stage = "done"])
  <2>1. PICK r : r = [q EXCEPT !.stage = "done"] /\ Update(h, r)
    BY <1>3
  <2>2. /\ r.runAttempt = q.runAttempt /\ r.alive = q.alive /\ r.processor = q.processor
        /\ r.cmd = q.cmd /\ r.view = q.view /\ r.stage = "done"
    BY <1>1, <2>1 DEF NewHandle
  <2>3. QED
    BY <1>1, <2>1, <2>2, RunFades
<1>4. QED
  BY <1>2, <1>3 DEF ReleaseClaim

-----------------------------------------------------------------------------
(* The claim.                                                               *)

\* Whom nobody can take over from but as documented, nobody builds.
LEMMA EnterVacates ==
  ASSUME LifecycleInv, StreamInv, RunInv, BuildInv, HonestTakeover = TRUE,
         NEW h \in Runner, NEW takeover, RunEnter(h, takeover),
         ~RunRefused(StateAt(Tip), takeover)
  PROVE  Vacated(Standpoint.id) /\ StateAt(Tip).attempt = Standpoint
<1> DEFINE a == Standpoint
<1>1. Len(log) = Tip /\ Tip \in Nat /\ StateAt(Tip).attempt = a
  <2>1. Len(log) = Tip /\ Tip \in Nat
    BY RunKept DEF Tip
  <2>2. QED
    BY <2>1, ViewIn DEF Standpoint, AttemptIn
<1>2. /\ a.phase # "none" /\ (Standing(a) => takeover)
      /\ takeover => Gone(a.runner)
  BY <1>1 DEF RunRefused, RunEnter
<1>3. Tip \in 1 .. Len(log)
  <2>1. Tip # 0
    BY <1>1, <1>2 DEF Standpoint, AttemptIn, StateIn, NewState, NoAttempt
  <2>2. QED
    BY <1>1, <2>1
<1>4. SUFFICES ASSUME NEW g \in Runner, Builds(handle[g]), handle[g].runAttempt = a.id
               PROVE  FALSE
  BY <1>1 DEF Vacated
<1>5. a.runner = g
  BY <1>4 DEF BuildInv, BuilderHolds
<1>6. ~a.released
  <2>1. a.released => Over(handle[g])
    BY <1>1, <1>3, <1>5 DEF BuildInv, ReleaserOver, Standpoint
  <2>2. QED
    BY <1>4, <2>1, BuildKept, OverBuildsNothing
<1>7. Gone(g)
  BY <1>2, <1>5, <1>6, NoRunnerAssumption DEF Standing
<1>8. handle[g].cmd.op = "observe" => handle[g].stage = "claiming"
  BY BuildKept DEF Stages
<1>9. QED
  BY <1>4, <1>7, <1>8 DEF Gone, Builds

LEMMA RunEnterWanes ==
  ASSUME LifecycleInv, StreamInv, RunInv, BuildInv, HonestTakeover = TRUE,
         NEW h \in Runner, NEW takeover, RunEnter(h, takeover)
  PROVE  BuildInv'
<1> DEFINE q == handle[h]
           s == StateAt(Tip)
<1>1. /\ DOMAIN q = DOMAIN NewHandle /\ Posture(q) /\ UNCHANGED <<log, inflight>>
      /\ q.stage = "idle" /\ q.alive = "open" /\ q.cmd = NoCommand /\ Len(log) = Tip
  BY BuildKept DEF RunEnter, Open, Unlocked, Tip
<1>2. q.processor = "none"
  BY <1>1 DEF Posture, Unstarted
<1>3. CASE RunRefused(s, takeover)
  <2>1. PICK r : /\ r = [q EXCEPT !.view = Tip, !.stage = "done", !.result = "error"]
                 /\ Update(h, r)
    BY <1>3 DEF RunEnter
  <2>2. /\ r.runAttempt = q.runAttempt /\ r.alive = q.alive /\ r.processor = q.processor
        /\ r.cmd = q.cmd /\ r.stage = "done"
    BY <1>1, <2>1 DEF NewHandle
  <2>3. QED
    BY <1>1, <1>2, <2>1, <2>2, RunFades
<1>4. CASE ~RunRefused(s, takeover)
  <2>1. PICK evs, c, r : /\ evs[1].type = "RunnerClaimed"
                         /\ c = Pending("claim", evs)
                         /\ r = [q EXCEPT !.view = Tip, !.entry = Tip, !.stage = "claiming",
                                          !.runAttempt = s.attempt.id, !.cmd = c]
                         /\ Update(h, r)
    <3> DEFINE claim == RunnerClaimed(s.attempt.id, h, TakeoverAttestation(s.attempt))
    <3>1. PICK evs : /\ evs \in {<<claim, BuildStarted>>, <<claim>>}
                     /\ Update(h, [q EXCEPT !.view = Tip, !.entry = Tip, !.stage = "claiming",
                                            !.runAttempt = s.attempt.id,
                                            !.cmd = Pending("claim", evs)])
      BY <1>4, Zenon DEF RunEnter
    <3>2. claim.type = "RunnerClaimed"
      BY DEF RunnerClaimed
    <3>3. evs[1].type = "RunnerClaimed"
      <4> HIDE DEF claim
      <4>1. evs[1] = claim
        BY <3>1
      <4>2. QED
        BY <3>2, <4>1
    <3>4. QED
      BY <3>1, <3>3, Zenon
  <2>2. c.op = "claim" /\ c.evs[1].type = "RunnerClaimed"
    BY <2>1 DEF Pending
  <2>3. /\ r.alive = "open" /\ r.view = Tip /\ r.cmd = c
        /\ r.processor = "none" /\ r.stage = "claiming"
    BY <1>1, <1>2, <2>1 DEF NewHandle
  <2>4. Vacated(Standpoint.id)
    BY <1>4, EnterVacates
  <2>5. ~Builds(r) /\ ~Over(q)
    BY <1>1, <2>2, <2>3 DEF Builds, Over
  <2>6. Exits(r) /\ Frees(h, r)
    BY <2>2, <2>3 DEF Exits, Frees, Driven
  <2>7. Wanes(h, q, r)
    BY <1>1, <2>3, <2>4, <2>5, <2>6 DEF Wanes
  <2>8. QED
    BY <1>1, <2>1, <2>7, WaneStep
<1>5. QED
  BY <1>3, <1>4

\* A run whose claim has been answered: at work, or at its end.
LEMMA ClaimAnswered ==
  ASSUME NEW h, NEW p, DOMAIN p = DOMAIN NewHandle, p.processor = "none",
         p.cmd.op = "none", NEW r, NEW x, r \in Started(h, p) \/ r = Finished(p, x)
  PROVE  /\ r.runAttempt = p.runAttempt /\ r.cmd.op = "none" /\ Exits(r) /\ Frees(h, r)
         /\ r = Finished(p, x) => ~Builds(r)
<1>1. /\ r.runAttempt = p.runAttempt /\ r.cmd = p.cmd
      /\ r.stage \in {"catchup", "tailing"} \/ r.processor = "none"
      /\ r = Finished(p, x) => r.processor = "none"
  <2>1. CASE r = [p EXCEPT !.stage = "releasing", !.result = "error"]
    BY <2>1 DEF NewHandle
  <2>2. CASE r = Finished(p, x)
    BY <2>2 DEF NewHandle, Finished
  <2>3. CASE /\ r # [p EXCEPT !.stage = "releasing", !.result = "error"]
             /\ r # Finished(p, x)
    <3>1. PICK y \in {"catchup", "tailing"} :
            r = [p EXCEPT !.processor = "running", !.reconciling = TRUE, !.stage = y]
      BY <2>3 DEF Started
    <3>2. QED
      BY <2>3, <3>1 DEF NewHandle
  <2>4. QED
    BY <2>1, <2>2, <2>3
<1>2. r.cmd.op = "none" /\ r.cmd.op \notin SaveOps \cup RetireOps \cup Driven
  BY <1>1 DEF SaveOps, RetireOps, Driven
<1>3. QED
  BY <1>1, <1>2 DEF Exits, Frees, Builds

LEMMA ObserveClaimWanes ==
  ASSUME LifecycleInv, StreamInv, RunInv, BuildInv, NEW h \in Runner, ObserveClaim(h)
  PROVE  BuildInv'
<1> DEFINE q == handle[h]
<1>1. /\ DOMAIN q = DOMAIN NewHandle /\ UNCHANGED <<log, inflight>> /\ q.cmd.op = "observe"
      /\ Stages(q) /\ Posture(q)
  BY BuildKept DEF ObserveClaim
<1>2. q.stage = "claiming" /\ q.alive # "gone" /\ q.processor = "none"
  BY <1>1 DEF Stages, Posture, Unstarted, NoCommand
<1>3. PICK x, p, r : /\ p \in {[q EXCEPT !.cmd = NoCommand, !.view = Tip],
                               [q EXCEPT !.cmd = NoCommand]}
                     /\ r \in Started(h, p) \/ r = Finished(p, x)
                     /\ Update(h, r)
  <2>1. PICK there, here : /\ there = [q EXCEPT !.cmd = NoCommand, !.view = Tip]
                           /\ here = [q EXCEPT !.cmd = NoCommand]
    OBVIOUS
  <2>2. \/ Update(h, Finished(here, "error"))
        \/ Update(h, Finished(there, "nil"))
        \/ Update(h, Finished(there, "displaced"))
        \/ \E r \in Started(h, there) : Update(h, r)
    BY <2>1 DEF ObserveClaim
  <2>3. QED
    BY <2>1, <2>2
<1>4. /\ DOMAIN p = DOMAIN NewHandle /\ p.processor = "none" /\ p.cmd.op = "none"
      /\ p.runAttempt = q.runAttempt
  <2>1. /\ DOMAIN p = DOMAIN NewHandle /\ p.processor = "none" /\ p.cmd = NoCommand
        /\ p.runAttempt = q.runAttempt
    BY <1>1, <1>2, <1>3 DEF NewHandle
  <2>2. QED
    BY <2>1, NoCommandPlain
<1>5. r.runAttempt = q.runAttempt /\ r.cmd.op = "none" /\ Exits(r) /\ Frees(h, r)
  <2>1. CASE r \in Started(h, p)
    BY <1>4, <2>1, ClaimAnswered
  <2>2. CASE r = Finished(p, x)
    BY <1>4, <2>2, ClaimAnswered
  <2>3. QED
    BY <1>3, <2>1, <2>2
<1>6. Builds(q) /\ ~Over(q)
  BY <1>1, <1>2 DEF Builds, Over
<1>7. Wanes(h, q, r)
  BY <1>5, <1>6 DEF Wanes
<1>8. QED
  BY <1>1, <1>3, <1>7, WaneStep

\* A claim that is recorded takes the attempt, which nobody builds; one that is not
\* may still be, as long as nobody does.
LEMMA ClaimSaveWanes ==
  ASSUME LifecycleInv, StreamInv, RunInv, BuildInv, NEW h \in Runner, NEW outcome,
         ClaimSave(h, outcome)
  PROVE  BuildInv'
<1> DEFINE q == handle[h]
           evs == q.cmd.evs
<1>1. Saves(h, "claim", outcome) /\ "claim" \in SaveOps /\ q.cmd.op = "claim"
  BY DEF ClaimSave, SaveOps, Saves
<1>2. PICK a : a = Answered(h, outcome)
  OBVIOUS
<1>3. /\ SameRun(q, a) /\ DOMAIN a = DOMAIN NewHandle /\ a.cmd.op = "none"
      /\ Stages(q) /\ Posture(q) /\ Frees(h, q)
  BY <1>1, <1>2, AnsweredFades
<1>4. q.stage = "claiming" /\ q.alive # "gone" /\ q.processor = "none"
  BY <1>1, <1>3 DEF Stages, Posture, Unstarted, NoCommand
<1>5. /\ a.processor = "none" /\ a.runAttempt = q.runAttempt /\ a.stage = "claiming"
      /\ ~Over(q) /\ ~Builds(q)
  BY <1>1, <1>3, <1>4 DEF SameRun, Over, Builds
<1>6. /\ Writes(h, evs, StateIn(log, q.view)) /\ evs[1].type = "RunnerClaimed"
      /\ evs[1].runner = h /\ AttemptIn(log, q.view).id = q.runAttempt /\ Len(log) = Tip
  <2>1. Writes(h, evs, StateIn(log, q.view)) /\ evs[1].type = "RunnerClaimed"
        /\ AttemptIn(log, q.view).id = q.runAttempt
    BY <1>1, StreamKept DEF Keeps, Claims, Pends
  <2>2. QED
    BY <2>1 DEF Writes, Tip
<1>7. CASE outcome \in {"ok", "appended"}
  <2>1. Tip = q.view /\ log' = Recorded(evs) /\ inflight' = {}
    BY <1>1, <1>7 DEF Saves, Unmoved
  <2>2. PICK r : /\ Update(h, r) /\ r.runAttempt = q.runAttempt
                 /\ r.cmd.op \in {"none", "observe"} /\ Exits(r) /\ Frees(h, r)
    <3>1. CASE outcome = "ok"
      <4>1. PICK r \in Started(h, a) : Update(h, r)
        BY <1>2, <3>1 DEF ClaimSave
      <4>2. QED
        BY <1>3, <1>5, <4>1, ClaimAnswered
    <3>2. CASE outcome = "appended"
      <4>1. PICK c, r : /\ c = Pending("observe", <<>>)
                        /\ r = [a EXCEPT !.cmd = c] /\ Update(h, r)
        BY <1>2, <3>2 DEF ClaimSave
      <4>2. c.op = "observe"
        BY <4>1 DEF Pending
      <4>3. r.runAttempt = q.runAttempt /\ r.cmd = c /\ r.stage = "claiming"
        BY <1>3, <1>5, <4>1 DEF NewHandle
      <4>4. Exits(r) /\ Frees(h, r)
        BY <4>2, <4>3 DEF Exits, Frees, Driven, SaveOps, RetireOps
      <4>5. QED
        BY <4>1, <4>2, <4>3, <4>4
    <3>3. QED
      BY <1>7, <3>1, <3>2
  <2>3. Vacated(Standpoint.id) /\ Standpoint.id = q.runAttempt
    <3>1. Claimable(q)
      BY DEF BuildInv
    <3>2. QED
      BY <1>1, <1>6, <2>1, <3>1 DEF Claimable, Standpoint
  <2>4. Takes(h, q, r, evs)
    BY <1>5, <1>6, <2>2, <2>3 DEF Takes
  <2>5. \A g \in Runner : \/ Wanes(g, handle[g], handle'[g])
                          \/ Takes(g, handle[g], handle'[g], evs)
    <3>1. handle'[h] = r /\ \A g \in Runner \ {h} : handle'[g] = handle[g]
      BY <2>2 DEF Update, LifecycleInv
    <3>2. QED
      BY <2>4, <3>1, WanesSelf
  <2>6. QED
    BY <1>6, <2>1, <2>3, <2>5, AppendWane
<1>8. CASE outcome \notin {"ok", "appended"}
  <2>1. PICK x, p, r : /\ p \in {a, [a EXCEPT !.view = q.view + 1]}
                       /\ r = Finished(p, x) /\ Update(h, r)
    <3>1. CASE outcome = "mismatch"
      <4>1. PICK p : p = [a EXCEPT !.view = q.view + 1]
        OBVIOUS
      <4>2. \/ Update(h, Finished(a, "error"))
            \/ Update(h, Finished(p, "nil"))
            \/ Update(h, Finished(p, "displaced"))
        BY <1>2, <3>1, <4>1 DEF ClaimSave, ClaimDefeat
      <4>3. QED
        BY <4>1, <4>2
    <3>2. CASE outcome # "mismatch"
      BY <1>2, <1>8, <3>2 DEF ClaimSave
    <3>3. QED
      BY <3>1, <3>2
  <2>2. /\ DOMAIN p = DOMAIN NewHandle /\ p.processor = "none" /\ p.cmd.op = "none"
    BY <1>3, <1>5, <2>1 DEF NewHandle
  <2>3. r.cmd.op = "none" /\ Exits(r) /\ Frees(h, r) /\ ~Builds(r)
    BY <2>1, <2>2, ClaimAnswered
  <2>4. Wanes(h, q, r)
    BY <1>5, <2>3 DEF Wanes
  <2>5. /\ UNCHANGED log
        /\ inflight' \subseteq inflight \cup (IF Tip = q.view THEN {evs} ELSE {})
    BY <1>1, <1>8 DEF Saves, Unmoved
  <2>6. ASSUME NEW e \in inflight', e \notin inflight
        PROVE  e = evs /\ q.view = Len(log)
    BY <1>6, <2>5, <2>6
  <2>7. QED
    BY <1>1, <2>1, <2>4, <2>5, <2>6, UnrecordedWane
<1>9. QED
  BY <1>7, <1>8

-----------------------------------------------------------------------------
(* The theorem.                                                             *)

LEMMA InitBuilds ==
  ASSUME Init
  PROVE  BuildInv
<1>1. inflight = {} /\ StreamInv
  BY InitStreams DEF Init
<1>2. ASSUME NEW h \in Runner
      PROVE  /\ handle[h].processor = "none" /\ handle[h].stage = "idle"
             /\ handle[h].cmd = NoCommand
  BY DEF Init, NewHandle
<1>3. ASSUME NEW h \in Runner
      PROVE  ~Builds(handle[h]) /\ Exits(handle[h]) /\ Frees(h, handle[h]) /\ Claimable(handle[h])
  <2>1. /\ handle[h].cmd.op = "none"
        /\ handle[h].cmd.op \notin SaveOps \cup RetireOps \cup Driven
    BY <1>2, NoCommandPlain DEF SaveOps, RetireOps, Driven
  <2>2. QED
    BY <1>2, <2>1 DEF Builds, Exits, Frees, Claimable
<1>4. ReleaserOver
  BY <1>1, <1>2 DEF ReleaserOver, StreamInv, Keeps, Held, Over
<1>5. QED
  BY <1>1, <1>3, <1>4 DEF BuildInv, BuilderHolds, OneEach

LEMMA SaveAnswersWane ==
  ASSUME LifecycleInv, StreamInv, RunInv, BuildInv, NEW h \in Runner, SaveAnswers(h)
  PROVE  BuildInv'
<1>1. PICK outcome \in Outcome :
        \/ BeginSave(h, outcome)
        \/ PolicySave(h, outcome)
        \/ ClaimSave(h, outcome)
        \/ CatchUpSave(h, outcome)
        \/ PromoteSave(h, outcome)
        \/ PromoteAfterCatchUpSave(h, outcome)
        \/ ResolveRetrySave(h, outcome)
        \/ ReleaseClaimSave(h, outcome)
        \/ EndSave(h, "rollback", outcome)
        \/ EndSave(h, "abandon", outcome)
        \/ ReserveSave(h, outcome)
        \/ RecordRetirement(h, outcome)
  BY DEF SaveAnswers
<1>2. QED
  BY <1>1, OpeningSaveWanes, ClaimSaveWanes, CatchUpSaveWanes, PromotionSaveWanes,
     ReleaseClaimSaveWanes, CommandSaveWanes

LEMMA InternalWanes ==
  ASSUME LifecycleInv, StreamInv, RunInv, BuildInv, NEW h \in Runner, Internal(h)
  PROVE  BuildInv'
BY SaveAnswersWane, ObserveClaimWanes, PromotionWanes, LossWanes, ProcessorWanes,
   ReleaseClaimWanes, CommandWanes
   DEF Internal

LEMMA ExternalWanes ==
  ASSUME LifecycleInv, StreamInv, RunInv, BuildInv, HonestTakeover = TRUE,
         NEW h \in Runner, External(h)
  PROVE  BuildInv'
BY CommandWanes, ResumeWanes, RunEnterWanes, CatchUpWanes, PromotionWanes,
   ProcessorWanes, ReconcileFailWanes, CrashWanes
   DEF External

LEMMA NextWanes ==
  ASSUME LifecycleInv, StreamInv, RunInv, BuildInv, HonestTakeover = TRUE, [Next]_vars
  PROVE  BuildInv'
<1>1. ASSUME NEW h \in Runner, Internal(h) \/ External(h) \/ ProcessorReturn(h)
      PROVE  BuildInv'
  BY <1>1, InternalWanes, ExternalWanes, ProcessorWanes
<1>2. ASSUME NEW h \in Runner, NEW v \in 0 .. Tip, Reconcile(h, v)
      PROVE  BuildInv'
  BY <1>2, ReconcileWanes
<1>3. ASSUME UNCHANGED <<log, inflight, handle>>
      PROVE  BuildInv'
  <2>1. /\ BuilderHolds' = BuilderHolds /\ ReleaserOver' = ReleaserOver
        /\ OneEach' = OneEach
        /\ \A r : Claimable(r)' <=> Claimable(r)
        /\ \A evs : MayLand(evs)' <=> MayLand(evs)
    BY <1>3 DEF BuilderHolds, ReleaserOver, OneEach, Claimable, MayLand, Vacated, Standpoint,
                AttemptIn, StateIn
  <2>2. QED
    BY <1>3, <2>1 DEF BuildInv
<1>4. QED
  BY <1>1, <1>2, <1>3, LandWanes DEF Next, Deliver, vars

\* Whoever builds the standing attempt holds its claim, whoever released a claim is past
\* its processor, and a claim that may still be recorded is of an attempt that nobody
\* builds (handle.go, Run and releaseClaim).
THEOREM BuildInvariance ==
  ASSUME ForeignRefold = FALSE, HonestTakeover = TRUE
  PROVE  Spec => [](LifecycleInv /\ StreamInv /\ RunInv /\ BuildInv)
<1>1. Init => BuildInv
  BY InitBuilds
<1>2. LifecycleInv /\ StreamInv /\ RunInv /\ BuildInv /\ [Next]_vars => BuildInv'
  BY NextWanes
<1>3. QED
  BY <1>1, <1>2, RunInvariance, PTL DEF Spec

\* WithTakeover's contract (handle.go): if a claim is only taken over from a claimant
\* that is gone, an attempt has at most one processor, and a recorded release means
\* that the releasing run's processor is gone.
THEOREM LifecycleOneBuilder ==
  ASSUME ForeignRefold = FALSE, HonestTakeover = TRUE
  PROVE  Spec => []OneBuilder
<1>1. LifecycleInv /\ StreamInv /\ RunInv /\ BuildInv => OneBuilder
  <2>1. SUFFICES ASSUME LifecycleInv, StreamInv, RunInv, BuildInv, NEW h \in Runner, Running(h)
                 PROVE  /\ \A g \in Runner \ {h} :
                             Running(g) => handle[g].runAttempt # handle[h].runAttempt
                        /\ RunnerReleased(handle[h].runAttempt, h) \notin Event
    BY DEF OneBuilder
  <2>2. \A g \in Runner : Running(g) => Builds(handle[g])
    BY DEF Running, Builds
  <2>3. ASSUME NEW i \in 1 .. Tip, log[i].event = RunnerReleased(handle[h].runAttempt, h)
        PROVE  FALSE
    <3>1. Folded(log) /\ Len(log) \in Nat /\ i \in 1 .. Len(log)
      BY <2>1, RunKept DEF StreamInv, Tip
    <3>2. log[i].event.type = "RunnerReleased" /\ log[i].event.runner = h
      BY <2>3 DEF RunnerReleased
    <3>3. AttemptIn(log, i).released /\ AttemptIn(log, i).runner = h
      <4>1. Effect(log[i].event, StateIn(log, i - 1), StateIn(log, i))
        BY <3>1, FoldedStep
      <4>2. QED
        BY <3>2, <4>1 DEF Effect, AttemptIn
    <3>4. Over(handle[h])
      BY <2>1, <3>1, <3>3 DEF BuildInv, ReleaserOver
    <3>5. QED
      BY <2>1, <2>2, <3>4, BuildKept, OverBuildsNothing
  <2>4. QED
    BY <2>1, <2>2, <2>3 DEF BuildInv, OneEach, Event
<1>2. QED
  BY <1>1, BuildInvariance, PTL

-----------------------------------------------------------------------------
(* The types of the state, and the bound on versions.                       *)

Typed(r) ==
  /\ r.stage \in Stage
  /\ r.cmd.op \in SaveOps \cup RetireOps => Bounded(r.cmd.evs)

TypeInv ==
  /\ StateIn(log, Len(log)).allocated <= MaxVersion
  /\ \A evs \in inflight : Bounded(evs)
  /\ \A h \in Runner : Typed(handle[h])

\* The step of handle h leaves it a typed record.
TypedStep(h) == \E r : Update(h, r) /\ Typed(r)

LEMMA TypeKept ==
  ASSUME LifecycleInv, TypeInv, NEW h \in Runner
  PROVE  /\ Typed(handle[h]) /\ DOMAIN handle[h] = DOMAIN NewHandle
         /\ IsCommand(handle[h].cmd) /\ handle[h].stage \in Stage
BY Shape DEF TypeInv, Typed

LEMMA NoCommandTyped ==
  ASSUME NEW r, r.stage \in Stage, r.cmd = NoCommand
  PROVE  Typed(r)
BY NoCommandPlain DEF Typed, SaveOps, RetireOps

\* From a typed record, a step that at most moves on to another stage.
LEMMA StageTyped ==
  ASSUME NEW h, NEW p, Typed(p), NEW r, Update(h, r), r.cmd = p.cmd,
         r.stage \in Stage \cup {p.stage}
  PROVE  TypedStep(h)
BY DEF TypedStep, Typed

LEMMA AskTyped ==
  ASSUME LifecycleInv, TypeInv, NEW h \in Runner, PlainAsk(h)
  PROVE  TypedStep(h)
<1>1. PICK c, r : /\ Update(h, r) /\ Plain(c)
                  /\ \/ r = [handle[h] EXCEPT !.view = Tip, !.cmd = c]
                     \/ r = [handle[h] EXCEPT !.cmd = c]
  BY Zenon DEF PlainAsk, Asks
<1>2. r.cmd = c /\ r.stage = handle[h].stage
  BY <1>1, TypeKept DEF NewHandle
<1>3. QED
  BY <1>1, <1>2, TypeKept DEF TypedStep, Typed, Plain

\* A step of the run that makes events ready which begin no build.
LEMMA PendTyped ==
  ASSUME LifecycleInv, TypeInv, NEW h \in Runner, NEW op, NEW e, e.type # "RebuildInitiated",
         Update(h, [handle[h] EXCEPT !.cmd = Pending(op, <<e>>)])
  PROVE  TypedStep(h)
<1>1. PICK evs, r : /\ evs = <<e>> /\ Update(h, r)
                    /\ r = [handle[h] EXCEPT !.cmd = [op |-> op, evs |-> evs, todo |-> {}]]
  BY DEF Pending
<1>2. evs[1] = e /\ r.cmd.evs = evs /\ r.stage = handle[h].stage
  BY <1>1, TypeKept DEF NewHandle
<1>3. Bounded(r.cmd.evs)
  BY <1>2 DEF Bounded
<1>4. QED
  BY <1>1, <1>2, <1>3, TypeKept DEF TypedStep, Typed

LEMMA MarksTyped ==
  ASSUME LifecycleInv, TypeInv, NEW h \in Runner,
         \/ Resume(h) \/ CancelRun(h) \/ ReconcileExit(h) \/ ProcessorReturn(h)
         \/ PublishProcessorExit(h)
  PROVE  TypedStep(h)
<1> DEFINE q == handle[h]
<1>1. PICK x, r : /\ \/ r = [q EXCEPT !.alive = "open", !.view = x]
                     \/ r = [q EXCEPT !.ctxDone = TRUE, !.cancel = TRUE]
                     \/ r = [q EXCEPT !.reconciling = FALSE]
                     \/ r = [q EXCEPT !.processor = "returned"]
                     \/ r = [q EXCEPT !.processor = "exited", !.certificate = NoCertificate]
                  /\ Update(h, r)
  BY Zenon DEF Resume, CancelRun, ReconcileExit, ProcessorReturn, PublishProcessorExit
<1>2. r.cmd = q.cmd /\ r.stage = q.stage
  BY <1>1, TypeKept DEF NewHandle
<1>3. QED
  BY <1>1, <1>2, TypeKept, StageTyped

LEMMA StopsTyped ==
  ASSUME LifecycleInv, TypeInv, NEW h \in Runner,
         ReconcileFail(h) \/ \E v \in 0 .. Tip : Reconcile(h, v)
  PROVE  TypedStep(h)
<1> DEFINE q == handle[h]
<1>1. ASSUME NEW cause, NEW p, p = TerminalStop(q, cause), NEW r, Update(h, r),
             r = [p EXCEPT !.cancel = TRUE, !.reconciling = FALSE]
      PROVE  TypedStep(h)
  <2>1. p = q \/ p = [q EXCEPT !.stopped = TRUE, !.failure = cause,
                               !.certificate = NoCertificate]
    BY <1>1 DEF TerminalStop
  <2>2. r.cmd = q.cmd /\ r.stage = q.stage
    BY <1>1, <2>1, TypeKept DEF NewHandle
  <2>3. QED
    BY <1>1, <2>2, TypeKept, StageTyped
<1>2. CASE ReconcileFail(h)
  BY <1>1, <1>2, Zenon DEF ReconcileFail
<1>3. ASSUME NEW v \in 0 .. Tip, Reconcile(h, v), ~Valid(StateAt(v))
      PROVE  TypedStep(h)
  BY <1>1, <1>3, Zenon DEF Reconcile
<1>4. ASSUME NEW v \in 0 .. Tip, Reconcile(h, v), Valid(StateAt(v))
      PROVE  TypedStep(h)
  <2> DEFINE over == Superseded(h, StateAt(v))
  <2>1. Update(h, [q EXCEPT !.view = v, !.stopped = over,
                            !.failure = IF Displaced(h, StateAt(v)) THEN "displaced" ELSE @,
                            !.certificate = IF over THEN NoCertificate ELSE @,
                            !.cancel = @ \/ over,
                            !.reconciling = ~over])
    BY <1>4 DEF Reconcile
  <2>2. PICK x, c, y, z, r :
          /\ r = [q EXCEPT !.view = v, !.stopped = over, !.failure = x, !.certificate = c,
                           !.cancel = y, !.reconciling = z]
          /\ Update(h, r)
    BY <2>1, Zenon
  <2>3. r.cmd = q.cmd /\ r.stage = q.stage
    BY <2>2, TypeKept DEF NewHandle
  <2>4. QED
    BY <2>2, <2>3, TypeKept, StageTyped
<1>5. QED
  BY <1>2, <1>3, <1>4

LEMMA EndsTyped ==
  ASSUME LifecycleInv, TypeInv, NEW h \in Runner,
         Drained(h) \/ ClassifyExit(h) \/ ResolveHalt(h) \/ Crash(h)
  PROVE  TypedStep(h)
<1> DEFINE q == handle[h]
<1>1. PICK x, r :
        /\ \/ r = [q EXCEPT !.stage = "closing", !.cancel = TRUE]
           \/ r = [q EXCEPT !.stage = "releasing", !.certificate = NoCertificate,
                            !.result = x]
           \/ r = [q EXCEPT !.stage = "winding", !.cancel = TRUE, !.slot = x]
           \/ r = [NewHandle EXCEPT !.alive = "gone"]
        /\ Update(h, r)
  BY Zenon DEF Drained, ClassifyExit, ResolveHalt, Winding, Crash
<1>2. /\ r.cmd = q.cmd \/ r.cmd = NoCommand
      /\ r.stage \in Stage
  BY <1>1, TypeKept DEF NewHandle, Stage
<1>3. QED
  BY <1>1, <1>2, TypeKept, StageTyped, NoCommandTyped DEF TypedStep

\* What a loss leaves of the record: its command and stage.
LEMMA DefeatTyped ==
  ASSUME LifecycleInv, TypeInv, NEW h \in Runner, NEW slot
  PROVE  LET p == SlotDefeat(h, slot)
         IN  p.cmd = handle[h].cmd /\ DOMAIN p = DOMAIN NewHandle
<1> DEFINE q == handle[h]
           s == StateAt(slot)
<1>1. PICK a, b, c, d, p :
        /\ p = SlotDefeat(h, slot)
        /\ \/ p = q
           \/ p = [q EXCEPT !.stopped = a, !.failure = b, !.certificate = c]
           \/ p = [q EXCEPT !.failure = b]
           \/ p = [q EXCEPT !.view = d, !.stopped = a, !.failure = b, !.certificate = c]
  <2>1. CASE ~Valid(s)
    BY <2>1, Zenon DEF SlotDefeat, TerminalStop
  <2>2. CASE Valid(s)
    BY <2>2, Zenon DEF SlotDefeat
  <2>3. QED
    BY <2>1, <2>2
<1>2. QED
  BY <1>1, TypeKept DEF NewHandle

LEMMA LossTyped ==
  ASSUME LifecycleInv, TypeInv, NEW h \in Runner, ResolveSlot(h) \/ Wound(h)
  PROVE  TypedStep(h)
<1> DEFINE q == handle[h]
<1>1. ASSUME NEW p, p.cmd = q.cmd, DOMAIN p = DOMAIN NewHandle, NEW x, NEW r, Update(h, r),
             \/ r = [p EXCEPT !.stage = "winding", !.cancel = TRUE, !.slot = x]
             \/ r = [p EXCEPT !.stage = "closing"]
             \/ r = [p EXCEPT !.view = x, !.certificate = NoCertificate, !.stage = "tailing"]
      PROVE  TypedStep(h)
  <2>1. r.cmd = q.cmd /\ r.stage \in {"winding", "closing", "tailing"}
    BY <1>1 DEF NewHandle
  <2>2. QED
    BY <1>1, <2>1, TypeKept, StageTyped DEF Stage
<1>2. \A slot : /\ SlotDefeat(h, slot).cmd = q.cmd
                /\ DOMAIN SlotDefeat(h, slot) = DOMAIN NewHandle
  BY DefeatTyped
<1>3. q.cmd = q.cmd /\ DOMAIN q = DOMAIN NewHandle
  BY TypeKept
<1>4. CASE ResolveSlot(h)
  <2>1. \/ Update(h, [SlotDefeat(h, q.slot) EXCEPT !.stage = "winding", !.cancel = TRUE,
                                                   !.slot = 0])
        \/ \E v : Update(h, [q EXCEPT !.view = MaxOf(@, v), !.certificate = NoCertificate,
                                      !.stage = "tailing"])
    BY <1>4, Zenon DEF ResolveSlot, Winding
  <2>2. QED
    BY <1>1, <1>2, <1>3, <2>1, Zenon
<1>5. CASE Wound(h)
  <2>1. \/ Update(h, [SlotDefeat(h, q.slot) EXCEPT !.stage = "closing"])
        \/ Update(h, [q EXCEPT !.stage = "closing"])
    BY <1>5 DEF Wound
  <2>2. QED
    BY <1>1, <1>2, <1>3, <2>1, Zenon
<1>6. QED
  BY <1>4, <1>5

LEMMA RunEnterTyped ==
  ASSUME LifecycleInv, TypeInv, NEW h \in Runner, NEW takeover, RunEnter(h, takeover)
  PROVE  TypedStep(h)
<1>1. PICK a, b, e, evs, x, r :
        /\ e = RunnerClaimed(a, h, b)
        /\ evs = IF StateAt(Tip).attempt.phase = "created" THEN <<e, BuildStarted>> ELSE <<e>>
        /\ \/ r = [handle[h] EXCEPT !.view = Tip, !.stage = "done", !.result = "error"]
           \/ r = [handle[h] EXCEPT !.view = Tip, !.entry = Tip, !.stage = "claiming",
                                    !.runAttempt = x, !.cmd = Pending("claim", evs)]
        /\ Update(h, r)
  BY Zenon DEF RunEnter
<1>2. Bounded(evs)
  BY <1>1 DEF RunnerClaimed, Bounded
<1>3. \/ r.stage = "done" /\ r.cmd = handle[h].cmd
      \/ r.stage = "claiming" /\ r.cmd.evs = evs
  <2>0. Pending("claim", evs).evs = evs
    BY DEF Pending
  <2>1. PICK c : c = Pending("claim", evs) /\ c.evs = evs
    BY <2>0
  <2>2. \/ r = [handle[h] EXCEPT !.view = Tip, !.stage = "done", !.result = "error"]
        \/ r = [handle[h] EXCEPT !.view = Tip, !.entry = Tip, !.stage = "claiming",
                                 !.runAttempt = x, !.cmd = c]
    BY <1>1, <2>1
  <2>3. QED
    BY <2>1, <2>2, TypeKept DEF NewHandle
<1>4. r.stage \in Stage
  BY <1>3 DEF Stage
<1>5. QED
  BY <1>1, <1>2, <1>3, <1>4, TypeKept DEF TypedStep, Typed

LEMMA RunTyped ==
  ASSUME LifecycleInv, TypeInv, NEW h \in Runner,
         \/ \E p \in Position : CatchUp(h, p)
         \/ Promote(h) \/ PromoteAfterCatchUp(h) \/ ResolveRetry(h) \/ ReleaseClaim(h)
  PROVE  TypedStep(h)
<1> DEFINE q == handle[h]
<1>1. Promotion(h).type # "RebuildInitiated"
  BY DEF Promotion, Promoted
<1> DEFINE e == Promotion(h)
           p == PromotionRefused(h)
<1>2. DOMAIN p = DOMAIN NewHandle /\ p.cmd = q.cmd /\ p.stage = q.stage
  BY TypeKept DEF PromotionRefused, NewHandle
<1> HIDE DEF e, p
<1>3. ASSUME NEW x, NEW r, Update(h, r),
             \/ r = p
             \/ r = [p EXCEPT !.stage = "winding", !.cancel = TRUE]
             \/ r = [q EXCEPT !.stage = "tailing", !.result = x]
             \/ r = [q EXCEPT !.stage = "done"]
      PROVE  TypedStep(h)
  <2>1. r.cmd = q.cmd /\ r.stage \in {q.stage, "winding", "tailing", "done"}
    BY <1>2, <1>3, TypeKept DEF NewHandle
  <2>2. QED
    BY <1>3, <2>1, TypeKept, StageTyped DEF Stage
<1>4. ASSUME NEW w \in Position, CatchUp(h, w)
      PROVE  TypedStep(h)
  <2>1. \/ Update(h, [q EXCEPT !.cmd = Pending("catchup", <<CaughtUp(w)>>)])
        \/ \E x : Update(h, [q EXCEPT !.stage = "tailing", !.result = x])
    BY <1>4, Zenon DEF CatchUp
  <2>2. CaughtUp(w).type # "RebuildInitiated"
    BY DEF CaughtUp
  <2>3. QED
    BY <1>3, <2>1, <2>2, PendTyped, Zenon
<1>5. CASE ReleaseClaim(h)
  <2>1. \/ \E a : Update(h, [q EXCEPT !.cmd = Pending("release", <<RunnerReleased(a, h)>>)])
        \/ Update(h, [q EXCEPT !.stage = "done"])
    BY <1>5, Zenon DEF ReleaseClaim
  <2>2. \A a : RunnerReleased(a, h).type # "RebuildInitiated"
    BY DEF RunnerReleased
  <2>3. CASE \E a : Update(h, [q EXCEPT !.cmd = Pending("release", <<RunnerReleased(a, h)>>)])
    <3>1. PICK a : Update(h, [q EXCEPT !.cmd = Pending("release", <<RunnerReleased(a, h)>>)])
      BY <2>3
    <3>2. PICK x : x = RunnerReleased(a, h)
      OBVIOUS
    <3>3. x.type # "RebuildInitiated" /\ Update(h, [q EXCEPT !.cmd = Pending("release", <<x>>)])
      BY <2>2, <3>1, <3>2
    <3>4. QED
      BY <3>3, PendTyped, Zenon
  <2>4. QED
    BY <1>3, <2>1, <2>3
<1>6. CASE Promote(h) \/ PromoteAfterCatchUp(h) \/ ResolveRetry(h)
  <2>1. \/ \E op : Update(h, [q EXCEPT !.cmd = Pending(op, <<e>>)])
        \/ Update(h, p) \/ Update(h, [p EXCEPT !.stage = "winding", !.cancel = TRUE])
    BY <1>6, Zenon DEF Promote, PromoteAfterCatchUp, ResolveRetry, e, p
  <2>2. e.type # "RebuildInitiated"
    BY <1>1 DEF e
  <2>3. CASE \E op : Update(h, [q EXCEPT !.cmd = Pending(op, <<e>>)])
    BY <2>2, <2>3, PendTyped, Zenon
  <2>4. QED
    BY <1>3, <2>1, <2>3
<1>7. QED
  BY <1>4, <1>5, <1>6

\* A record that holds no lock, and what a run's claim makes of it.
LEMMA OverTyped ==
  ASSUME NEW h, NEW p, DOMAIN p = DOMAIN NewHandle, p.cmd = NoCommand, p.stage \in Stage,
         NEW r, Update(h, r),
         r = p \/ r \in Started(h, p) \/ \E x : r = Finished(p, x)
  PROVE  TypedStep(h)
<1>1. r.cmd = NoCommand /\ r.stage \in Stage
  <2>1. CASE \E x : r = Finished(p, x)
    BY <2>1, FinishedCases DEF Stage
  <2>2. CASE r \in Started(h, p)
    BY <2>2, StartedCases DEF Stage
  <2>3. QED
    BY <2>1, <2>2
<1>2. QED
  BY <1>1, NoCommandTyped DEF TypedStep

LEMMA ObserveClaimTyped ==
  ASSUME LifecycleInv, TypeInv, NEW h \in Runner, ObserveClaim(h)
  PROVE  TypedStep(h)
<1> DEFINE q == handle[h]
<1>1. PICK there, here : /\ there = [q EXCEPT !.cmd = NoCommand, !.view = Tip]
                         /\ here = [q EXCEPT !.cmd = NoCommand]
  OBVIOUS
<1>2. \A p \in {here, there} :
        DOMAIN p = DOMAIN NewHandle /\ p.cmd = NoCommand /\ p.stage \in Stage
  BY <1>1, TypeKept DEF NewHandle
<1>3. \/ \E p \in {here, there} : \E x : Update(h, Finished(p, x))
      \/ \E r \in Started(h, there) : Update(h, r)
  BY <1>1, Zenon DEF ObserveClaim
<1>4. QED
  BY <1>2, <1>3, OverTyped

\* A save's answer, whatever the command does with it.
LEMMA SavesTyped ==
  ASSUME LifecycleInv, TypeInv, NEW h \in Runner, SaveAnswers(h)
  PROVE  TypedStep(h)
<1> DEFINE q == handle[h]
<1>1. PICK outcome :
        \/ BeginSave(h, outcome) \/ PolicySave(h, outcome) \/ ClaimSave(h, outcome)
        \/ CatchUpSave(h, outcome) \/ PromoteSave(h, outcome)
        \/ PromoteAfterCatchUpSave(h, outcome) \/ ResolveRetrySave(h, outcome)
        \/ ReleaseClaimSave(h, outcome) \/ EndSave(h, "rollback", outcome)
        \/ EndSave(h, "abandon", outcome) \/ ReserveSave(h, outcome)
        \/ RecordRetirement(h, outcome)
  BY Zenon DEF SaveAnswers
<1> DEFINE p == Answered(h, outcome)
<1>2. DOMAIN p = DOMAIN NewHandle /\ p.cmd = NoCommand /\ p.stage = q.stage
  BY TypeKept DEF Answered, NewHandle
<1> HIDE DEF p
<1>3. ASSUME NEW u, NEW v, NEW w, NEW x, NEW y, NEW z, NEW r, Update(h, r),
             \/ r = [p EXCEPT !.alive = x]
             \/ r = [p EXCEPT !.certificate = x]
             \/ r = [p EXCEPT !.certificate = x, !.stage = y]
             \/ r = [p EXCEPT !.stage = y, !.certificate = x]
             \/ r = [p EXCEPT !.stage = y]
             \/ r = [p EXCEPT !.stage = y, !.slot = x]
             \/ r = [p EXCEPT !.stage = y, !.cancel = z, !.slot = x]
             \/ r = [p EXCEPT !.stopped = x, !.cancel = z, !.commandEnded = u],
             y \in Stage
      PROVE  TypedStep(h)
  <2>1. r.cmd = NoCommand /\ r.stage \in {y, q.stage}
    BY <1>2, <1>3 DEF NewHandle
  <2>2. QED
    BY <1>3, <2>1, TypeKept, NoCommandTyped DEF TypedStep
<1>4. ASSUME Update(h, NewHandle) \/ Update(h, p)
      PROVE  TypedStep(h)
  <2>1. NewHandle.cmd = NoCommand /\ NewHandle.stage \in Stage
    BY DEF NewHandle, Stage
  <2>2. QED
    BY <1>2, <1>4, <2>1, TypeKept, NoCommandTyped DEF TypedStep
<1>5. ASSUME NEW op \in {"observe", "reattest"}, NEW evs,
             Update(h, [p EXCEPT !.cmd = Pending(op, evs)])
      PROVE  TypedStep(h)
  <2>1. PICK c, r : c = Pending(op, evs) /\ r = [p EXCEPT !.cmd = c] /\ Update(h, r)
    BY <1>5
  <2>2. r.cmd = c /\ c.op \in IdleOps /\ r.stage = q.stage
    BY <1>2, <2>1 DEF NewHandle, Pending, IdleOps
  <2>3. QED
    BY <2>1, <2>2, TypeKept, OpsDisjoint DEF TypedStep, Typed
<1>6. ASSUME NEW slot, NEW k, Update(h, Finished([p EXCEPT !.view = slot], k))
      PROVE  TypedStep(h)
  <2>1. PICK o : o = [p EXCEPT !.view = slot] /\ Update(h, Finished(o, k))
    BY <1>6
  <2>2. DOMAIN o = DOMAIN NewHandle /\ o.cmd = NoCommand /\ o.stage = q.stage
    BY <1>2, <2>1 DEF NewHandle
  <2>3. QED
    BY <2>1, <2>2, TypeKept, OverTyped
<1>7. ASSUME NEW r, Update(h, r), r \in Started(h, p) \/ \E x : r = Finished(p, x)
      PROVE  TypedStep(h)
  BY <1>2, <1>7, TypeKept, OverTyped
<1>8. CASE ClaimSave(h, outcome)
  <2>1. \/ \E r \in Started(h, p) : Update(h, r)
        \/ Update(h, [p EXCEPT !.cmd = Pending("observe", <<>>)])
        \/ Update(h, ClaimDefeat(h, p))
        \/ Update(h, Finished(p, "error"))
    BY <1>8, Zenon DEF ClaimSave, p
  <2>2. \/ ClaimDefeat(h, p) = Finished(p, "error")
        \/ \E slot, k : ClaimDefeat(h, p) = Finished([p EXCEPT !.view = slot], k)
    BY Zenon DEF ClaimDefeat
  <2>3. QED
    BY <1>5, <1>6, <1>7, <2>1, <2>2
<1>9. ASSUME NEW y \in {"promoting", "tailing", "winding", "resolving", "done"}, NEW x,
             \/ Update(h, [p EXCEPT !.stage = y, !.certificate = x])
             \/ Update(h, [p EXCEPT !.certificate = x, !.stage = y])
             \/ Update(h, [p EXCEPT !.stage = y])
             \/ Update(h, [p EXCEPT !.stage = y, !.slot = x])
             \/ Update(h, [p EXCEPT !.stage = y, !.cancel = TRUE, !.slot = x])
             \/ Update(h, [p EXCEPT !.certificate = x]) \/ Update(h, [p EXCEPT !.alive = x])
      PROVE  TypedStep(h)
  BY <1>3, <1>9 DEF Stage
<1>10. CASE \/ CatchUpSave(h, outcome) \/ PromoteAfterCatchUpSave(h, outcome)
            \/ BeginSave(h, outcome) \/ PolicySave(h, outcome) \/ PromoteSave(h, outcome)
            \/ ResolveRetrySave(h, outcome) \/ ReleaseClaimSave(h, outcome)
  <2>1. CASE CatchUpSave(h, outcome)
    BY <1>9, <2>1, Zenon DEF CatchUpSave, p
  <2>2. CASE PromoteAfterCatchUpSave(h, outcome)
    BY <1>9, <2>2, Zenon DEF PromoteAfterCatchUpSave, p
  <2>3. CASE BeginSave(h, outcome) \/ PolicySave(h, outcome)
    BY <1>4, <1>9, <2>3, Zenon DEF BeginSave, PolicySave, p
  <2>4. CASE PromoteSave(h, outcome) \/ ReleaseClaimSave(h, outcome)
    BY <1>9, <2>4, Zenon DEF PromoteSave, ReleaseClaimSave, p
  <2>5. CASE ResolveRetrySave(h, outcome)
    BY <1>4, <1>9, <2>5, Zenon DEF ResolveRetrySave, p
  <2>6. QED
    BY <1>10, <2>1, <2>2, <2>3, <2>4, <2>5
<1>11. CASE \/ EndSave(h, "rollback", outcome) \/ EndSave(h, "abandon", outcome)
            \/ ReserveSave(h, outcome) \/ RecordRetirement(h, outcome)
  <2>1. \/ \E u : Update(h, [p EXCEPT !.stopped = TRUE, !.cancel = TRUE, !.commandEnded = u])
        \/ Update(h, [p EXCEPT !.cmd = Pending("reattest", q.cmd.evs)])
        \/ Update(h, p)
    BY <1>11, Zenon DEF EndSave, ReserveSave, RecordRetirement, p
  <2>2. "done" \in Stage
    BY DEF Stage
  <2>3. QED
    BY <1>3, <1>4, <1>5, <2>1, <2>2
<1>12. QED
  BY <1>1, <1>8, <1>10, <1>11

LEMMA NextTyped ==
  ASSUME LifecycleInv, TypeInv, [Next]_vars
  PROVE  UNCHANGED handle \/ \E h \in Runner : TypedStep(h)
<1>1. ASSUME NEW h \in Runner, Internal(h)
      PROVE  TypedStep(h)
  BY <1>1, SavesTyped, ObserveClaimTyped, RunTyped, EndsTyped, LossTyped, MarksTyped,
     DestructionAsks, RetireAsks, AskTyped
     DEF Internal
<1>2. ASSUME NEW h \in Runner, External(h) \/ ProcessorReturn(h)
      PROVE  TypedStep(h)
  <2>1. ReconcileFail(h) => TypedStep(h)
    BY StopsTyped
  <2>2. QED
    BY <1>2, <2>1, LoadAsks, EndAsks, RetireAsks, AskTyped, RunEnterTyped, RunTyped, MarksTyped,
       EndsTyped
       DEF External
<1>3. ASSUME NEW h \in Runner, NEW v \in 0 .. Tip, Reconcile(h, v)
      PROVE  TypedStep(h)
  BY <1>3, StopsTyped
<1>4. Land \/ (\E w \in Witness : Deliver(w)) \/ UNCHANGED vars => UNCHANGED handle
  BY DEF Land, Deliver, vars
<1>5. QED
  BY <1>1, <1>2, <1>3, <1>4 DEF Next

\* What may land late was once being saved.
LEMMA NextSaves ==
  ASSUME [Next]_vars
  PROVE  inflight' \subseteq Saving
<1>1. inflight \subseteq Saving /\ \A h \in Runner :
        handle[h].cmd.op \in SaveOps => inflight \cup {handle[h].cmd.evs} \subseteq Saving
  BY DEF Saving
<1>2. ASSUME NEW h \in Runner, SaveAnswers(h)
      PROVE  inflight' \subseteq Saving
  <2>1. PICK op \in SaveOps : \E outcome \in Outcome : Saves(h, op, outcome)
    BY <1>2 DEF SaveAnswers, SaveOps, BeginSave, PolicySave, ClaimSave, CatchUpSave,
       PromoteSave, PromoteAfterCatchUpSave, ResolveRetrySave, ReleaseClaimSave, EndSave,
       ReserveSave, RecordRetirement
  <2>2. QED
    BY <1>1, <2>1 DEF Saves
<1>3. ASSUME NEW h \in Runner, Crash(h)
      PROVE  inflight' \subseteq Saving
  BY <1>1, <1>3 DEF Crash
<1>4. ASSUME NEW h \in Runner, Internal(h), ~SaveAnswers(h)
      PROVE  UNCHANGED inflight
  BY <1>4, Zenon DEF Internal, ObserveClaim, PromoteAfterCatchUp, ResolveHalt, ResolveRetry,
     ResolveSlot, Wound, Drained, ClassifyExit, ReleaseClaim, PublishProcessorExit,
     ReconcileExit, Attest, Attested, Reattest, Teardown, DropCheckpoint
<1>5. ASSUME NEW h \in Runner, External(h) \/ ProcessorReturn(h), ~Crash(h)
      PROVE  UNCHANGED inflight
  BY <1>5, Zenon DEF External, ProcessorReturn, BeginLoad, PolicyLoad, Resume, RunEnter,
     CatchUp, Promote, Rollback, Abandon, Retire, CancelRun, ReconcileFail
<1>6. QED
  BY <1>1, <1>2, <1>3, <1>4, <1>5 DEF Next, Reconcile, Deliver, Land, vars

LEMMA NextBounded ==
  ASSUME LifecycleInv, StreamInv, TypeInv, [Next]_vars
  PROVE  StateIn(log', Len(log')).allocated <= MaxVersion
<1> DEFINE s == StateIn(log, Tip)
<1>1. /\ Tip \in Nat /\ Tip = Len(log) /\ Sound(s) /\ LogOK
      /\ s.allocated <= MaxVersion
  BY FoldedIsSound DEF LifecycleInv, StreamInv, TypeInv, LogOK, Tip
<1>2. CASE UNCHANGED log
  BY <1>1, <1>2
<1>3. ASSUME NEW h \in Runner, NEW evs \in Saving, Writes(h, evs, s), log' = Recorded(evs)
      PROVE  StateIn(log', Len(log')).allocated <= MaxVersion
  <2> DEFINE m == ApplyTo(evs[1], s)
  <2>1. Accepts(evs[1], s) /\ NamedEvent(evs[1]) /\ Bounded(evs)
    BY <1>3 DEF Writes, Accepted, Saving, TypeInv, Typed
  <2>2. Sound(m) /\ m.allocated <= MaxVersion
    BY <1>1, <2>1, SoundStep, AcceptedBound DEF Bounded
  <2>3. CASE evs = <<evs[1]>>
    BY <1>1, <1>3, <2>2, <2>3, RecordedOne DEF StateIn
  <2>4. CASE evs = <<evs[1], BuildStarted>> /\ Accepts(BuildStarted, m)
    <3>1. evs[2] = BuildStarted /\ evs = <<evs[1], evs[2]>>
      BY <2>4
    <3>2. StateIn(log', Len(log')) = ApplyTo(BuildStarted, m)
      BY <1>1, <1>3, <3>1, RecordedTwo DEF StateIn
    <3>3. BuildStarted.type # "RebuildInitiated"
      BY DEF BuildStarted
    <3>4. QED
      BY <2>2, <2>4, <3>2, <3>3, AcceptedBound
  <2>5. QED
    BY <1>3, <2>3, <2>4 DEF Writes, Accepted
<1>4. QED
  BY <1>1, <1>2, <1>3, NextAppends DEF OwnAppend

LEMMA InitTypes ==
  ASSUME Init
  PROVE  TypeInv
<1>1. StateIn(log, Len(log)).allocated <= MaxVersion
  <2>1. log = Start /\ Len(Start) \in Nat /\ DOMAIN Start = 1 .. Len(Start)
    BY StartIsFolded DEF Init
  <2>2. CASE Len(Start) = 0
    BY <2>1, <2>2, LifecycleBounds DEF StateIn, NewState
  <2>3. CASE Len(Start) # 0
    BY <2>1, <2>3, StartAssumption DEF StateIn
  <2>4. QED
    BY <2>2, <2>3
<1>2. ASSUME NEW h \in Runner
      PROVE  Typed(handle[h])
  <2>1. handle[h].cmd = NoCommand /\ handle[h].stage \in Stage
    BY DEF Init, NewHandle, Stage
  <2>2. QED
    BY <2>1, NoCommandTyped
<1>3. QED
  BY <1>1, <1>2 DEF TypeInv, Init

\* Nothing is allocated past the bound and no command is saved that would be
\* (orchestrator.go, Begin).
THEOREM TypeInvariance ==
  ASSUME ForeignRefold = FALSE
  PROVE  Spec => [](LifecycleInv /\ StreamInv /\ RetireInv /\ TypeInv)
<1>1. Init => TypeInv
  BY InitTypes
<1>2. LifecycleInv /\ StreamInv /\ TypeInv /\ [Next]_vars => TypeInv'
  <2>1. SUFFICES ASSUME LifecycleInv, StreamInv, TypeInv, [Next]_vars
                 PROVE  TypeInv'
    OBVIOUS
  <2>2. \A evs \in inflight' : Bounded(evs)
    BY <2>1, NextSaves DEF Saving, TypeInv, Typed
  <2>3. \A h \in Runner : Typed(handle'[h])
    BY <2>1, NextTyped DEF TypedStep, Update, TypeInv, LifecycleInv
  <2>4. QED
    BY <2>1, <2>2, <2>3, NextBounded DEF TypeInv, Typed, Bounded
<1>3. QED
  BY <1>1, <1>2, RetireInvariance, PTL DEF Spec

\* Every recorded state is a state of the fold, a view is a version of the stream, a
\* command is one of those the handle has, and only versions that were allocated are
\* torn down or dropped (state.go, State; handle.go, Rebuild).
THEOREM LifecycleTypeOK ==
  ASSUME ForeignRefold = FALSE
  PROVE  Spec => []TypeOK
<1>1. LifecycleInv /\ StreamInv /\ RetireInv /\ TypeInv => TypeOK
  <2>1. SUFFICES ASSUME LifecycleInv, StreamInv, RetireInv, TypeInv
                 PROVE  TypeOK
    OBVIOUS
  <2>2. Tip \in Nat /\ Tip = Len(log) /\ Folded(log)
    BY <2>1 DEF LifecycleInv, LogOK, StreamInv, Tip
  <2>3. \A i \in 1 .. Tip : log[i].state \in State
    BY <2>2, FoldedStep DEF Sound
  <2>4. ASSUME NEW v \in torn
        PROVE  v \in 1 .. MaxVersion
    <3> DEFINE t == StateIn(log, Len(log))
    <3>1. PICK i \in 1 .. Len(log) : ReservedIn(log, i, v)
      BY <2>1, <2>4 DEF RetireInv, Reserved
    <3>2. v \in Nat /\ v # 0 /\ t.live \in Nat /\ t.live > v
      BY <2>2, <3>1, ReservedIsPast
    <3>3. t.live <= t.allocated /\ t.allocated \in Nat /\ t.allocated <= MaxVersion
      BY <2>1, <2>2, FoldedIsSound, SoundAttempt DEF TypeInv
    <3> HIDE DEF t
    <3>4. QED
      BY <3>2, <3>3, LifecycleBounds
  <2>5. torn \subseteq 1 .. MaxVersion /\ dropped \subseteq 1 .. MaxVersion
    BY <2>1, <2>4 DEF LifecycleInv, RetiredIsGone
  <2>6. ASSUME NEW h \in Runner
        PROVE  /\ DOMAIN handle[h] = DOMAIN NewHandle /\ handle[h].view \in 0 .. Tip
               /\ handle[h].stage \in Stage
               /\ handle[h].cmd.op \in SaveOps \cup
                    {"none", "observe", "preflight", "reattest", "recheck", "teardown", "drop"}
    BY <2>1, Shape DEF SoundHandle, TypeInv, Typed, RetireOps, IdleOps
  <2>7. QED
    BY <2>1, <2>3, <2>5, <2>6 DEF TypeOK, LifecycleInv, RetireInv
<1>2. QED
  BY <1>1, TypeInvariance, PTL
=============================================================================
