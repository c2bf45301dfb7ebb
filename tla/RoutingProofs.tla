---------------------------- MODULE RoutingProofs ----------------------------
(***************************************************************************)
(* For every number of workers, setters, readers and cutovers: a worker    *)
(* that is ready has its routes converged, a route moves only to a newer   *)
(* recorded cutover, and the stream router's cache is the fold of the      *)
(* record up to its cursor and as current as the last refresh.             *)
(*                                                                         *)
(* The argument rests on one fact about the record: the n-th cutover of a  *)
(* lineage that the fold accepts has revision n.  Positions, revisions and *)
(* lengths of queues can then be compared with each other, and a fold that *)
(* is resumed from a cursor is the fold from zero.                         *)
(***************************************************************************)
EXTENDS Routing, LifecycleFoldProofs, SequenceTheorems

-----------------------------------------------------------------------------
(* The fold of a record.                                                    *)

FoldOver(h, start, fold) ==
  LET f[i \in start .. Len(h)] ==
        IF i = start THEN fold ELSE ApplyCutoverEvent(h[i], f[i - 1])
  IN  f

FoldAt(h, i) == FoldOver(h, 0, NewCutoverFold)[i]

LEMMA FoldOverSteps ==
  ASSUME NEW h, Len(h) \in Nat, NEW start \in 0 .. Len(h), NEW fold
  PROVE  /\ FoldOver(h, start, fold)[start] = fold
         /\ \A i \in start + 1 .. Len(h) :
              FoldOver(h, start, fold)[i] = ApplyCutoverEvent(h[i], FoldOver(h, start, fold)[i - 1])
<1> DEFINE Upto(n, f) == f = [i \in start .. n |->
                 IF i = start THEN fold ELSE ApplyCutoverEvent(h[i], f[i - 1])]
           rest == Len(h) - start
           S == {m \in 0 .. rest : \E f : Upto(start + m, f)}
<1>1. rest \in Nat /\ start \in Nat /\ start + rest = Len(h)
  OBVIOUS
<1> HIDE DEF rest
<1>2. 0 \in S
  <2>1. \E f : Upto(start + 0, f)
    <3>1. start + 0 = start
      BY <1>1
    <3>2. Upto(start, [i \in start .. start |-> fold])
      BY <1>1
    <3> HIDE DEF Upto
    <3>3. QED
      BY <3>1, <3>2
  <2> HIDE DEF Upto
  <2>2. QED
    BY <1>1, <2>1
<1>3. ASSUME NEW m \in 1 .. rest, m - 1 \in S
      PROVE  m \in S
  <2> DEFINE n == start + m
  <2>1. PICK f : Upto(n - 1, f)
    <3>1. \E f : Upto(start + (m - 1), f)
      BY <1>3
    <3>2. start + (m - 1) = n - 1
      BY <1>1
    <3> HIDE DEF Upto, n
    <3>3. QED
      BY <3>1, <3>2
  <2>2. n \in Nat /\ n > start /\ m \in 0 .. rest
    BY <1>1
  <2> HIDE DEF n
  <2> DEFINE g == [i \in start .. n |-> IF i = n THEN ApplyCutoverEvent(h[n], f[n - 1]) ELSE f[i]]
  <2>3. \A i \in start .. n - 1 : f[i] = IF i = start THEN fold ELSE ApplyCutoverEvent(h[i], f[i - 1])
    BY <2>1, Zenon
  <2>4. \A i \in start .. n : g[i] = IF i = start THEN fold ELSE ApplyCutoverEvent(h[i], g[i - 1])
    <3> TAKE i \in start .. n
    <3>1. CASE i = n
      <4>1. g[n] = ApplyCutoverEvent(h[n], f[n - 1]) /\ g[n - 1] = f[n - 1]
        BY <1>1, <2>2
      <4>2. QED
        BY <2>2, <3>1, <4>1
    <3>2. CASE i \in start .. n - 1
      <4>1. g[i] = f[i] /\ (i # start => g[i - 1] = f[i - 1])
        BY <1>1, <2>2, <3>2
      <4>2. QED
        BY <2>3, <3>2, <4>1
    <3>3. QED
      BY <1>1, <2>2, <3>1, <3>2
  <2>5. Upto(n, g)
    <3>1. g = [i \in start .. n |-> g[i]]
      OBVIOUS
    <3> HIDE DEF g
    <3>2. QED
      BY <2>4, <3>1
  <2> HIDE DEF Upto, g
  <2>6. QED
    BY <2>2, <2>5 DEF n
<1>4. rest \in S
  <2> HIDE DEF S
  <2>1. \A m \in 0 .. rest : m \in S
    BY <1>1, <1>2, <1>3, IntervalInduction
  <2>2. QED
    BY <1>1, <2>1
<1>5. \E f : Upto(Len(h), f)
  BY <1>1, <1>4
<1>6. Upto(Len(h), FoldOver(h, start, fold))
  <2>1. FoldOver(h, start, fold) = CHOOSE f : Upto(Len(h), f)
    BY DEF FoldOver
  <2> HIDE DEF Upto
  <2>2. QED
    BY <1>5, <2>1
<1> DEFINE F == FoldOver(h, start, fold)
<1>7. \A i \in start .. Len(h) : F[i] = IF i = start THEN fold ELSE ApplyCutoverEvent(h[i], F[i - 1])
  <2> HIDE DEF F
  <2>1. F = [i \in start .. Len(h) |-> IF i = start THEN fold ELSE ApplyCutoverEvent(h[i], F[i - 1])]
    BY <1>6 DEF F
  <2>2. QED
    BY <2>1, Zenon
<1> HIDE DEF F
<1>8. start \in start .. Len(h) /\ \A i \in start + 1 .. Len(h) : i \in start .. Len(h) /\ i # start
  BY <1>1
<1>9. QED
  BY <1>7, <1>8 DEF F

LEMMA FoldAtSteps ==
  ASSUME NEW h, Len(h) \in Nat
  PROVE  /\ FoldAt(h, 0) = NewCutoverFold
         /\ \A i \in 1 .. Len(h) : FoldAt(h, i) = ApplyCutoverEvent(h[i], FoldAt(h, i - 1))
<1>1. 0 \in 0 .. Len(h) /\ 0 + 1 = 1
  OBVIOUS
<1>2. QED
  BY <1>1, FoldOverSteps DEF FoldAt

\* A longer record folds to the same where it is not longer.
LEMMA FoldGrown ==
  ASSUME NEW h, NEW m, Len(h) \in Nat, Len(m) \in Nat, Len(h) <= Len(m),
         \A i \in 1 .. Len(h) : m[i] = h[i]
  PROVE  \A i \in 0 .. Len(h) : FoldAt(m, i) = FoldAt(h, i)
<1> DEFINE S == {i \in 0 .. Len(h) : FoldAt(m, i) = FoldAt(h, i)}
<1>1. 0 \in S
  BY FoldAtSteps
<1>2. \A i \in 1 .. Len(h) : i - 1 \in S => i \in S
  <2> TAKE i \in 1 .. Len(h)
  <2>1. i \in 1 .. Len(m) /\ m[i] = h[i]
    OBVIOUS
  <2>2. /\ FoldAt(m, i) = ApplyCutoverEvent(m[i], FoldAt(m, i - 1))
        /\ FoldAt(h, i) = ApplyCutoverEvent(h[i], FoldAt(h, i - 1))
    BY <2>1, FoldAtSteps
  <2>3. QED
    BY <2>1, <2>2
<1> HIDE DEF S
<1>3. \A i \in 0 .. Len(h) : i \in S
  BY <1>1, <1>2, IntervalInduction
<1>4. QED
  BY <1>3 DEF S

\* A fold that is resumed from a cursor is the fold from zero.
LEMMA FoldResumed ==
  ASSUME NEW h, Len(h) \in Nat, NEW start \in 0 .. Len(h), NEW v \in start .. Len(h)
  PROVE  FoldOver(h, start, FoldAt(h, start))[v] = FoldAt(h, v)
<1> DEFINE F == FoldOver(h, start, FoldAt(h, start))
           rest == Len(h) - start
           S == {m \in 0 .. rest : F[start + m] = FoldAt(h, start + m)}
<1>1. rest \in Nat /\ start \in Nat /\ start + rest = Len(h)
  OBVIOUS
<1>2. /\ F[start] = FoldAt(h, start)
      /\ \A i \in start + 1 .. Len(h) : F[i] = ApplyCutoverEvent(h[i], F[i - 1])
  BY FoldOverSteps
<1>3. \A i \in 1 .. Len(h) : FoldAt(h, i) = ApplyCutoverEvent(h[i], FoldAt(h, i - 1))
  BY FoldAtSteps
<1> HIDE DEF F, rest
<1>4. 0 \in S
  BY <1>1, <1>2
<1>5. \A m \in 1 .. rest : m - 1 \in S => m \in S
  <2> SUFFICES ASSUME NEW m \in 1 .. rest, m - 1 \in S PROVE m \in S
    OBVIOUS
  <2> DEFINE n == start + m
  <2>1. /\ n \in start + 1 .. Len(h) /\ n \in 1 .. Len(h) /\ start + (m - 1) = n - 1
        /\ m \in 0 .. rest
    BY <1>1
  <2>2. F[start + (m - 1)] = FoldAt(h, start + (m - 1))
    OBVIOUS
  <2> HIDE DEF n
  <2>3. F[n] = FoldAt(h, n)
    BY <1>2, <1>3, <2>1, <2>2
  <2>4. QED
    BY <2>1, <2>3 DEF n
<1> HIDE DEF S
<1>6. \A m \in 0 .. rest : m \in S
  BY <1>1, <1>4, <1>5, IntervalInduction
<1>7. v - start \in 0 .. rest /\ start + (v - start) = v
  BY <1>1
<1>8. QED
  BY <1>6, <1>7 DEF S, F

-----------------------------------------------------------------------------
(* The record.                                                              *)

\* An accepted event is the next revision.
LEMMA CutoverAccepted ==
  ASSUME NEW f \in CutoverFold, NEW e \in CutoverEvents, ~ApplyCutoverEvent(e, f).broken
  PROVE  /\ ApplyCutoverEvent(e, f) \in CutoverFold
         /\ ApplyCutoverEvent(e, f).current = DecodeCutover(e).cutover
         /\ ApplyCutoverEvent(e, f).current.revision = f.current.revision + 1
<1>1. CASE e \in {Promoted(p, n, r, 0) : p, n \in 0 .. MaxVersion, r \in 1 .. MaxCutovers}
  <2>1. PICK p \in 0 .. MaxVersion, n \in 0 .. MaxVersion, r \in 1 .. MaxCutovers : e = Promoted(p, n, r, 0)
    BY <1>1
  <2>2. /\ IsCutover(e) /\ DecodeCutover(e).cutover = [live |-> n, revision |-> r]
        /\ DecodeCutover(e).from = p /\ ~DecodeCutover(e).rollback
        /\ p \in Nat /\ n \in Nat /\ r \in Nat
    BY <2>1, WorkerBounds DEF IsCutover, DecodeCutover, Promoted
  <2>3. QED
    BY <2>2 DEF ApplyCutoverEvent, CutoverFold, Cutover
<1>2. CASE e \in {RolledBack(p, n, r) : p, n \in 0 .. MaxVersion, r \in 1 .. MaxCutovers}
  <2>1. PICK p \in 0 .. MaxVersion, n \in 0 .. MaxVersion, r \in 1 .. MaxCutovers : e = RolledBack(p, n, r)
    BY <1>2
  <2>2. /\ IsCutover(e) /\ DecodeCutover(e).cutover = [live |-> n, revision |-> r]
        /\ DecodeCutover(e).from = p /\ DecodeCutover(e).rollback
        /\ p \in Nat /\ n \in Nat /\ r \in Nat
    BY <2>1, WorkerBounds DEF IsCutover, DecodeCutover, RolledBack
  <2>3. QED
    BY <2>2 DEF ApplyCutoverEvent, CutoverFold, Cutover
<1>3. QED
  BY <1>1, <1>2 DEF CutoverEvents

\* The n-th recorded cutover has revision n, and the fold accepts it.
Lineage(h) ==
  /\ h \in Seq(CutoverEvents)
  /\ \A i \in 0 .. Len(h) :
       /\ FoldAt(h, i) \in CutoverFold /\ ~FoldAt(h, i).broken
       /\ FoldAt(h, i).current.revision = i
  /\ \A i \in 1 .. Len(h) : DecodeCutover(h[i]).cutover = FoldAt(h, i).current

LEMMA LineageEmpty == Lineage(<<>>)
<1>1. <<>> \in Seq(CutoverEvents) /\ Len(<<>>) = 0
  BY EmptySeq
<1>2. FoldAt(<<>>, 0) = NewCutoverFold
  BY <1>1, FoldAtSteps
<1>3. NewCutoverFold \in CutoverFold /\ ~NewCutoverFold.broken /\ NewCutoverFold.current.revision = 0
  BY DEF NewCutoverFold, CutoverFold, Cutover
<1>4. \A i \in 0 .. Len(<<>>) : i = 0
  BY <1>1
<1>5. QED
  BY <1>1, <1>2, <1>3, <1>4 DEF Lineage

\* Recording the next cutover.
LEMMA LineageGrows ==
  ASSUME NEW h, Lineage(h), NEW e \in CutoverEvents,
         ~ApplyCutoverEvent(e, FoldAt(h, Len(h))).broken
  PROVE  /\ Lineage(Append(h, e)) /\ Len(h) \in Nat /\ Len(Append(h, e)) = Len(h) + 1
         /\ \A i \in 0 .. Len(h) : FoldAt(Append(h, e), i) = FoldAt(h, i)
<1> DEFINE m == Append(h, e)
           n == Len(h) + 1
<1>1. /\ h \in Seq(CutoverEvents) /\ Len(h) \in Nat
      /\ m \in Seq(CutoverEvents) /\ Len(m) = n
      /\ \A i \in 1 .. Len(h) : m[i] = h[i]
      /\ m[n] = e
  BY AppendProperties, LenProperties DEF Lineage
<1> HIDE DEF m
<1>2. \A i \in 0 .. Len(h) : FoldAt(m, i) = FoldAt(h, i)
  BY <1>1, FoldGrown
<1>3. FoldAt(m, n) = ApplyCutoverEvent(e, FoldAt(h, Len(h)))
  <2>1. n \in 1 .. Len(m) /\ n - 1 = Len(h) /\ Len(h) \in 0 .. Len(h)
    BY <1>1
  <2>2. FoldAt(m, n) = ApplyCutoverEvent(m[n], FoldAt(m, n - 1))
    BY <1>1, <2>1, FoldAtSteps
  <2>3. QED
    BY <1>1, <1>2, <2>1, <2>2
<1>4. /\ FoldAt(m, n) \in CutoverFold /\ ~FoldAt(m, n).broken
      /\ FoldAt(m, n).current.revision = n /\ DecodeCutover(e).cutover = FoldAt(m, n).current
  <2>1. FoldAt(h, Len(h)) \in CutoverFold /\ FoldAt(h, Len(h)).current.revision = Len(h)
    BY <1>1 DEF Lineage
  <2>2. QED
    BY <1>3, <2>1, CutoverAccepted
<1>5. /\ \A i \in 0 .. n : i \in 0 .. Len(h) \/ i = n
      /\ \A i \in 1 .. n : i \in 1 .. Len(h) \/ i = n
      /\ \A i \in 1 .. Len(h) : i \in 0 .. Len(h)
  BY <1>1
<1> HIDE DEF n
<1>6. \A i \in 0 .. n : /\ FoldAt(m, i) \in CutoverFold /\ ~FoldAt(m, i).broken
                        /\ FoldAt(m, i).current.revision = i
  BY <1>2, <1>4, <1>5 DEF Lineage
<1>7. \A i \in 1 .. n : DecodeCutover(m[i]).cutover = FoldAt(m, i).current
  BY <1>1, <1>2, <1>4, <1>5 DEF Lineage
<1>8. QED
  BY <1>1, <1>2, <1>6, <1>7 DEF Lineage, m, n

-----------------------------------------------------------------------------
(* Workers.                                                                 *)

Phases == {"starting", "initializing", "ready", "delivering", "stopped"}
WorkerState ==
  [phase : Phases, mark : Nat, fold : CutoverFold, queue : Seq(Cutover), next : Nat,
   failed : BOOLEAN]

\* A worker has the fold up to its mark, and queues the last cutovers before it.
Follows(w, h) ==
  /\ w.mark <= Len(h) /\ w.fold = FoldAt(h, w.mark)
  /\ Len(w.queue) <= w.mark
  /\ \A i \in 1 .. Len(w.queue) :
       w.queue[i] = FoldAt(h, w.mark - Len(w.queue) + i).current

\* How far the worker's deliveries have brought the setter in place i.  An initial
\* delivery skips all cutovers but the last.
Brought(w, i) ==
  IF w.queue = <<>> \/ (w.phase = "initializing" /\ i < w.next) THEN w.mark
  ELSE IF w.phase = "initializing" THEN 0
  ELSE w.mark - Len(w.queue) + (IF i < w.next THEN 1 ELSE 0)

Delivers(w, served) ==
  /\ w.phase = "ready" => w.queue = <<>>
  /\ w.phase = "initializing" => Len(w.queue) \in {0, 1}
  /\ w.phase \in {"initializing", "ready", "delivering"} =>
       \A i \in 1 .. Len(Setters) : served[Setters[i]].revision >= Brought(w, i)

SoundWorker(w, h, served) == Follows(w, h) /\ Delivers(w, served)

WorkersInv ==
  /\ Lineage(history)
  /\ worker \in [Worker -> WorkerState]
  /\ applied \in [Witness -> Cutover]
  /\ \A k \in Worker : SoundWorker(worker[k], history, applied)

\* What a worker has to show once it stands still, or starts.
LEMMA WorkerShape ==
  ASSUME WorkersInv, NEW k \in Worker
  PROVE  /\ worker[k] \in WorkerState /\ worker[k].phase \in Phases
         /\ worker[k].mark \in Nat /\ worker[k].fold \in CutoverFold
         /\ worker[k].queue \in Seq(Cutover) /\ worker[k].next \in Nat
         /\ worker[k].failed \in BOOLEAN /\ Len(worker[k].queue) \in Nat
         /\ Follows(worker[k], history) /\ Delivers(worker[k], applied)
         /\ Len(history) \in Nat
<1>1. worker[k] \in WorkerState
  BY DEF WorkersInv
<1>2. worker[k].queue \in Seq(Cutover) /\ Len(history) \in Nat
  BY <1>1, LenProperties DEF WorkerState, WorkersInv, Lineage
<1>3. Len(worker[k].queue) \in Nat
  BY <1>2, LenProperties
<1>4. QED
  BY <1>1, <1>2, <1>3 DEF WorkerState, WorkersInv, SoundWorker

LEMMA NewWorkerSound ==
  ASSUME NEW h, Len(h) \in Nat, NEW served
  PROVE  NewWorker \in WorkerState /\ SoundWorker(NewWorker, h, served)
<1>1. <<>> \in Seq(Cutover) /\ Len(<<>>) = 0
  BY EmptySeq
<1>2. NewCutoverFold \in CutoverFold
  BY DEF NewCutoverFold, CutoverFold, Cutover
<1>3. NewWorker \in WorkerState
  BY <1>1, <1>2 DEF NewWorker, WorkerState, Phases
<1>4. /\ NewWorker.mark = 0 /\ NewWorker.fold = NewCutoverFold /\ NewWorker.queue = <<>>
      /\ NewWorker.phase = "starting"
  BY DEF NewWorker
<1>5. FoldAt(h, 0) = NewCutoverFold
  BY FoldAtSteps
<1>6. QED
  BY <1>1, <1>3, <1>4, <1>5 DEF SoundWorker, Follows, Delivers

\* One worker's step that changes no route.
LEMMA UpdateInv ==
  ASSUME WorkersInv, NEW k \in Worker, NEW w \in WorkerState, Update(k, w),
         UNCHANGED <<history, applied>>, SoundWorker(w, history, applied)
  PROVE  WorkersInv'
<1>1. worker' \in [Worker -> WorkerState] /\ \A j \in Worker : worker'[j] = IF j = k THEN w ELSE worker[j]
  BY DEF WorkersInv, Update
<1>2. QED
  BY <1>1 DEF WorkersInv

\* The cutovers between two positions, as the folds have them.
LEMMA AcceptedIsFolded ==
  ASSUME Lineage(history), NEW from \in 0 .. Len(history), NEW to \in from .. Len(history)
  PROVE  /\ Accepted(from, to) \in Seq(Cutover) /\ Len(Accepted(from, to)) = to - from
         /\ \A i \in 1 .. to - from : Accepted(from, to)[i] = FoldAt(history, from + i).current
<1> DEFINE q == Accepted(from, to)
           n == to - from
<1>1. Len(history) \in Nat
  BY LenProperties DEF Lineage
<1>2. n \in Nat /\ from \in Nat /\ to = from + n
  BY <1>1
<1>3. q = [i \in 1 .. n |-> DecodeCutover(history[from + i]).cutover]
  BY DEF Accepted
<1> HIDE DEF q, n
<1>4. \A i \in 1 .. n : q[i] = FoldAt(history, from + i).current /\ q[i] \in Cutover
  <2> TAKE i \in 1 .. n
  <2>1. from + i \in 1 .. Len(history) /\ from + i \in 0 .. Len(history)
    BY <1>1, <1>2
  <2>2. q[i] = DecodeCutover(history[from + i]).cutover
    BY <1>3
  <2>3. q[i] = FoldAt(history, from + i).current
    BY <2>1, <2>2 DEF Lineage
  <2>4. FoldAt(history, from + i).current \in Cutover
    BY <2>1 DEF Lineage, CutoverFold
  <2>5. QED
    BY <2>3, <2>4
<1>5. q \in Seq(Cutover) /\ Len(q) = n
  <2>1. q = [i \in 1 .. n |-> q[i]]
    BY <1>3
  <2>2. QED
    BY <1>2, <1>4, <2>1, IsASeq, LenProperties
<1>6. QED
  BY <1>4, <1>5 DEF q, n

\* A fold that is read on from a worker's mark.
LEMMA ReadOn ==
  ASSUME WorkersInv, NEW k \in Worker, NEW v \in worker[k].mark .. Len(history)
  PROVE  /\ FoldFrom(worker[k].mark, worker[k].fold)[v] = FoldAt(history, v)
         /\ v \in 0 .. Len(history) /\ FoldAt(history, v) \in CutoverFold
<1>1. /\ worker[k].mark \in 0 .. Len(history) /\ Len(history) \in Nat
      /\ worker[k].fold = FoldAt(history, worker[k].mark)
  BY WorkerShape DEF Follows
<1>2. FoldFrom(worker[k].mark, worker[k].fold) = FoldOver(history, worker[k].mark, worker[k].fold)
  BY DEF FoldFrom, FoldOver
<1>3. v \in 0 .. Len(history)
  BY <1>1
<1>4. QED
  BY <1>1, <1>2, <1>3, FoldResumed DEF WorkersInv, Lineage

\* A tailing worker that has read up to v delivers everything since its mark.
LEMMA Tailing ==
  ASSUME WorkersInv, NEW k \in Worker, worker[k].phase = "ready",
         NEW v \in worker[k].mark .. Len(history),
         NEW w \in WorkerState, w.phase = "delivering", w.mark = v, w.next = 1,
         w.fold = FoldAt(history, v), w.queue = Accepted(worker[k].mark, v)
  PROVE  SoundWorker(w, history, applied)
<1> DEFINE mark == worker[k].mark
<1>1. mark \in Nat /\ v \in Nat /\ Len(history) \in Nat /\ mark \in 0 .. Len(history) /\ mark <= v
  BY WorkerShape DEF Follows
<1>2. /\ Len(w.queue) = v - mark
      /\ \A i \in 1 .. v - mark : w.queue[i] = FoldAt(history, mark + i).current
  BY <1>1, AcceptedIsFolded DEF WorkersInv
<1>3. \A i \in 1 .. Len(Setters) : applied[Setters[i]].revision >= mark
  BY WorkerShape DEF Delivers, Brought
<1> HIDE DEF mark
<1>4. Follows(w, history)
  <2>1. v - (v - mark) = mark
    BY <1>1
  <2>2. QED
    BY <1>1, <1>2, <2>1 DEF Follows
<1>5. \A i \in 1 .. Len(Setters) : Brought(w, i) = mark
  <2> TAKE i \in 1 .. Len(Setters)
  <2>1. ~(i < 1)
    BY SettersAssumption, LenProperties
  <2>2. CASE w.queue = <<>>
    <3>1. v = mark
      BY <1>1, <1>2, <2>2, EmptySeq
    <3>2. QED
      BY <2>2, <3>1 DEF Brought
  <2>3. CASE w.queue # <<>>
    <3>1. Brought(w, i) = v - (v - mark) + 0
      BY <1>2, <2>1, <2>3 DEF Brought
    <3>2. QED
      BY <1>1, <3>1
  <2>4. QED
    BY <2>2, <2>3
<1>6. Delivers(w, applied)
  BY <1>3, <1>5 DEF Delivers
<1>7. QED
  BY <1>4, <1>6 DEF SoundWorker

LEMMA Singleton ==
  ASSUME NEW S, NEW c \in S
  PROVE  <<c>> \in Seq(S) /\ Len(<<c>>) = 1 /\ <<c>>[1] = c
<1>1. <<c>> \in Seq(S)
  OBVIOUS
<1>2. Len(<<c>>) = 1
  OBVIOUS
<1>3. <<c>>[1] = c
  OBVIOUS
<1>4. QED
  BY <1>1, <1>2, <1>3

LEMMA DrainInv ==
  ASSUME WorkersInv, NEW k \in Worker, Drain(k)
  PROVE  WorkersInv'
<1> DEFINE tip == Len(history)
           fold == FoldFrom(worker[k].mark, worker[k].fold)[tip]
           record == [worker[k] EXCEPT
                        !.mark = tip, !.next = 1,
                        !.fold = FoldFrom(worker[k].mark, @)[tip]]
           Moved(p, q) == [record EXCEPT !.phase = p, !.queue = q]
<1>1. /\ worker[k] \in WorkerState /\ worker[k].mark \in Nat /\ tip \in Nat
      /\ tip \in worker[k].mark .. Len(history) /\ worker[k].failed \in BOOLEAN
      /\ worker[k].mark \in 0 .. tip
  BY WorkerShape DEF Follows
<1>2. fold = FoldAt(history, tip)
  BY <1>1, ReadOn
<1>3. fold \in CutoverFold /\ fold.current \in Cutover /\ fold.current.revision = tip
  BY <1>1, <1>2 DEF WorkersInv, Lineage, CutoverFold
<1> HIDE DEF fold
<1>0. record = [worker[k] EXCEPT !.mark = tip, !.next = 1, !.fold = fold]
  BY DEF fold
<1> HIDE DEF record
<1>4. ASSUME NEW p \in Phases, NEW q \in Seq(Cutover)
      PROVE  /\ Moved(p, q) \in WorkerState /\ Moved(p, q).phase = p /\ Moved(p, q).mark = tip
             /\ Moved(p, q).next = 1 /\ Moved(p, q).fold = fold /\ Moved(p, q).queue = q
  <2>1. /\ record \in WorkerState /\ record.mark = tip /\ record.next = 1 /\ record.fold = fold
    BY <1>0, <1>1, <1>3 DEF WorkerState
  <2>2. QED
    BY <2>1 DEF WorkerState
<1> HIDE DEF Moved
<1>5. CASE /\ worker[k].phase = "starting"
           /\ Update(k, Moved("initializing", FinalCutover(fold)))
  <2> DEFINE q == FinalCutover(fold)
             w == Moved("initializing", q)
  <2>0. /\ tip = 0 => q = <<>>
        /\ tip # 0 => q = <<fold.current>>
    BY <1>3 DEF FinalCutover
  <2> HIDE DEF q
  <2> HIDE DEF tip
  <2>1. q \in Seq(Cutover) /\ Len(q) \in {0, 1} /\ Len(q) <= tip
    <3>1. CASE tip = 0
      BY <2>0, <3>1, EmptySeq
    <3>2. CASE tip # 0
      <4>1. q \in Seq(Cutover) /\ Len(q) = 1
        BY <1>3, <2>0, <3>2, Singleton
      <4>2. QED
        BY <1>1, <3>2, <4>1
    <3>3. QED
      BY <3>1, <3>2
  <2>a. q # <<>> => q[1] = fold.current
    BY <1>3, <2>0, Singleton
  <2>b. Len(q) = 0 \/ Len(q) = 1
    BY <2>1
  <2>2. /\ w \in WorkerState /\ w.phase = "initializing" /\ w.mark = tip /\ w.next = 1
        /\ w.fold = fold /\ w.queue = q
    BY <1>4, <2>1 DEF Phases
  <2> HIDE DEF w
  <2>3. Follows(w, history)
    <3>1. ASSUME NEW i \in 1 .. Len(q)
          PROVE  q[i] = FoldAt(history, tip - Len(q) + i).current
      <4>1. i = 1 /\ Len(q) = 1 /\ tip - Len(q) + i = tip /\ q # <<>>
        <5>1. Len(q) = 1 /\ i = 1
          <6>1. PICK len : len = Len(q)
            OBVIOUS
          <6>2. (len = 0 \/ len = 1) /\ i \in 1 .. len
            BY <2>b, <6>1
          <6>3. len = 1 /\ i = 1
            <7>1. CASE len = 0
              BY ONLY <6>2, <7>1
            <7>2. CASE len = 1
              BY ONLY <6>2, <7>2
            <7>3. QED
              BY <6>2, <7>1, <7>2
          <6>4. QED
            BY ONLY <6>1, <6>3
        <5>2. tip - 1 + 1 = tip
          BY <1>1
        <5>3. q # <<>>
          <6>1. Len(<<>>) = 0
            BY EmptySeq
          <6>2. QED
            BY ONLY <5>1, <6>1
        <5>4. QED
          BY <5>1, <5>2, <5>3
      <4>2. QED
        BY <1>2, <2>a, <4>1
    <3>2. QED
      BY <1>1, <1>2, <2>1, <2>2, <3>1 DEF Follows
  <2>4. \A i \in 1 .. Len(Setters) : Brought(w, i) = 0
    <3>1. \A i \in 1 .. Len(Setters) : ~(i < 1)
      BY SettersAssumption, LenProperties
    <3>2. q = <<>> => tip = 0
      BY <2>0
    <3>3. QED
      BY <2>2, <3>1, <3>2 DEF Brought
  <2>5. \A i \in 1 .. Len(Setters) : applied[Setters[i]].revision >= 0
    BY SettersAssumption, ElementOfSeq DEF WorkersInv, Cutover
  <2>6. Delivers(w, applied)
    <3>1. Len(w.queue) \in {0, 1}
      BY <2>1, <2>2
    <3>2. QED
      BY <2>2, <2>4, <2>5, <3>1 DEF Delivers
  <2>7. QED
    BY <1>5, <2>2, <2>3, <2>6, UpdateInv DEF Drain, SoundWorker, w, q
<1>6. CASE /\ worker[k].phase = "ready"
           /\ Update(k, Moved("delivering", Accepted(worker[k].mark, tip)))
  <2> DEFINE q == Accepted(worker[k].mark, tip)
             w == Moved("delivering", q)
  <2>1. q \in Seq(Cutover)
    BY <1>1, AcceptedIsFolded DEF WorkersInv
  <2>2. /\ w \in WorkerState /\ w.phase = "delivering" /\ w.mark = tip /\ w.next = 1
        /\ w.fold = fold /\ w.queue = q
    BY <1>4, <2>1 DEF Phases
  <2> HIDE DEF w
  <2>3. SoundWorker(w, history, applied)
    BY <1>1, <1>2, <1>6, <2>2, Tailing
  <2>4. QED
    BY <1>6, <2>2, <2>3, UpdateInv DEF Drain, w
<1>7. \/ worker[k].phase = "starting" /\ Update(k, Moved("initializing", FinalCutover(record.fold)))
      \/ worker[k].phase = "ready" /\ Update(k, Moved("delivering", Accepted(worker[k].mark, tip)))
  BY DEF Drain, Moved, record
<1>8. record.fold = fold
  BY <1>0, <1>1 DEF WorkerState
<1>9. QED
  BY <1>5, <1>6, <1>7, <1>8

LEMMA DrainFailsInv ==
  ASSUME WorkersInv, NEW k \in Worker, NEW v, DrainFails(k, v)
  PROVE  WorkersInv'
<1> DEFINE mark == worker[k].mark
           q == Accepted(mark, v)
           fold == FoldFrom(mark, worker[k].fold)[v]
           w == [worker[k] EXCEPT !.phase = "delivering", !.mark = v, !.next = 1, !.failed = TRUE,
                                  !.fold = fold, !.queue = q]
<1>1. /\ v \in worker[k].mark .. Len(history) /\ worker[k].phase = "ready"
      /\ Update(k, w) /\ UNCHANGED <<history, applied>>
  BY DEF DrainFails
<1>2. q \in Seq(Cutover)
  BY <1>1, WorkerShape, AcceptedIsFolded DEF WorkersInv, Follows
<1>0. worker[k] \in WorkerState /\ v \in Nat /\ fold = FoldAt(history, v) /\ fold \in CutoverFold
  BY <1>1, WorkerShape, ReadOn
<1> HIDE DEF q, fold
<1>3. /\ w \in WorkerState /\ w.phase = "delivering" /\ w.mark = v /\ w.next = 1
      /\ w.fold = FoldAt(history, v) /\ w.queue = q
  BY <1>0, <1>2 DEF WorkerState, Phases
<1> HIDE DEF w
<1>4. SoundWorker(w, history, applied)
  BY <1>1, <1>3, Tailing DEF q
<1>5. QED
  BY <1>1, <1>3, <1>4, UpdateInv

-----------------------------------------------------------------------------
(* Deliveries.                                                              *)

\* The head of a queue is the recorded cutover of its revision.
LEMMA HeadCutover ==
  ASSUME WorkersInv, NEW k \in Worker, worker[k].queue # <<>>
  PROVE  LET n == worker[k].mark - Len(worker[k].queue) + 1
         IN  /\ n \in 1 .. Len(history) /\ n \in 1 .. worker[k].mark
             /\ Head(worker[k].queue) \in Cutover
             /\ Head(worker[k].queue).revision = n
             /\ Head(worker[k].queue) = DecodeCutover(history[n]).cutover
<1> DEFINE q == worker[k].queue
           mark == worker[k].mark
           n == mark - Len(q) + 1
<1>1. /\ q \in Seq(Cutover) /\ mark \in Nat /\ mark <= Len(history) /\ Len(history) \in Nat
      /\ Len(q) \in Nat \ {0} /\ Len(q) <= mark /\ q # <<>>
      /\ \A i \in 1 .. Len(q) : q[i] = FoldAt(history, mark - Len(q) + i).current
  BY WorkerShape, EmptySeq DEF Follows
<1> HIDE DEF q, mark
<1>2. n \in 1 .. mark /\ n \in 1 .. Len(history) /\ n \in 0 .. Len(history) /\ 1 \in 1 .. Len(q)
  BY <1>1
<1>3. Head(q) = FoldAt(history, n).current /\ Head(q) \in Cutover
  BY <1>1, <1>2, HeadTailProperties
<1>4. Head(q).revision = n /\ Head(q) = DecodeCutover(history[n]).cutover
  BY <1>2, <1>3 DEF WorkersInv, Lineage
<1>5. QED
  BY <1>2, <1>3, <1>4 DEF q, mark

\* What a delivery does to the routes.
LEMMA Served ==
  ASSUME WorkersInv, NEW k \in Worker, Deliver(k)
  PROVE  LET cutover == Head(worker[k].queue)
         IN  /\ applied' \in [Witness -> Cutover]
             /\ \A s \in Witness : applied'[s].revision >= applied[s].revision
             /\ \A s \in Witness : applied'[s] # applied[s] =>
                  applied'[s] = cutover /\ applied'[s].revision > applied[s].revision
             /\ Setters[worker[k].next] \in Witness =>
                  applied'[Setters[worker[k].next]].revision >= cutover.revision
<1> DEFINE cutover == Head(worker[k].queue)
           s == Setters[worker[k].next]
<1>1. cutover \in Cutover
  BY HeadCutover DEF Deliver
<1>2. applied' = IF Newer(s, cutover) THEN [applied EXCEPT ![s] = cutover] ELSE applied
  BY DEF Deliver
<1>3. applied \in [Witness -> Cutover] /\ \A x \in Witness : applied[x].revision \in Nat
  BY DEF WorkersInv, Cutover
<1>4. cutover.revision \in Nat
  BY <1>1 DEF Cutover
<1> HIDE DEF cutover, s
<1>5. CASE Newer(s, cutover)
  <2>1. applied' \in [Witness -> Cutover]
        /\ \A x \in Witness : applied'[x] = IF x = s THEN cutover ELSE applied[x]
    BY <1>1, <1>2, <1>3, <1>5
  <2>2. cutover.revision > applied[s].revision
    BY <1>5 DEF Newer
  <2>3. QED
    BY <1>3, <1>4, <2>1, <2>2 DEF cutover, s
<1>6. CASE ~Newer(s, cutover)
  <2>1. applied' = applied
    BY <1>2, <1>6
  <2>2. s \in Witness => applied[s].revision >= cutover.revision
    BY <1>3, <1>4, <1>6 DEF Newer
  <2>3. \A x \in Witness : applied[x].revision >= applied[x].revision
    BY <1>3
  <2>4. QED
    BY <1>3, <2>1, <2>2, <2>3 DEF cutover, s
<1>7. QED
  BY <1>5, <1>6

LEMMA RegisteredSetter ==
  ASSUME NEW i \in 1 .. Len(Setters)
  PROVE  Setters[i] \in Witness
BY SettersAssumption, ElementOfSeq

\* Routes that have moved on owe no worker less.
LEMMA ServedMore ==
  ASSUME NEW w, NEW old \in [Witness -> Cutover], NEW new \in [Witness -> Cutover],
         \A s \in Witness : new[s].revision >= old[s].revision,
         \A i \in 1 .. Len(Setters) : Brought(w, i) \in Int,
         Delivers(w, old)
  PROVE  Delivers(w, new)
<1>1. \A s \in Witness : old[s].revision \in Nat /\ new[s].revision \in Nat
  BY DEF Cutover
<1>2. ASSUME NEW i \in 1 .. Len(Setters), old[Setters[i]].revision >= Brought(w, i)
      PROVE  new[Setters[i]].revision >= Brought(w, i)
  BY <1>1, <1>2, RegisteredSetter
<1>3. QED
  BY <1>2 DEF Delivers

LEMMA BroughtType ==
  ASSUME NEW w \in WorkerState, NEW i
  PROVE  Brought(w, i) \in Int
<1>1. w.mark \in Nat /\ w.queue \in Seq(Cutover)
  BY DEF WorkerState
<1>2. Len(w.queue) \in Nat
  BY <1>1, LenProperties
<1>3. QED
  BY <1>1, <1>2 DEF Brought

LEMMA DeliveredFields ==
  ASSUME NEW k \in Worker, worker[k] \in WorkerState, worker[k].queue # <<>>
  PROVE  /\ Delivered(k) \in WorkerState
         /\ Delivered(k).phase = worker[k].phase /\ Delivered(k).mark = worker[k].mark
         /\ Delivered(k).fold = worker[k].fold
         /\ IF worker[k].next < Len(Setters)
              THEN Delivered(k).next = worker[k].next + 1 /\ Delivered(k).queue = worker[k].queue
              ELSE Delivered(k).next = 1 /\ Delivered(k).queue = Tail(worker[k].queue)
<1> DEFINE w == worker[k]
           q == Tail(w.queue)
           n == w.next + 1
<1>1. w \in WorkerState /\ q \in Seq(Cutover) /\ n \in Nat
  BY HeadTailProperties DEF WorkerState
<1>2. Delivered(k) = IF w.next < Len(Setters) THEN [w EXCEPT !.next = n]
                     ELSE [w EXCEPT !.next = 1, !.queue = q]
  BY DEF Delivered
<1> HIDE DEF w, q, n
<1>3. CASE w.next < Len(Setters)
  <2>1. Delivered(k) = [w EXCEPT !.next = n]
    BY <1>2, <1>3
  <2>2. /\ Delivered(k) \in WorkerState /\ Delivered(k).phase = w.phase /\ Delivered(k).mark = w.mark
        /\ Delivered(k).fold = w.fold /\ Delivered(k).next = n /\ Delivered(k).queue = w.queue
    BY <1>1, <2>1 DEF WorkerState
  <2>3. QED
    BY <1>3, <2>2 DEF w, n
<1>4. CASE ~(w.next < Len(Setters))
  <2>1. Delivered(k) = [w EXCEPT !.next = 1, !.queue = q]
    BY <1>2, <1>4
  <2>2. /\ Delivered(k) \in WorkerState /\ Delivered(k).phase = w.phase /\ Delivered(k).mark = w.mark
        /\ Delivered(k).fold = w.fold /\ Delivered(k).next = 1 /\ Delivered(k).queue = q
    <3> DEFINE first == 1
    <3>1. w \in WorkerState /\ q \in Seq(Cutover) /\ first \in Nat
      BY <1>1
    <3> HIDE DEF first
    <3>2. Delivered(k) = [w EXCEPT !.next = first, !.queue = q]
      BY <2>1 DEF first
    <3>3. /\ Delivered(k) \in WorkerState /\ Delivered(k).phase = w.phase /\ Delivered(k).mark = w.mark
          /\ Delivered(k).fold = w.fold /\ Delivered(k).next = first /\ Delivered(k).queue = q
      BY <3>1, <3>2 DEF WorkerState
    <3>4. QED
      BY <3>3 DEF first
  <2>3. QED
    BY <1>4, <2>2 DEF w, q
<1>5. QED
  BY <1>3, <1>4

\* The worker that has delivered its head to one more setter.
LEMMA DeliveredSound ==
  ASSUME WorkersInv, NEW k \in Worker, Deliver(k)
  PROVE  SoundWorker(Delivered(k), history, applied')
<1> DEFINE w == worker[k]
           d == Delivered(k)
           len == Len(w.queue)
           n == w.mark - len + 1
<1>1. /\ w \in WorkerState /\ w.mark \in Nat /\ w.queue \in Seq(Cutover) /\ w.next \in Nat
      /\ w.queue # <<>> /\ w.phase \in {"initializing", "delivering"}
      /\ Len(w.queue) \in Nat \ {0} /\ Len(w.queue) <= w.mark
      /\ Follows(w, history) /\ Delivers(w, applied)
  BY WorkerShape, EmptySeq DEF Deliver, Follows
<1>2. /\ d.phase = w.phase /\ d.mark = w.mark /\ d.fold = w.fold
      /\ IF w.next < Len(Setters)
           THEN d.next = w.next + 1 /\ d.queue = w.queue
           ELSE d.next = 1 /\ d.queue = Tail(w.queue)
  BY <1>1, DeliveredFields
<1>3. n \in Nat /\ Head(w.queue).revision = n
  BY <1>1, HeadCutover
<1>4. /\ applied \in [Witness -> Cutover] /\ applied' \in [Witness -> Cutover]
      /\ \A s \in Witness : applied'[s].revision >= applied[s].revision
      /\ Setters[w.next] \in Witness => applied'[Setters[w.next]].revision >= n
  BY <1>3, Served DEF WorkersInv
<1>5. \A s \in Witness : applied[s].revision \in Nat /\ applied'[s].revision \in Nat
  BY <1>4 DEF Cutover
<1>6. Len(Setters) \in Nat
  BY SettersAssumption, LenProperties
<1>a. len \in Nat \ {0} /\ len <= w.mark /\ w.mark \in Nat
  BY <1>1
<1>b. w.phase = "initializing" => len \in {0, 1}
  BY <1>1 DEF Delivers
<1> HIDE DEF d, w, len
<1>7. w.phase = "initializing" => len = 1 /\ n = w.mark
  BY <1>a, <1>b
<1>8. ASSUME NEW i \in 1 .. Len(Setters)
      PROVE  /\ applied'[Setters[i]].revision \in Nat
             /\ w.phase = "delivering" => applied'[Setters[i]].revision >= n - 1
             /\ i <= w.next => applied'[Setters[i]].revision >= n
  <2>1. Setters[i] \in Witness
    BY RegisteredSetter
  <2>2. applied[Setters[i]].revision >= Brought(w, i)
    BY <1>1 DEF Delivers
  <2>3. applied[Setters[i]].revision \in Nat /\ applied'[Setters[i]].revision \in Nat
        /\ applied'[Setters[i]].revision >= applied[Setters[i]].revision
    BY <1>4, <1>5, <2>1
  <2>4. w.phase = "delivering" => Brought(w, i) = w.mark - len + (IF i < w.next THEN 1 ELSE 0)
    BY <1>1 DEF Brought, len
  <2>5. w.phase = "initializing" /\ i < w.next => Brought(w, i) = w.mark
    BY <1>1 DEF Brought
  <2>x. ASSUME Brought(w, i) \in Int
        PROVE  applied'[Setters[i]].revision >= Brought(w, i)
    BY <2>2, <2>3, <2>x
  <2>6. w.phase = "delivering" => applied'[Setters[i]].revision >= n - 1
    <3> SUFFICES ASSUME w.phase = "delivering"
                 PROVE  applied'[Setters[i]].revision >= n - 1
      OBVIOUS
    <3>1. Brought(w, i) \in {n - 1, n} /\ n \in Int
      BY <1>a, <2>4
    <3> HIDE DEF n
    <3>2. QED
      BY <2>3, <2>x, <3>1
  <2>7. i < w.next => applied'[Setters[i]].revision >= n
    <3> SUFFICES ASSUME i < w.next
                 PROVE  applied'[Setters[i]].revision >= n
      OBVIOUS
    <3>1. w.phase \in {"initializing", "delivering"}
      BY <1>1
    <3>2. Brought(w, i) = n /\ n \in Int
      BY <1>7, <1>a, <2>4, <2>5, <3>1
    <3> HIDE DEF n
    <3>3. QED
      BY <2>x, <3>2
  <2>8. i = w.next => applied'[Setters[i]].revision >= n
    BY <1>4, <2>1
  <2>9. i <= w.next => i < w.next \/ i = w.next
    BY <1>1
  <2>10. QED
    BY <2>3, <2>6, <2>7, <2>8, <2>9
<1>9. CASE w.next < Len(Setters)
  <2>1. Follows(d, history)
    BY <1>1, <1>2, <1>9 DEF Follows
  <2>2. ASSUME NEW i \in 1 .. Len(Setters)
        PROVE  applied'[Setters[i]].revision >= Brought(d, i)
    <3>1. i < w.next + 1 => i <= w.next
      BY <1>1
    <3>2. w.phase = "delivering" => Brought(d, i) = w.mark - len + (IF i < w.next + 1 THEN 1 ELSE 0)
      BY <1>1, <1>2, <1>9 DEF Brought, len
    <3>3. w.phase = "initializing" => Brought(d, i) = IF i < w.next + 1 THEN w.mark ELSE 0
      BY <1>1, <1>2, <1>9 DEF Brought
    <3>4. CASE w.phase = "delivering"
      BY <1>a, <1>8, <3>1, <3>2, <3>4
    <3>5. CASE w.phase = "initializing"
      BY <1>a, <1>7, <1>8, <3>1, <3>3, <3>5
    <3>6. QED
      BY <1>1, <3>4, <3>5
  <2>3. Delivers(d, applied')
    BY <1>1, <1>2, <1>9, <2>2 DEF Delivers
  <2>4. QED
    BY <2>1, <2>3 DEF SoundWorker, d
<1>10. CASE ~(w.next < Len(Setters))
  <2>1. /\ d.next = 1 /\ d.queue = Tail(w.queue)
        /\ Len(d.queue) = len - 1
        /\ \A i \in 1 .. Len(d.queue) : d.queue[i] = w.queue[i + 1]
        /\ d.queue \in Seq(Cutover)
    BY <1>1, <1>2, <1>10, HeadTailProperties DEF len
  <2>2. Follows(d, history)
    <3>1. ASSUME NEW i \in 1 .. Len(d.queue)
          PROVE  d.queue[i] = FoldAt(history, d.mark - Len(d.queue) + i).current
      <4>1. i + 1 \in 1 .. len /\ w.mark - len + (i + 1) = d.mark - Len(d.queue) + i
        <5>1. d.mark = w.mark /\ Len(d.queue) = len - 1
          BY <1>2, <2>1
        <5>2. i \in 1 .. len - 1
          BY <5>1
        <5>3. i \in Nat /\ i + 1 \in 1 .. len
          BY <1>a, <5>2
        <5>4. w.mark - len + (i + 1) = w.mark - (len - 1) + i
          BY <1>a, <5>3
        <5>5. QED
          BY <5>1, <5>3, <5>4
      <4>2. w.queue[i + 1] = FoldAt(history, w.mark - len + (i + 1)).current
        BY <1>1, <4>1 DEF Follows, len
      <4>3. QED
        BY <2>1, <4>1, <4>2
    <3>2. Len(d.queue) <= d.mark
      <4>1. d.mark = w.mark /\ Len(d.queue) = len - 1
        BY <1>2, <2>1
      <4>2. QED
        BY <1>a, <4>1
    <3>3. d.mark <= Len(history) /\ d.fold = FoldAt(history, d.mark)
      BY <1>1, <1>2 DEF Follows
    <3>4. QED
      BY <3>1, <3>2, <3>3 DEF Follows
  <2>3. ASSUME NEW i \in 1 .. Len(Setters)
        PROVE  applied'[Setters[i]].revision >= Brought(d, i)
    <3>1. ~(i < 1) /\ i <= w.next
      BY <1>1, <1>6, <1>10
    <3>2. CASE d.queue = <<>>
      <4>1. len = 1
        <5>1. Len(d.queue) = 0
          BY <3>2, EmptySeq
        <5>2. len - 1 = 0
          BY <2>1, <5>1
        <5>3. QED
          BY <1>a, <5>2
      <4>2. Brought(d, i) = w.mark
        <5>1. d.mark = w.mark
          BY <1>2
        <5>2. Brought(d, i) = d.mark
          BY <3>2 DEF Brought
        <5>3. QED
          BY <5>1, <5>2
      <4>3. Brought(d, i) = n
        BY <1>a, <4>1, <4>2
      <4>4. QED
        BY <1>8, <3>1, <4>3
    <3>3. CASE d.queue # <<>>
      <4>1. Len(d.queue) \in Nat \ {0}
        BY <2>1, <3>3, EmptySeq
      <4>2. w.phase = "delivering"
        <5>1. Len(d.queue) = len - 1
          BY <2>1
        <5>2. len # 1
          BY <4>1, <5>1
        <5>3. w.phase # "initializing"
          BY <1>7, <5>2
        <5>4. w.phase \in {"initializing", "delivering"}
          BY <1>1
        <5>5. QED
          BY <5>3, <5>4
      <4>3. Brought(d, i) = w.mark - (len - 1) + 0
        BY <1>2, <2>1, <3>1, <3>3, <4>2 DEF Brought
      <4>4. w.mark - (len - 1) + 0 = n
        BY <1>a
      <4>5. QED
        BY <1>8, <3>1, <4>3, <4>4
    <3>4. QED
      BY <3>2, <3>3
  <2>4. w.phase = "initializing" => Len(d.queue) \in {0, 1}
    BY <1>7, <1>a, <2>1
  <2>5. Delivers(d, applied')
    BY <1>1, <1>2, <2>3, <2>4 DEF Delivers
  <2>6. QED
    BY <2>2, <2>5 DEF SoundWorker, d
<1>11. QED
  BY <1>9, <1>10

LEMMA DeliverInv ==
  ASSUME WorkersInv, NEW k \in Worker, Deliver(k)
  PROVE  WorkersInv'
<1>1. /\ applied \in [Witness -> Cutover] /\ applied' \in [Witness -> Cutover]
      /\ \A s \in Witness : applied'[s].revision >= applied[s].revision
  BY Served DEF WorkersInv
<1>2. ASSUME NEW j \in Worker
      PROVE  SoundWorker(worker[j], history, applied')
  BY <1>1, WorkerShape, BroughtType, ServedMore DEF SoundWorker
<1> DEFINE stopped == [worker[k] EXCEPT !.phase = "stopped"]
<1>3. stopped \in WorkerState /\ SoundWorker(stopped, history, applied')
  <2>1. /\ stopped \in WorkerState /\ stopped.phase = "stopped" /\ stopped.mark = worker[k].mark
        /\ stopped.fold = worker[k].fold /\ stopped.queue = worker[k].queue
    BY WorkerShape DEF WorkerState, Phases
  <2> HIDE DEF stopped
  <2>2. Follows(stopped, history)
    BY <2>1, WorkerShape DEF Follows
  <2>3. Delivers(stopped, applied')
    BY <2>1 DEF Delivers
  <2>4. QED
    BY <2>1, <2>2, <2>3 DEF SoundWorker
<1>4. Delivered(k) \in WorkerState /\ SoundWorker(Delivered(k), history, applied')
  BY WorkerShape, DeliveredFields, DeliveredSound DEF Deliver
<1>5. Update(k, stopped) \/ Update(k, Delivered(k))
  BY DEF Deliver
<1> HIDE DEF stopped
<1>6. PICK w \in WorkerState : Update(k, w) /\ SoundWorker(w, history, applied')
  BY <1>3, <1>4, <1>5
<1>7. worker' \in [Worker -> WorkerState] /\ \A j \in Worker : worker'[j] = IF j = k THEN w ELSE worker[j]
  BY <1>6 DEF WorkersInv, Update
<1>8. history' = history
  BY DEF Deliver
<1>9. QED
  BY <1>1, <1>2, <1>6, <1>7, <1>8 DEF WorkersInv

-----------------------------------------------------------------------------
(* The remaining steps.                                                     *)

\* A worker that is stopped owes no route anything.
LEMMA StopInv ==
  ASSUME WorkersInv, NEW k \in Worker, Stop(k)
  PROVE  WorkersInv'
<1> DEFINE w == [worker[k] EXCEPT !.phase = "stopped"]
<1>1. /\ w \in WorkerState /\ w.phase = "stopped" /\ w.mark = worker[k].mark
      /\ w.fold = worker[k].fold /\ w.queue = worker[k].queue
  BY WorkerShape DEF WorkerState, Phases
<1>2. Update(k, w) /\ UNCHANGED <<history, applied>>
  BY DEF Stop
<1> HIDE DEF w
<1>3. Follows(w, history) /\ Delivers(w, applied)
  BY <1>1, WorkerShape DEF Follows, Delivers
<1>4. QED
  BY <1>1, <1>2, <1>3, UpdateInv DEF SoundWorker

LEMMA SettleInv ==
  ASSUME WorkersInv, NEW k \in Worker, Settle(k)
  PROVE  WorkersInv'
<1> DEFINE phase == IF worker[k].failed THEN "stopped" ELSE "ready"
           w == [worker[k] EXCEPT !.phase = phase]
<1>1. phase \in {"stopped", "ready"} /\ phase \in Phases
  BY DEF Phases
<1>2. /\ Update(k, w) /\ UNCHANGED <<history, applied>>
      /\ worker[k].phase \in {"initializing", "delivering"} /\ worker[k].queue = <<>>
  BY DEF Settle
<1> HIDE DEF phase
<1>3. /\ w \in WorkerState /\ w.phase = phase /\ w.mark = worker[k].mark
      /\ w.fold = worker[k].fold /\ w.queue = <<>>
  BY <1>1, <1>2, WorkerShape DEF WorkerState
<1> HIDE DEF w
<1>4. Follows(w, history)
  BY <1>2, <1>3, WorkerShape DEF Follows
<1>5. \A i \in 1 .. Len(Setters) : applied[Setters[i]].revision >= worker[k].mark
  BY <1>2, WorkerShape DEF Delivers, Brought
<1>6. \A i \in 1 .. Len(Setters) : Brought(w, i) = worker[k].mark
  BY <1>3 DEF Brought
<1>7. Delivers(w, applied)
  BY <1>1, <1>3, <1>5, <1>6 DEF Delivers
<1>8. QED
  BY <1>2, <1>3, <1>4, <1>7, UpdateInv DEF SoundWorker

LEMMA RestartInv ==
  ASSUME WorkersInv, NEW k \in Worker, Restart(k)
  PROVE  WorkersInv'
<1>1. Update(k, NewWorker) /\ UNCHANGED <<history, applied>>
  BY DEF Restart, Successor
<1>2. NewWorker \in WorkerState /\ SoundWorker(NewWorker, history, applied)
  BY WorkerShape, NewWorkerSound
<1>3. QED
  BY <1>1, <1>2, UpdateInv

\* The record's fold, as the lifecycle sees it when it records the next cutover.
LEMMA RecordedIsFolded ==
  Recorded = FoldAt(history, Len(history))
BY DEF Recorded, FoldFrom, FoldAt, FoldOver

LEMMA RecordGrows ==
  ASSUME Lineage(history), RecordCutover
  PROVE  /\ Lineage(history') /\ Len(history) \in Nat /\ Len(history') = Len(history) + 1
         /\ \A i \in 0 .. Len(history) : FoldAt(history', i) = FoldAt(history, i)
<1>1. PICK e \in CutoverEvents :
        ~ApplyCutoverEvent(e, Recorded).broken /\ history' = Append(history, e)
  BY DEF RecordCutover
<1>2. QED
  BY <1>1, RecordedIsFolded, LineageGrows

LEMMA RecordInv ==
  ASSUME WorkersInv, RecordCutover
  PROVE  WorkersInv'
<1>1. /\ Lineage(history') /\ Len(history) \in Nat /\ Len(history') = Len(history) + 1
      /\ \A i \in 0 .. Len(history) : FoldAt(history', i) = FoldAt(history, i)
  BY RecordGrows DEF WorkersInv
<1>2. worker' = worker /\ applied' = applied
  BY DEF RecordCutover
<1>3. ASSUME NEW k \in Worker
      PROVE  Follows(worker[k], history')
  <2> DEFINE mark == worker[k].mark
             len == Len(worker[k].queue)
  <2>1. /\ mark \in Nat /\ len \in Nat /\ len <= mark /\ mark <= Len(history)
        /\ worker[k].fold = FoldAt(history, mark)
        /\ \A i \in 1 .. len : worker[k].queue[i] = FoldAt(history, mark - len + i).current
    BY WorkerShape DEF Follows
  <2> HIDE DEF mark, len
  <2>2. mark \in 0 .. Len(history) /\ \A i \in 1 .. len : mark - len + i \in 0 .. Len(history)
    BY <1>1, <2>1
  <2>3. mark <= Len(history')
    BY <1>1, <2>1
  <2>4. QED
    BY <1>1, <2>1, <2>2, <2>3 DEF Follows, mark, len
<1>4. QED
  BY <1>1, <1>2, <1>3, WorkerShape DEF WorkersInv, SoundWorker

LEMMA WorkerStepInv ==
  ASSUME WorkersInv, NEW k \in Worker, WorkerStep(k)
  PROVE  WorkersInv'
BY DrainInv, DeliverInv, SettleInv, StopInv, RestartInv, DrainFailsInv DEF WorkerStep

LEMMA WorkersInit == Init => WorkersInv
<1> SUFFICES ASSUME Init PROVE WorkersInv
  OBVIOUS
<1>1. Lineage(history) /\ Len(history) \in Nat
  BY LineageEmpty, EmptySeq DEF Init
<1>2. NewWorker \in WorkerState /\ SoundWorker(NewWorker, history, applied)
  BY <1>1, NewWorkerSound
<1>3. applied \in [Witness -> Cutover]
  BY DEF Init, Cutover
<1>4. worker = [k \in Worker |-> NewWorker]
  BY DEF Init
<1>5. QED
  BY <1>1, <1>2, <1>3, <1>4 DEF WorkersInv

LEMMA WorkersNext == WorkersInv /\ [Next]_vars => WorkersInv'
<1> SUFFICES ASSUME WorkersInv, [Next]_vars PROVE WorkersInv'
  OBVIOUS
<1>1. CASE Next
  BY <1>1, RecordInv, WorkerStepInv DEF Next
<1>2. CASE UNCHANGED vars
  BY <1>2 DEF vars, WorkersInv
<1>3. QED
  BY <1>1, <1>2

-----------------------------------------------------------------------------
(* What the invariant says of the routes.                                   *)

LEMMA ReadyIsConverged == WorkersInv => ReadyConverged
<1> SUFFICES ASSUME WorkersInv, NEW k \in Worker, worker[k].phase \in {"ready", "delivering"}
             PROVE  /\ ~worker[k].fold.broken
                    /\ \A i \in DOMAIN Setters :
                         applied[Setters[i]].revision >=
                           worker[k].fold.current.revision - Len(worker[k].queue)
  BY DEF ReadyConverged
<1> DEFINE mark == worker[k].mark
           len == Len(worker[k].queue)
<1>1. mark \in 0 .. Len(history) /\ mark \in Nat /\ len \in Nat /\ worker[k].fold = FoldAt(history, mark)
  BY WorkerShape DEF Follows
<1>2. ~worker[k].fold.broken /\ worker[k].fold.current.revision = mark
  BY <1>1 DEF WorkersInv, Lineage
<1>3. ASSUME NEW i \in DOMAIN Setters
      PROVE  applied[Setters[i]].revision >= mark - len
  <2>1. i \in 1 .. Len(Setters)
    BY SettersAssumption, LenProperties
  <2>2. applied[Setters[i]].revision >= Brought(worker[k], i) /\ applied[Setters[i]].revision \in Nat
    BY <2>1, WorkerShape, RegisteredSetter DEF Delivers, WorkersInv, Cutover
  <2>3. worker[k].queue = <<>> => len = 0
    BY EmptySeq
  <2>4. worker[k].phase # "initializing"
    OBVIOUS
  <2>5. Brought(worker[k], i) =
          IF worker[k].queue = <<>> THEN mark ELSE mark - len + (IF i < worker[k].next THEN 1 ELSE 0)
    BY <2>4 DEF Brought
  <2> HIDE DEF len, mark
  <2>6. Brought(worker[k], i) >= mark - len /\ Brought(worker[k], i) \in Int
    BY <1>1, <2>3, <2>5
  <2>7. QED
    BY <1>1, <2>2, <2>6
<1>4. QED
  BY <1>2, <1>3

LEMMA StepDeliversNewer ==
  ASSUME WorkersInv, [Next]_vars
  PROVE  [\A s \in Witness : applied'[s] # applied[s] =>
            /\ applied'[s].revision > applied[s].revision
            /\ \E i \in DOMAIN history : DecodeCutover(history[i]).cutover = applied'[s]]_vars
<1>1. CASE \E k \in Worker : Deliver(k)
  <2>1. PICK k \in Worker : Deliver(k)
    BY <1>1
  <2> DEFINE n == worker[k].mark - Len(worker[k].queue) + 1
  <2>2. n \in 1 .. Len(history) /\ Head(worker[k].queue) = DecodeCutover(history[n]).cutover
    BY <2>1, HeadCutover DEF Deliver
  <2>3. DOMAIN history = 1 .. Len(history)
    BY LenProperties DEF WorkersInv, Lineage
  <2> HIDE DEF n
  <2>4. ASSUME NEW s \in Witness, applied'[s] # applied[s]
        PROVE  /\ applied'[s].revision > applied[s].revision
               /\ \E i \in DOMAIN history : DecodeCutover(history[i]).cutover = applied'[s]
    <3>1. applied'[s] = Head(worker[k].queue) /\ applied'[s].revision > applied[s].revision
      BY <2>1, <2>4, Served
    <3>2. QED
      BY <2>2, <2>3, <3>1
  <2>5. QED
    BY <2>4
<1>2. CASE ~\E k \in Worker : Deliver(k)
  <2>1. applied' = applied
    BY <1>2 DEF Next, WorkerStep, RecordCutover, Drain, Settle, Stop, Restart, DrainFails, vars
  <2>2. QED
    BY <2>1
<1>3. QED
  BY <1>1, <1>2

-----------------------------------------------------------------------------
(* The stream router.                                                       *)

RouterState == [filled : BOOLEAN, position : Nat, fold : CutoverFold]
ReaderState ==
  [pc : {"idle", "waiting", "folding"}, refresh : BOOLEAN, since : Nat, tip : Nat,
   fold : CutoverFold, seen : Nat]

\* A read that is under way has not been overtaken: it began at the cursor, holds
\* the mutex, and ends where the record did, which is behind every cutover that was
\* recorded when its call was made.
SoundRead(c, position, h) ==
  /\ c.seen <= position
  /\ c.since <= Len(h)
  /\ c.pc = "folding" =>
       /\ position <= c.tip /\ c.since <= c.tip /\ c.tip <= Len(h)
       /\ c.fold = FoldAt(h, c.tip)

RouterInv ==
  /\ router \in RouterState /\ reader \in [Reader -> ReaderState]
  /\ router.position <= Len(history) /\ router.fold = FoldAt(history, router.position)
  /\ \A r \in Reader : SoundRead(reader[r], router.position, history)
  /\ \A r, s \in Reader : reader[r].pc = "folding" /\ reader[s].pc = "folding" => r = s

RoutingInv == WorkersInv /\ RouterInv

LEMMA NewReaderState == NewReader \in ReaderState /\ NewReader.pc = "idle"
                        /\ NewReader.since = 0 /\ NewReader.seen = 0
<1>1. NewCutoverFold \in CutoverFold
  BY DEF NewCutoverFold, CutoverFold, Cutover
<1>2. QED
  BY <1>1 DEF NewReader, ReaderState

LEMMA RouterInit == RoutingInit => RoutingInv
<1> SUFFICES ASSUME RoutingInit PROVE RoutingInv
  OBVIOUS
<1>1. WorkersInv
  BY WorkersInit DEF RoutingInit
<1>2. Len(history) \in Nat /\ FoldAt(history, 0) = NewCutoverFold
  BY <1>1, LenProperties, FoldAtSteps DEF WorkersInv, Lineage
<1>3. NewCutoverFold \in CutoverFold
  BY DEF NewCutoverFold, CutoverFold, Cutover
<1>4. router \in RouterState /\ router.position = 0 /\ router.fold = NewCutoverFold
  BY <1>3 DEF RoutingInit, NewRouter, RouterState
<1>5. reader = [r \in Reader |-> NewReader]
  BY DEF RoutingInit
<1>6. SoundRead(NewReader, router.position, history)
  BY <1>2, <1>4, NewReaderState DEF SoundRead
<1>7. QED
  BY <1>1, <1>2, <1>4, <1>5, <1>6, NewReaderState DEF RoutingInv, RouterInv

LEMMA ReaderShape ==
  ASSUME RoutingInv, NEW r \in Reader
  PROVE  /\ reader[r] \in ReaderState /\ reader[r].pc \in {"idle", "waiting", "folding"}
         /\ reader[r].refresh \in BOOLEAN /\ reader[r].since \in Nat /\ reader[r].tip \in Nat
         /\ reader[r].fold \in CutoverFold /\ reader[r].seen \in Nat
         /\ router.filled \in BOOLEAN /\ router.position \in Nat /\ router.fold \in CutoverFold
         /\ Len(history) \in Nat /\ SoundRead(reader[r], router.position, history)
<1>1. reader[r] \in ReaderState /\ router \in RouterState
  BY DEF RoutingInv, RouterInv
<1>2. Len(history) \in Nat
  BY LenProperties DEF RoutingInv, WorkersInv, Lineage
<1>3. QED
  BY <1>1, <1>2 DEF ReaderState, RouterState, RoutingInv, RouterInv

\* The record, or a worker, moves; the router does not.
LEMMA RoutesStay ==
  ASSUME RoutingInv, Next, UNCHANGED routes
  PROVE  RoutingInv'
<1>1. WorkersInv'
  BY WorkersNext DEF RoutingInv
<1>2. /\ Len(history) \in Nat /\ Len(history') \in Nat /\ Len(history) <= Len(history')
      /\ \A i \in 0 .. Len(history) : FoldAt(history', i) = FoldAt(history, i)
  <2>1. Len(history) \in Nat
    BY LenProperties DEF RoutingInv, WorkersInv, Lineage
  <2>2. CASE RecordCutover
    BY <2>2, RecordGrows DEF RoutingInv, WorkersInv
  <2>3. CASE history' = history
    BY <2>1, <2>3
  <2>4. RecordCutover \/ history' = history
    BY DEF Next, WorkerStep, Drain, Deliver, Settle, Stop, Restart, DrainFails
  <2>5. QED
    BY <2>2, <2>3, <2>4
<1>3. router' = router /\ reader' = reader
  BY DEF routes
<1>4. router \in RouterState /\ router.position \in Nat
  BY DEF RoutingInv, RouterInv, RouterState
<1>5. router.position <= Len(history') /\ router.fold = FoldAt(history', router.position)
  BY <1>2, <1>4 DEF RoutingInv, RouterInv
<1>6. ASSUME NEW r \in Reader
      PROVE  SoundRead(reader[r], router'.position, history')
  <2>1. SoundRead(reader[r], router.position, history) /\ reader[r].tip \in Nat /\ reader[r].since \in Nat
    BY ReaderShape
  <2>2. reader[r].pc = "folding" => reader[r].tip \in 0 .. Len(history)
    BY <1>2, <2>1 DEF SoundRead
  <2>3. QED
    BY <1>2, <1>3, <2>1, <2>2 DEF SoundRead
<1>7. QED
  BY <1>1, <1>3, <1>4, <1>5, <1>6 DEF RoutingInv, RouterInv

\* One call's step; the record stays, and the cursor does not go back.
LEMMA CallsInv ==
  ASSUME RoutingInv, NEW r \in Reader, NEW c \in ReaderState, Calls(r, c),
         UNCHANGED vars,
         router' \in RouterState, router.position <= router'.position,
         router'.position <= Len(history), router'.fold = FoldAt(history, router'.position),
         SoundRead(c, router'.position, history'),
         \A s \in Reader : s # r /\ reader[s].pc = "folding" =>
           c.pc # "folding" /\ router'.position = router.position
  PROVE  RoutingInv'
<1>1. reader' \in [Reader -> ReaderState] /\ \A s \in Reader : reader'[s] = IF s = r THEN c ELSE reader[s]
  BY DEF Calls, RoutingInv, RouterInv
<1>2. WorkersInv' /\ history' = history
  BY DEF vars, RoutingInv, WorkersInv
<1>3. router'.position \in Nat /\ Len(history) \in Nat /\ router.position \in Nat
  BY ReaderShape DEF RouterState
<1>4. ASSUME NEW s \in Reader
      PROVE  SoundRead(reader'[s], router'.position, history')
  <2>1. CASE s = r
    BY <1>1, <2>1
  <2>2. CASE s # r
    <3>1. SoundRead(reader[s], router.position, history) /\ reader'[s] = reader[s] /\ reader[s].seen \in Nat /\ reader[s].tip \in Nat
      BY <1>1, <2>2, ReaderShape
    <3>2. QED
      BY <1>2, <1>3, <2>2, <3>1 DEF SoundRead
  <2>3. QED
    BY <2>1, <2>2
<1>5. ASSUME NEW s \in Reader, NEW t \in Reader, reader'[s].pc = "folding", reader'[t].pc = "folding"
      PROVE  s = t
  BY <1>1, <1>5 DEF RoutingInv, RouterInv
<1>6. QED
  BY <1>1, <1>2, <1>4, <1>5 DEF RoutingInv, RouterInv

\* A call that ends without a new fold.
LEMMA ReturnedState ==
  ASSUME RoutingInv, NEW r \in Reader
  PROVE  /\ Returned(r) \in ReaderState /\ Returned(r).pc = "idle" /\ Returned(r).since = 0
         /\ Returned(r).seen = reader[r].seen
<1> DEFINE seen == reader[r].seen
<1>1. seen \in Nat
  BY ReaderShape
<1>2. Returned(r) = [NewReader EXCEPT !.seen = seen]
  BY DEF Returned
<1> HIDE DEF seen
<1>3. Returned(r) \in ReaderState /\ Returned(r).pc = "idle" /\ Returned(r).since = 0 /\ Returned(r).seen = seen
  BY <1>1, <1>2, NewReaderState DEF ReaderState
<1>4. QED
  BY <1>3 DEF seen

LEMMA ReturnInv ==
  ASSUME RoutingInv, NEW r \in Reader, Calls(r, Returned(r)), UNCHANGED vars, router' = router
  PROVE  RoutingInv'
<1>1. history' = history
  BY DEF vars
<1>2. SoundRead(Returned(r), router'.position, history')
  BY <1>1, ReturnedState, ReaderShape DEF SoundRead
<1>3. router.position <= router.position /\ router \in RouterState
  BY ReaderShape DEF RoutingInv, RouterInv
<1>4. QED
  BY <1>2, <1>3, ReturnedState, CallsInv DEF RoutingInv, RouterInv

LEMMA CallInv ==
  ASSUME RoutingInv, NEW r \in Reader, NEW refresh \in BOOLEAN, Call(r, refresh), UNCHANGED vars
  PROVE  RoutingInv'
<1> DEFINE len == Len(history)
           c == [reader[r] EXCEPT !.pc = "waiting", !.refresh = refresh, !.since = len]
<1>1. len \in Nat
  BY ReaderShape
<1>2. Calls(r, c) /\ router' = router /\ history' = history
  BY DEF Call, vars
<1> HIDE DEF len
<1>3. c \in ReaderState /\ c.pc = "waiting" /\ c.since = len /\ c.seen = reader[r].seen
  BY <1>1, ReaderShape DEF ReaderState
<1> HIDE DEF c
<1>4. SoundRead(c, router'.position, history')
  BY <1>1, <1>2, <1>3, ReaderShape DEF SoundRead, len
<1>5. router.position <= router.position /\ router \in RouterState
  BY ReaderShape DEF RoutingInv, RouterInv
<1>6. QED
  BY <1>2, <1>3, <1>4, <1>5, CallsInv DEF RoutingInv, RouterInv

\* A read from the cursor ends at the fold of the whole record.
LEMMA OpenInv ==
  ASSUME RoutingInv, NEW r \in Reader, Open(r), UNCHANGED vars
  PROVE  RoutingInv'
<1> DEFINE len == Len(history)
           fold == FoldFrom(router.position, router.fold)[len]
           c == [reader[r] EXCEPT !.pc = "folding", !.tip = len, !.fold = fold]
<1>1. len \in Nat /\ router.position \in 0 .. len /\ len \in router.position .. len
  BY ReaderShape DEF RoutingInv, RouterInv
<1>2. fold = FoldAt(history, len) /\ fold \in CutoverFold
  <2>1. FoldFrom(router.position, router.fold) = FoldOver(history, router.position, router.fold)
    BY DEF FoldFrom, FoldOver
  <2>2. router.fold = FoldAt(history, router.position)
    BY DEF RoutingInv, RouterInv
  <2>3. fold = FoldAt(history, len)
    BY <1>1, <2>1, <2>2, FoldResumed
  <2>4. len \in 0 .. len
    BY <1>1
  <2>5. QED
    BY <2>3, <2>4 DEF RoutingInv, WorkersInv, Lineage
<1>3. Calls(r, c) /\ router' = router /\ history' = history /\ Unlocked
  BY DEF Open, vars
<1> HIDE DEF fold, len
<1>4. /\ c \in ReaderState /\ c.pc = "folding" /\ c.tip = len /\ c.fold = fold
      /\ c.since = reader[r].since /\ c.seen = reader[r].seen
  BY <1>1, <1>2, ReaderShape DEF ReaderState
<1> HIDE DEF c
<1>5. SoundRead(c, router'.position, history')
  BY <1>1, <1>2, <1>3, <1>4, ReaderShape DEF SoundRead, len
<1>6. router.position <= router.position /\ router \in RouterState
  BY ReaderShape DEF RoutingInv, RouterInv
<1>7. \A s \in Reader : reader[s].pc # "folding"
  BY <1>3 DEF Unlocked
<1>8. QED
  BY <1>3, <1>4, <1>5, <1>6, <1>7, CallsInv DEF RoutingInv, RouterInv

\* The cursor moves to the end of the read, and nobody else's read is under way.
LEMMA CommitInv ==
  ASSUME RoutingInv, NEW r \in Reader, Commit(r), UNCHANGED vars
  PROVE  RoutingInv'
<1> DEFINE since == reader[r].since
           tip == reader[r].tip
           fold == reader[r].fold
           c == [Returned(r) EXCEPT !.seen = since]
<1>1. /\ since \in Nat /\ tip \in Nat /\ fold \in CutoverFold
      /\ router.position <= tip /\ since <= tip /\ tip <= Len(history)
      /\ fold = FoldAt(history, tip)
  BY ReaderShape DEF Commit, SoundRead
<1>2. /\ Calls(r, c) /\ history' = history /\ reader[r].pc = "folding"
      /\ router' = [filled |-> TRUE, position |-> tip, fold |-> fold]
  BY DEF Commit, vars
<1>3. Len(history) \in Nat
  BY ReaderShape
<1> HIDE DEF since, tip, fold
<1>4. c \in ReaderState /\ c.pc = "idle" /\ c.since = 0 /\ c.seen = since
  BY <1>1, ReturnedState DEF ReaderState
<1> HIDE DEF c
<1>5. router' \in RouterState /\ router'.position = tip /\ router'.fold = fold
  BY <1>1, <1>2 DEF RouterState
<1>6. SoundRead(c, router'.position, history')
  BY <1>1, <1>2, <1>3, <1>4, <1>5 DEF SoundRead
<1>7. \A s \in Reader : s # r => reader[s].pc # "folding"
  BY <1>2 DEF RoutingInv, RouterInv
<1>8. QED
  BY <1>1, <1>2, <1>4, <1>5, <1>6, <1>7, CallsInv

LEMMA ReaderStepInv ==
  ASSUME RoutingInv, NEW r \in Reader, ReaderStep(r), UNCHANGED vars
  PROVE  RoutingInv'
<1>1. CASE \E refresh \in BOOLEAN : Call(r, refresh)
  BY <1>1, CallInv
<1>2. CASE AnswerCached(r)
  BY <1>2, ReturnInv DEF AnswerCached
<1>3. CASE Open(r)
  BY <1>3, OpenInv
<1>4. CASE Commit(r)
  BY <1>4, CommitInv
<1>5. CASE Fail(r)
  BY <1>5, ReturnInv DEF Fail, AfterFailure
<1>6. QED
  BY <1>1, <1>2, <1>3, <1>4, <1>5 DEF ReaderStep

LEMMA RoutingStepInv == RoutingInv /\ [RoutingNext]_allVars => RoutingInv'
<1> SUFFICES ASSUME RoutingInv, [RoutingNext]_allVars PROVE RoutingInv'
  OBVIOUS
<1>1. CASE RecordCutover /\ UNCHANGED routes
  BY <1>1, RoutesStay DEF Next
<1>2. CASE \E k \in Worker \cap running : WorkerStep(k) /\ UNCHANGED routes
  BY <1>2, RoutesStay DEF Next
<1>3. CASE \E r \in Reader \cap running : ReaderStep(r) /\ UNCHANGED <<vars, running>>
  BY <1>3, ReaderStepInv
<1>4. CASE UNCHANGED allVars
  BY <1>4 DEF allVars, vars, routes, RoutingInv, WorkersInv, RouterInv, SoundRead
<1>5. QED
  BY <1>1, <1>2, <1>3, <1>4 DEF RoutingNext

LEMMA RouterReads ==
  RoutingInv => RouterKeepsFold /\ RefreshIsCurrent
<1> SUFFICES ASSUME RoutingInv PROVE RouterKeepsFold /\ RefreshIsCurrent
  OBVIOUS
<1>1. /\ router.position \in 0 .. Len(history)
      /\ router.fold = FoldAt(history, router.position)
  <2>1. router.position \in Nat /\ Len(history) \in Nat
    BY LenProperties DEF RoutingInv, RouterInv, RouterState, WorkersInv, Lineage
  <2>2. QED
    BY <2>1 DEF RoutingInv, RouterInv
<1>2. ~router.fold.broken
  BY <1>1 DEF RoutingInv, WorkersInv, Lineage
<1>3. FoldFrom(0, NewCutoverFold)[router.position] = FoldAt(history, router.position)
  BY DEF FoldFrom, FoldAt, FoldOver
<1>4. RouterKeepsFold
  BY <1>1, <1>2, <1>3 DEF RouterKeepsFold
<1>5. RefreshIsCurrent
  BY ReaderShape DEF RefreshIsCurrent, SoundRead
<1>6. QED
  BY <1>4, <1>5

-----------------------------------------------------------------------------
(* The theorems.                                                            *)

\* The invariant of the routes: workers and readers alike hold the fold of the
\* record up to a position, and the routes are at least as far as any worker says.
THEOREM RoutingInvariance == RoutingSpec => []RoutingInv
<1>1. RoutingInit => RoutingInv
  BY RouterInit
<1>2. RoutingInv /\ [RoutingNext]_allVars => RoutingInv'
  BY RoutingStepInv
<1>3. QED
  BY <1>1, <1>2, PTL DEF RoutingSpec

\* The workers by themselves (worker.go), as other modules take them.
THEOREM WorkersInvariance == Spec => []WorkersInv
<1>1. Init => WorkersInv
  BY WorkersInit
<1>2. WorkersInv /\ [Next]_vars => WorkersInv'
  BY WorkersNext
<1>3. QED
  BY <1>1, <1>2, PTL DEF Spec

\* A ready worker's routes have all it has folded, whatever other workers, restarts
\* and stale deliveries do (Worker.Run, its ready signal).
THEOREM RoutingReadyConverged == RoutingSpec => []ReadyConverged
<1>1. RoutingInv => ReadyConverged
  BY ReadyIsConverged DEF RoutingInv
<1>2. QED
  BY <1>1, RoutingInvariance, PTL

\* A route only moves to a newer recorded cutover (MemoryRouter.ApplyCutover).
THEOREM RoutingDeliversNewer == RoutingSpec => DeliversNewer
<1>1. RoutingInv /\ [RoutingNext]_allVars =>
        [\A s \in Witness : applied'[s] # applied[s] =>
           /\ applied'[s].revision > applied[s].revision
           /\ \E i \in DOMAIN history : DecodeCutover(history[i]).cutover = applied'[s]]_vars
  <2> SUFFICES ASSUME RoutingInv, [RoutingNext]_allVars
               PROVE  [\A s \in Witness : applied'[s] # applied[s] =>
                         /\ applied'[s].revision > applied[s].revision
                         /\ \E i \in DOMAIN history :
                              DecodeCutover(history[i]).cutover = applied'[s]]_vars
    OBVIOUS
  <2>1. WorkersInv
    BY DEF RoutingInv
  <2>2. [Next]_vars
    BY DEF RoutingNext, Next, allVars, vars
  <2>3. QED
    BY <2>1, <2>2, StepDeliversNewer
<1>2. QED
  BY <1>1, RoutingInvariance, PTL DEF RoutingSpec, DeliversNewer

\* The stream router serves the fold of the record up to its cursor, whatever reads
\* failed on the way (StreamRouter.advance).
THEOREM RoutingRouterKeepsFold == RoutingSpec => []RouterKeepsFold
BY RoutingInvariance, RouterReads, PTL

\* No later call takes back what a refresh has shown (StreamRouter.Refresh).
THEOREM RoutingRefreshIsCurrent == RoutingSpec => []RefreshIsCurrent
BY RoutingInvariance, RouterReads, PTL
=============================================================================
