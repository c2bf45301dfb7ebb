------------------------ MODULE AggregateStoreProofs ------------------------
(***************************************************************************)
(* For every number of clients and of events, every queue and retention    *)
(* bound and every snapshot store: copies, cache entries and snapshots are *)
(* folds of a prefix of the stream, no event is recorded twice, a client   *)
(* without doubt has nothing in the stream that it still queues, and a     *)
(* load returns the version that it was asked for.                         *)
(*                                                                         *)
(* What a client does is sound by itself (SoundClient) against a stream    *)
(* that only grows; what keeps two clients from recording an event twice   *)
(* is that an event is queued by one of them, and that every copy and every *)
(* append in flight that holds it expects the same version.                *)
(***************************************************************************)
EXTENDS AggregateStore, SequenceTheorems, FiniteSetTheorems, WellFoundedInduction, TLAPS

-----------------------------------------------------------------------------
(* Induction over the naturals, stated with sets.                           *)

\* A set of naturals has a least element.
LEMMA LeastNatural ==
  ASSUME NEW T \in SUBSET Nat, T # {}
  PROVE  \E n \in T : \A m \in T : n <= m
<1> DEFINE R == {ss \in Nat \X Nat : ss[1] < ss[2]}
<1>1. IsWellFoundedOn(R, Nat)
  BY NatLessThanWellFounded DEF OpToRel
<1>2. \E n \in T : \A m \in T : ~(<<m, n>> \in R)
  <2> HIDE DEF R
  <2>1. QED
    BY <1>1, WFMin
<1>3. PICK n \in T : \A m \in T : ~(<<m, n>> \in R)
  BY <1>2
<1>4. \A m \in T : ~(m < n)
  BY <1>3
<1>5. QED
  BY <1>4

\* What holds of 0, and of i when it holds of i - 1, holds of the whole interval.
LEMMA IntervalInduction ==
  ASSUME NEW n \in Nat, NEW S, 0 \in S, \A i \in 1 .. n : i - 1 \in S => i \in S
  PROVE  \A i \in 0 .. n : i \in S
<1> DEFINE T == (0 .. n) \ S
<1>1. SUFFICES ASSUME T # {} PROVE FALSE
  OBVIOUS
<1>2. PICK m \in T : \A k \in T : m <= k
  <2>1. T \in SUBSET Nat
    OBVIOUS
  <2> HIDE DEF T
  <2>2. QED
    BY <1>1, <2>1, LeastNatural
<1>3. m \in 1 .. n /\ m - 1 \notin T
  BY <1>2
<1>4. QED
  BY <1>3

-----------------------------------------------------------------------------
(* The inductive invariant.                                                 *)

Snapshot == [version : Nat, state : Seq(Nat)]
Numbers  == [version : Nat, event : Nat]
Copy     == [version : Nat, state : Seq(Nat), unsaved : Seq(Nat), unapplied : Seq(Numbers)]
Lost     == [version : Nat, events : Seq(Nat)]

Stage == {"idle", "ready", "snapshot", "stream", "filling", "caching", "applying"}
Doing == [pc : Stage, load : BOOLEAN, target : Nat, doubt : BOOLEAN]

\* A fold of the first version events of stream s; queued events are events of it.
Folds(x, s) ==
  /\ x.version = Len(x.state) /\ x.version <= Len(s)
  /\ \A i \in 1 .. x.version : x.state[i] = s[i]
Queued(q, s) ==
  \A i \in 1 .. Len(q) : q[i].version \in 1 .. Len(s) /\ q[i].event = s[q[i].version]

Unique(s) == \A i, j \in 1 .. Len(s) : s[i] = s[j] => i = j
Among(s, n) == \A i \in 1 .. Len(s) : s[i] \in 1 .. n
Share(s, t) == \E i \in 1 .. Len(s), j \in 1 .. Len(t) : s[i] = t[j]

\* An event that is queued and also in the stream, or in flight, leaves its client in
\* doubt, at the version that its append expected.
SoundQueue(a, o, s, lost, n) ==
  /\ Unique(a.unsaved) /\ Among(a.unsaved, n)
  /\ Share(a.unsaved, s) => o.doubt /\ a.version < Len(s)
  /\ \A l \in lost : Share(a.unsaved, l.events) => o.doubt /\ l.version = a.version

SoundClient(a, o, s, lost, n) ==
  /\ Folds(a, s) /\ Queued(a.unapplied, s)
  /\ o.load => a.unapplied = <<>> /\ o.pc \in {"snapshot", "stream", "filling"}
  /\ o.doubt => o.pc = "ready"
  /\ SoundQueue(a, o, s, lost, n)

SoundStream(s, lost, n) ==
  /\ s \in Seq(Nat) /\ n \in Nat /\ lost \subseteq Lost
  /\ Unique(s) /\ Among(s, n)
  /\ \A l \in lost :
       /\ Unique(l.events) /\ Among(l.events, n)
       /\ Share(l.events, s) => l.version < Len(s)
       /\ \A m \in lost : Share(l.events, m.events) => l.version = m.version

SoundSnapshot(x, s) == x \in Snapshot /\ Folds(x, s)
SoundSnapshots(snaps, s) ==
  /\ snaps \in Seq(Snapshot)
  /\ \A i \in 1 .. Len(snaps) : Folds(snaps[i], s) /\ snaps[i].version > 0

Exclusive == \A c \in Client : \A d \in Client \ {c} : ~Share(agg[c].unsaved, agg[d].unsaved)

AggregateInv ==
  /\ backend \in {"none", "memory", "eventstream"}
  /\ SoundStream(stream, inflight, given)
  /\ SoundSnapshots(snapshots, stream)
  /\ SoundSnapshot(cache, stream)
  /\ agg \in [Client -> Copy] /\ op \in [Client -> Doing]
  /\ \A c \in Client : SoundClient(agg[c], op[c], stream, inflight, given)
  /\ Exclusive

-----------------------------------------------------------------------------
(* Streams that grow.                                                       *)

Grown(s, m) ==
  /\ Len(s) \in Nat /\ Len(m) \in Nat /\ Len(s) <= Len(m)
  /\ \A i \in 1 .. Len(s) : m[i] = s[i]

LEMMA GrownByConcat ==
  ASSUME NEW s \in Seq(Nat), NEW t \in Seq(Nat)
  PROVE  Grown(s, s \o t)
BY ConcatProperties, LenProperties DEF Grown

LEMMA FoldsLater ==
  ASSUME NEW s, NEW m, Grown(s, m), NEW x, x.version \in Nat, Folds(x, s)
  PROVE  Folds(x, m)
BY DEF Grown, Folds

LEMMA QueuedLater ==
  ASSUME NEW s, NEW m, Grown(s, m), NEW q, Queued(q, s)
  PROVE  Queued(q, m)
BY DEF Grown, Queued

LEMMA SnapshotsLater ==
  ASSUME NEW s, NEW m, Grown(s, m), NEW snaps, SoundSnapshots(snaps, s)
  PROVE  SoundSnapshots(snaps, m)
<1>1. ASSUME NEW i \in 1 .. Len(snaps)
      PROVE  Folds(snaps[i], m)
  <2>1. snaps[i] \in Snapshot
    BY ElementOfSeq DEF SoundSnapshots
  <2>2. QED
    BY <2>1, FoldsLater DEF SoundSnapshots, Snapshot
<1>2. QED
  BY <1>1 DEF SoundSnapshots

\* A copy as it appears in the invariant.
LEMMA Shape ==
  ASSUME AggregateInv, NEW c \in Client
  PROVE  /\ agg[c] \in Copy /\ op[c] \in Doing
         /\ SoundClient(agg[c], op[c], stream, inflight, given)
         /\ SoundQueue(agg[c], op[c], stream, inflight, given)
         /\ stream \in Seq(Nat) /\ Tip \in Nat /\ given \in Nat
BY LenProperties DEF AggregateInv, SoundClient, SoundStream, Tip

-----------------------------------------------------------------------------
(* Steps of one client that leave the stream alone.                         *)

\* The client keeps its queue, or gives it up.
LEMMA ClientStep ==
  ASSUME AggregateInv, NEW c \in Client, NEW a \in Copy, NEW o \in Doing, Copies(c, a, o),
         UNCHANGED <<stream, inflight, given>>,
         SoundClient(a, o, stream, inflight, given),
         a.unsaved \in {agg[c].unsaved, <<>>}
  PROVE  /\ agg' \in [Client -> Copy] /\ op' \in [Client -> Doing]
         /\ \A d \in Client : SoundClient(agg[d], op[d], stream, inflight, given)'
         /\ Exclusive'
<1>1. agg' \in [Client -> Copy] /\ op' \in [Client -> Doing]
  BY DEF AggregateInv, Copies
<1>2. \A d \in Client : /\ agg'[d] = IF d = c THEN a ELSE agg[d]
                        /\ op'[d] = IF d = c THEN o ELSE op[d]
  BY DEF AggregateInv, Copies
<1>3. \A d \in Client : SoundClient(agg'[d], op'[d], stream', inflight', given')
  BY <1>2 DEF AggregateInv
<1>4. Exclusive'
  <2>1. \A d \in Client : agg'[d].unsaved \in {agg[d].unsaved, <<>>}
    BY <1>2
  <2>2. \A s : ~Share(<<>>, s) /\ ~Share(s, <<>>)
    BY DEF Share
  <2>3. QED
    BY <2>1, <2>2 DEF AggregateInv, Exclusive
<1>5. QED
  BY <1>1, <1>3, <1>4

LEMMA CopyStep ==
  ASSUME AggregateInv, NEW c \in Client, NEW a \in Copy, NEW o \in Doing, Copies(c, a, o),
         UNCHANGED <<backend, stream, inflight, snapshots, cache, given>>,
         SoundClient(a, o, stream, inflight, given),
         a.unsaved \in {agg[c].unsaved, <<>>}
  PROVE  AggregateInv'
BY ClientStep DEF AggregateInv

-----------------------------------------------------------------------------
(* Application and hydration.                                               *)

LEMMA QueueWritten ==
  ASSUME NEW a \in Copy, NEW q \in Seq(Numbers)
  PROVE  LET b == [a EXCEPT !.unapplied = q]
         IN  /\ b \in Copy /\ b.unapplied = q
             /\ b.version = a.version /\ b.state = a.state /\ b.unsaved = a.unsaved
BY DEF Copy

LEMMA NextWritten ==
  ASSUME NEW a \in Copy, Append(a.state, Head(a.unapplied).event) \in Seq(Nat),
         Tail(a.unapplied) \in Seq(Numbers)
  PROVE  /\ ApplyNext(a) \in Copy
         /\ ApplyNext(a).version = a.version + 1
         /\ ApplyNext(a).state = Append(a.state, Head(a.unapplied).event)
         /\ ApplyNext(a).unsaved = a.unsaved
         /\ ApplyNext(a).unapplied = Tail(a.unapplied)
<1> DEFINE v  == a.version + 1
           st == Append(a.state, Head(a.unapplied).event)
           q  == Tail(a.unapplied)
<1>1. v \in Nat /\ st \in Seq(Nat) /\ q \in Seq(Numbers)
  BY DEF Copy
<1>2. ApplyNext(a) = [a EXCEPT !.version = v, !.state = st, !.unapplied = q]
  BY DEF ApplyNext
<1> HIDE DEF v, st, q
<1>3. /\ ApplyNext(a) \in Copy
      /\ ApplyNext(a).version = v /\ ApplyNext(a).state = st
      /\ ApplyNext(a).unsaved = a.unsaved /\ ApplyNext(a).unapplied = q
  BY <1>1, <1>2 DEF Copy
<1>4. QED
  BY <1>3 DEF v, st, q

LEMMA FoldLonger ==
  ASSUME NEW s \in Seq(Nat), NEW st \in Seq(Nat), Len(st) + 1 <= Len(s),
         \A i \in 1 .. Len(st) : st[i] = s[i]
  PROVE  LET longer == Append(st, s[Len(st) + 1])
         IN  /\ longer \in Seq(Nat) /\ Len(longer) = Len(st) + 1
             /\ \A i \in 1 .. Len(st) + 1 : longer[i] = s[i]
<1> DEFINE n == Len(st)
           e == s[n + 1]
           longer == Append(st, e)
<1>1. n \in Nat /\ Len(s) \in Nat
  BY LenProperties
<1>2. e \in Nat
  BY <1>1, ElementOfSeq
<1>3. /\ longer \in Seq(Nat) /\ Len(longer) = n + 1
      /\ \A i \in 1 .. n : longer[i] = st[i]
      /\ longer[n + 1] = e
  BY <1>2, AppendProperties
<1>4. \A i \in 1 .. n : longer[i] = s[i]
  BY <1>3
<1>5. \A i \in 1 .. n + 1 : i \in 1 .. n \/ i = n + 1
  <2> HIDE DEF n
  <2>1. QED BY <1>1
<1> HIDE DEF longer, e
<1>6. \A i \in 1 .. n + 1 : longer[i] = s[i]
  BY <1>3, <1>4, <1>5 DEF e
<1>7. QED
  BY <1>3, <1>6 DEF longer, e

LEMMA QueueLonger ==
  ASSUME NEW s, NEW q \in Seq(Numbers), Queued(q, s),
         NEW e \in Numbers, e.version \in 1 .. Len(s), e.event = s[e.version]
  PROVE  /\ Append(q, e) \in Seq(Numbers) /\ Append(q, e) # <<>>
         /\ Queued(Append(q, e), s)
<1> DEFINE n == Len(q)
           longer == Append(q, e)
<1>1. n \in Nat
  BY LenProperties
<1>2. /\ longer \in Seq(Numbers) /\ longer # <<>> /\ Len(longer) = n + 1
      /\ \A i \in 1 .. n : longer[i] = q[i]
      /\ longer[n + 1] = e
  BY AppendProperties
<1> HIDE DEF longer, n
<1>3. \A i \in 1 .. n + 1 : i \in 1 .. n \/ i = n + 1
  BY <1>1
<1>4. \A i \in 1 .. n : longer[i].version \in 1 .. Len(s) /\ longer[i].event = s[longer[i].version]
  BY <1>2 DEF Queued, n
<1>5. QED
  BY <1>2, <1>3, <1>4 DEF Queued, longer

LEMMA QueueShorter ==
  ASSUME NEW s, NEW q \in Seq(Numbers), Queued(q, s), q # <<>>
  PROVE  /\ Head(q) \in Numbers
         /\ Head(q).version \in 1 .. Len(s) /\ Head(q).event = s[Head(q).version]
         /\ Tail(q) \in Seq(Numbers) /\ Queued(Tail(q), s)
<1>1. Len(q) \in Nat \ {0} /\ Head(q) = q[1]
  BY EmptySeq
<1>2. /\ Head(q) \in Numbers /\ Tail(q) \in Seq(Numbers)
      /\ Len(Tail(q)) = Len(q) - 1
      /\ \A i \in 1 .. Len(Tail(q)) : Tail(q)[i] = q[i + 1]
  BY HeadTailProperties
<1>3. Queued(Tail(q), s)
  BY <1>1, <1>2 DEF Queued
<1>4. QED
  BY <1>1, <1>2, <1>3 DEF Queued

\* Applying the event of the next version keeps a copy a fold.
LEMMA Application ==
  ASSUME NEW s \in Seq(Nat), NEW a \in Copy, Folds(a, s), Queued(a.unapplied, s),
         a.unapplied # <<>>, Applies(a)
  PROVE  /\ ApplyNext(a) \in Copy
         /\ ApplyNext(a).version = a.version + 1
         /\ ApplyNext(a).unsaved = a.unsaved
         /\ ApplyNext(a).unapplied = Tail(a.unapplied)
         /\ Folds(ApplyNext(a), s) /\ Queued(ApplyNext(a).unapplied, s)
<1> DEFINE e == Head(a.unapplied)
<1>1. /\ a.unapplied \in Seq(Numbers) /\ a.state \in Seq(Nat) /\ a.version \in Nat
      /\ a.version = Len(a.state)
  BY DEF Copy, Folds
<1>2. /\ e.version = a.version + 1
      /\ e.version \in 1 .. Len(s) /\ e.event = s[e.version]
      /\ Tail(a.unapplied) \in Seq(Numbers) /\ Queued(Tail(a.unapplied), s)
  BY <1>1, QueueShorter DEF Applies
<1>3. a.version + 1 <= Len(s) /\ e.event = s[a.version + 1]
  BY <1>2
<1> HIDE DEF e
<1> DEFINE st == Append(a.state, e.event)
<1>4. /\ st \in Seq(Nat) /\ Len(st) = a.version + 1
      /\ \A i \in 1 .. a.version + 1 : st[i] = s[i]
  BY <1>1, <1>3, FoldLonger DEF Folds
<1>5. st = Append(a.state, Head(a.unapplied).event)
  BY DEF e
<1> HIDE DEF st
<1>6. /\ ApplyNext(a) \in Copy /\ ApplyNext(a).unapplied = Tail(a.unapplied)
      /\ ApplyNext(a).version = a.version + 1 /\ ApplyNext(a).state = st
      /\ ApplyNext(a).unsaved = a.unsaved
  BY <1>2, <1>4, <1>5, NextWritten
<1>7. Folds(ApplyNext(a), s)
  BY <1>3, <1>4, <1>6 DEF Folds
<1>8. QED
  BY <1>2, <1>6, <1>7

\* One event read by a hydration.
LEMMA Feeding ==
  ASSUME NEW s \in Seq(Nat), NEW fed, fed.agg \in Copy, fed.failed \in BOOLEAN,
         Folds(fed.agg, s), Queued(fed.agg.unapplied, s),
         NEW e \in Numbers, e.version \in 1 .. Len(s), e.event = s[e.version]
  PROVE  /\ Feed(fed, e).agg \in Copy /\ Feed(fed, e).failed \in BOOLEAN
         /\ Feed(fed, e).agg.unsaved = fed.agg.unsaved
         /\ Folds(Feed(fed, e).agg, s) /\ Queued(Feed(fed, e).agg.unapplied, s)
         /\ ~fed.failed /\ fed.agg.unapplied = <<>> /\ e.version = fed.agg.version + 1 =>
              /\ ~Feed(fed, e).failed /\ Feed(fed, e).agg.unapplied = <<>>
              /\ Feed(fed, e).agg.version = fed.agg.version + 1
<1> DEFINE q == [fed.agg EXCEPT !.unapplied = Append(@, e)]
<1>1. CASE fed.failed
  BY <1>1 DEF Feed
<1>2. CASE ~fed.failed
  <2>1. /\ Append(fed.agg.unapplied, e) \in Seq(Numbers)
        /\ Append(fed.agg.unapplied, e) # <<>>
        /\ Queued(Append(fed.agg.unapplied, e), s)
    <3>1. fed.agg.unapplied \in Seq(Numbers)
      BY DEF Copy
    <3>2. QED
      BY <3>1, QueueLonger
  <2>2. /\ q \in Copy /\ q.unapplied = Append(fed.agg.unapplied, e)
        /\ q.version = fed.agg.version /\ q.state = fed.agg.state
        /\ q.unsaved = fed.agg.unsaved
    BY <2>1, QueueWritten
  <2>3. Folds(q, s)
    BY <2>2 DEF Folds
  <2>4. Queued(q.unapplied, s)
    BY <2>1, <2>2
  <2>5. Feed(fed, e) = IF Applies(q) THEN [agg |-> ApplyNext(q), failed |-> FALSE]
                       ELSE [agg |-> q, failed |-> TRUE]
    BY <1>2 DEF Feed
  <2>6. fed.agg.unapplied = <<>> /\ e.version = fed.agg.version + 1 =>
          Applies(q) /\ Tail(q.unapplied) = <<>>
    <3>1. fed.agg.unapplied = <<>> => q.unapplied = <<e>>
      BY <2>2
    <3>2. QED
      BY <2>2, <3>1 DEF Applies
  <2> HIDE DEF q
  <2>7. CASE Applies(q)
    <3>1. q.unapplied # <<>>
      BY <2>1, <2>2
    <3>2. /\ ApplyNext(q) \in Copy /\ ApplyNext(q).version = q.version + 1
          /\ ApplyNext(q).unsaved = q.unsaved /\ ApplyNext(q).unapplied = Tail(q.unapplied)
          /\ Folds(ApplyNext(q), s) /\ Queued(ApplyNext(q).unapplied, s)
      BY <2>2, <2>3, <2>4, <2>7, <3>1, Application
    <3>3. Feed(fed, e).agg = ApplyNext(q) /\ Feed(fed, e).failed = FALSE
      BY <2>5, <2>7
    <3>4. QED
      BY <2>2, <2>6, <3>2, <3>3
  <2>8. CASE ~Applies(q)
    <3>1. Feed(fed, e).agg = q /\ Feed(fed, e).failed = TRUE
      BY <2>5, <2>8
    <3>2. QED
      BY <2>2, <2>3, <2>4, <2>6, <2>8, <3>1
  <2>9. QED
    BY <2>7, <2>8
<1>3. QED
  BY <1>1, <1>2

\* What a whole read makes of a copy: still a fold, and, where nothing was queued
\* and the read goes on from the copy's version, its version plus the events read.
FedFrom(a, read, f) ==
  f = [i \in 0 .. Len(read) |->
         IF i = 0 THEN [agg |-> a, failed |-> FALSE] ELSE Feed(f[i - 1], read[i])]

LEMMA FedExists ==
  ASSUME NEW a, NEW R, NEW read \in Seq(R)
  PROVE  \E f : FedFrom(a, read, f) /\ Fed(a, read) = f[Len(read)]
<1> DEFINE Upto(m, f) == f = [i \in 0 .. m |->
                 IF i = 0 THEN [agg |-> a, failed |-> FALSE] ELSE Feed(f[i - 1], read[i])]
           S == {m \in 0 .. Len(read) : \E f : Upto(m, f)}
<1>1. Len(read) \in Nat
  BY LenProperties
<1>2. 0 \in S
  <2>1. \E f : Upto(0, f)
    <3>1. Upto(0, [i \in 0 .. 0 |-> [agg |-> a, failed |-> FALSE]])
      OBVIOUS
    <3> HIDE DEF Upto
    <3>2. QED
      BY <3>1
  <2> HIDE DEF Upto
  <2>2. QED
    BY <1>1, <2>1
<1>3. ASSUME NEW m \in 1 .. Len(read), m - 1 \in S
      PROVE  m \in S
  <2>1. PICK f : Upto(m - 1, f)
    BY <1>3
  <2> DEFINE g == [i \in 0 .. m |-> IF i = m THEN Feed(f[m - 1], read[m]) ELSE f[i]]
  <2>2. \A i \in 0 .. m - 1 : f[i] = IF i = 0 THEN [agg |-> a, failed |-> FALSE]
                                   ELSE Feed(f[i - 1], read[i])
    BY <2>1, Zenon
  <2>3. \A i \in 0 .. m : g[i] = IF i = 0 THEN [agg |-> a, failed |-> FALSE]
                                ELSE Feed(g[i - 1], read[i])
    <3>1. CASE TRUE
      <4> TAKE i \in 0 .. m
      <4>1. CASE i = m
        <5>1. g[m] = Feed(f[m - 1], read[m]) /\ g[m - 1] = f[m - 1]
          OBVIOUS
        <5>2. QED
          BY <4>1, <5>1
      <4>2. CASE i \in 0 .. m - 1
        <5>1. g[i] = f[i] /\ (i # 0 => g[i - 1] = f[i - 1])
          BY <4>2
        <5>2. QED
          BY <2>2, <4>2, <5>1
      <4>3. QED
        BY <4>1, <4>2
    <3>2. QED
      BY <3>1
  <2>4. Upto(m, g)
    <3>1. g = [i \in 0 .. m |-> g[i]]
      OBVIOUS
    <3> HIDE DEF g
    <3>2. QED
      BY <2>3, <3>1
  <2>5. m \in 0 .. Len(read)
    BY <1>1
  <2> HIDE DEF Upto, g
  <2>6. QED
    BY <2>4, <2>5
<1>4. Len(read) \in S
  <2> HIDE DEF S
  <2>1. \A i \in 0 .. Len(read) : i \in S
    BY <1>1, <1>2, <1>3, IntervalInduction
  <2>2. QED
    BY <1>1, <2>1
<1>5. QED
  BY <1>4 DEF Fed, FedFrom

LEMMA FedSound ==
  ASSUME NEW s \in Seq(Nat), NEW a \in Copy, Folds(a, s), Queued(a.unapplied, s),
         NEW read \in Seq(Numbers), Queued(read, s)
  PROVE  /\ Fed(a, read).agg \in Copy /\ Fed(a, read).failed \in BOOLEAN
         /\ Fed(a, read).agg.unsaved = a.unsaved
         /\ Folds(Fed(a, read).agg, s) /\ Queued(Fed(a, read).agg.unapplied, s)
         /\ a.unapplied = <<>> /\ (\A i \in 1 .. Len(read) : read[i].version = a.version + i) =>
              /\ ~Fed(a, read).failed /\ Fed(a, read).agg.unapplied = <<>>
              /\ Fed(a, read).agg.version = a.version + Len(read)
<1> DEFINE Whole(fed, i) ==
             a.unapplied = <<>> /\ (\A j \in 1 .. Len(read) : read[j].version = a.version + j) =>
               /\ ~fed.failed /\ fed.agg.unapplied = <<>>
               /\ fed.agg.version = a.version + i
           Good(fed, i) ==
             /\ fed.agg \in Copy /\ fed.failed \in BOOLEAN
             /\ fed.agg.unsaved = a.unsaved
             /\ Folds(fed.agg, s) /\ Queued(fed.agg.unapplied, s)
             /\ Whole(fed, i)
<1>1. PICK f : FedFrom(a, read, f) /\ Fed(a, read) = f[Len(read)]
  BY FedExists
<1> DEFINE S == {i \in 0 .. Len(read) : Good(f[i], i)}
<1>2. Len(read) \in Nat /\ a.version \in Nat
  BY LenProperties DEF Copy
<1>3. Good(f[0], 0)
  <2>1. f[0].agg = a /\ f[0].failed = FALSE
    BY <1>1, <1>2 DEF FedFrom
  <2>2. /\ f[0].agg \in Copy /\ f[0].failed \in BOOLEAN /\ f[0].agg.unsaved = a.unsaved
        /\ Folds(f[0].agg, s) /\ Queued(f[0].agg.unapplied, s)
    BY <2>1
  <2>3. Whole(f[0], 0)
    BY <1>2, <2>1
  <2> HIDE DEF Whole
  <2>4. QED
    BY <2>2, <2>3
<1>4. ASSUME NEW i \in 1 .. Len(read), Good(f[i - 1], i - 1)
      PROVE  Good(f[i], i)
  <2>1. f[i] = Feed(f[i - 1], read[i])
    <3>1. i \in 0 .. Len(read) /\ i # 0
      BY <1>2
    <3>2. QED
      BY <1>1, <3>1, Zenon DEF FedFrom
  <2>2. read[i] \in Numbers
    BY ElementOfSeq
  <2>3. read[i].version \in 1 .. Len(s) /\ read[i].event = s[read[i].version]
    BY DEF Queued
  <2> DEFINE fed == f[i - 1]
  <2>4. /\ fed.agg \in Copy /\ fed.failed \in BOOLEAN /\ fed.agg.unsaved = a.unsaved
        /\ Folds(fed.agg, s) /\ Queued(fed.agg.unapplied, s) /\ Whole(fed, i - 1)
    BY <1>4
  <2> HIDE DEF fed, Whole
  <2>5. /\ Feed(fed, read[i]).agg \in Copy /\ Feed(fed, read[i]).failed \in BOOLEAN
        /\ Feed(fed, read[i]).agg.unsaved = fed.agg.unsaved
        /\ Folds(Feed(fed, read[i]).agg, s) /\ Queued(Feed(fed, read[i]).agg.unapplied, s)
        /\ ~fed.failed /\ fed.agg.unapplied = <<>> /\ read[i].version = fed.agg.version + 1 =>
             /\ ~Feed(fed, read[i]).failed /\ Feed(fed, read[i]).agg.unapplied = <<>>
             /\ Feed(fed, read[i]).agg.version = fed.agg.version + 1
    BY <2>2, <2>3, <2>4, Feeding
  <2>6. Whole(Feed(fed, read[i]), i)
    BY <1>2, <2>4, <2>5 DEF Whole
  <2>7. QED
    BY <2>1, <2>4, <2>5, <2>6 DEF fed
<1> HIDE DEF Good
<1>5. \A i \in 0 .. Len(read) : i \in S
  <2>1. 0 \in S
    BY <1>2, <1>3
  <2>2. \A i \in 1 .. Len(read) : i - 1 \in S => i \in S
    BY <1>4
  <2> HIDE DEF S
  <2>3. QED
    BY <1>2, <2>1, <2>2, IntervalInduction
<1>6. Good(Fed(a, read), Len(read))
  BY <1>1, <1>2, <1>5
<1>7. QED
  BY <1>6 DEF Good

-----------------------------------------------------------------------------
(* What a hydration reads.                                                  *)

LEMMA SmallerOfTwo ==
  ASSUME NEW x \in Int, NEW y \in Int
  PROVE  Min({x, y}) = IF x <= y THEN x ELSE y
<1> DEFINE least == IF x <= y THEN x ELSE y
<1>1. least \in {x, y} /\ \A w \in {x, y} : least <= w
  OBVIOUS
<1>2. \A z \in {x, y} : (\A w \in {x, y} : z <= w) => z = least
  OBVIOUS
<1> HIDE DEF least
<1>3. (CHOOSE z \in {x, y} : \A w \in {x, y} : z <= w) = least
  BY <1>1, <1>2
<1>4. QED
  BY <1>3 DEF Min, least

\* A part of the stream that starts behind a version, numbered as it is there.
Part(read, version, s) ==
  /\ read \in Seq(Numbers) /\ Queued(read, s)
  /\ \A i \in 1 .. Len(read) : read[i].version = version + i

LEMMA PartOfStream ==
  ASSUME NEW s \in Seq(Nat)
  PROVE  Part(Numbered(s, 0), 0, s) /\ Len(Numbered(s, 0)) = Len(s)
<1> DEFINE n == Len(s)
           all == Numbered(s, 0)
<1>1. n \in Nat /\ \A i \in 1 .. n : s[i] \in Nat
  BY LenProperties, ElementOfSeq
<1>2. all = [i \in 1 .. n |-> [version |-> 0 + i, event |-> s[i]]]
  BY DEF Numbered
<1> HIDE DEF n, all
<1>3. \A i \in 1 .. n : /\ all[i] \in Numbers
                        /\ all[i].version = i /\ all[i].event = s[i]
  BY <1>1, <1>2 DEF Numbers
<1>4. all \in Seq(Numbers) /\ Len(all) = n
  <2>1. all = [i \in 1 .. n |-> all[i]]
    BY <1>2
  <2>2. QED
    BY <1>1, <1>3, <2>1, IsASeq, LenProperties
<1>5. QED
  BY <1>1, <1>3, <1>4 DEF Part, Queued, n, all

LEMMA PartOfPart ==
  ASSUME NEW s \in Seq(Nat), NEW v \in Nat, NEW all, Part(all, v, s),
         NEW m \in 1 .. Len(all) + 1, NEW n \in Int, n <= Len(all)
  PROVE  /\ Part(SubSeq(all, m, n), v + m - 1, s)
         /\ Len(SubSeq(all, m, n)) = IF n < m THEN 0 ELSE n - m + 1
<1> DEFINE part == SubSeq(all, m, n)
<1>1. all \in Seq(Numbers) /\ Len(all) \in Nat
  BY LenProperties DEF Part
<1>2. /\ part \in Seq(Numbers)
      /\ Len(part) = IF n < m THEN 0 ELSE n - m + 1
      /\ \A i \in 1 .. n - m + 1 : part[i] = all[m + i - 1]
  BY <1>1, SubSeqProperties
<1> HIDE DEF part
<1>3. \A i \in 1 .. Len(part) : part[i] = all[m + i - 1] /\ m + i - 1 \in 1 .. Len(all)
  BY <1>1, <1>2
<1>4. Queued(part, s)
  BY <1>3 DEF Part, Queued
<1>5. \A i \in 1 .. Len(part) : part[i].version = v + m - 1 + i
  <2> TAKE i \in 1 .. Len(part)
  <2>1. part[i].version = v + (m + i - 1)
    BY <1>3 DEF Part
  <2>2. Len(part) \in Nat /\ m \in Nat
    BY <1>1, <1>2
  <2>3. QED
    BY <2>1, <2>2
<1>6. QED
  BY <1>2, <1>4, <1>5 DEF Part, part

LEMMA Reading ==
  ASSUME stream \in Seq(Nat), NEW a \in Copy, a.version <= Tip, NEW target \in Nat
  PROVE  /\ Part(ToRead(a, target), a.version, stream)
         /\ target = 0 => Len(ToRead(a, target)) = Tip - a.version
         /\ target >= a.version /\ target # 0 =>
              Len(ToRead(a, target)) = Min({target, Tip}) - a.version
<1> DEFINE tail == SubSeq(Numbered(stream, 0), a.version + 1, Tip)
<1>1. a.version \in Nat /\ Tip \in Nat
  BY LenProperties DEF Copy, Tip
<1>2. Part(tail, a.version, stream) /\ Len(tail) = Tip - a.version
  <2>1. Part(Numbered(stream, 0), 0, stream) /\ Len(Numbered(stream, 0)) = Tip
    BY PartOfStream DEF Tip
  <2> DEFINE all == Numbered(stream, 0)
             m   == a.version + 1
  <2>2. m \in 1 .. Len(all) + 1 /\ Tip <= Len(all) /\ 0 + m - 1 = a.version
    BY <1>1, <2>1
  <2> HIDE DEF all, m
  <2>3. /\ Part(SubSeq(all, m, Tip), 0 + m - 1, stream)
        /\ Len(SubSeq(all, m, Tip)) = IF Tip < m THEN 0 ELSE Tip - m + 1
    BY <1>1, <2>1, <2>2, PartOfPart DEF all
  <2>4. QED
    BY <1>1, <2>2, <2>3 DEF m, all
<1>3. CASE target = 0
  BY <1>2, <1>3 DEF ToRead
<1>4. CASE target # 0
  <2> DEFINE n == Min({Len(tail), Count(a, target)})
  <2>1. n = IF Tip - a.version <= target - a.version THEN Tip - a.version ELSE target - a.version
    <3>1. Len(tail) = Tip - a.version /\ Count(a, target) = target - a.version
      BY <1>2 DEF Count
    <3> HIDE DEF tail
    <3>2. Tip - a.version \in Int /\ target - a.version \in Int
      BY <1>1
    <3>3. QED
      BY <3>1, <3>2, SmallerOfTwo
  <2>2. ToRead(a, target) = SubSeq(tail, 1, n)
    BY <1>4 DEF ToRead
  <2>3. Min({target, Tip}) = IF target <= Tip THEN target ELSE Tip
    BY <1>1, SmallerOfTwo
  <2> HIDE DEF tail, n
  <2> DEFINE m == 1
  <2>4. n \in Int /\ n <= Len(tail) /\ m \in 1 .. Len(tail) + 1
    BY <1>1, <1>2, <2>1
  <2>5. a.version + m - 1 = a.version /\ n - m + 1 = n
    BY <1>1, <2>4
  <2> HIDE DEF m
  <2>6. /\ Part(SubSeq(tail, m, n), a.version + m - 1, stream)
        /\ Len(SubSeq(tail, m, n)) = IF n < m THEN 0 ELSE n - m + 1
    <3>1. Part(tail, a.version, stream) /\ a.version \in Nat /\ stream \in Seq(Nat)
      BY <1>1, <1>2
    <3>2. QED
      BY ONLY <2>4, <3>1, PartOfPart
  <2>7. Part(ToRead(a, target), a.version, stream)
    BY <2>2, <2>5, <2>6 DEF m
  <2>8. Len(ToRead(a, target)) = IF n < 1 THEN 0 ELSE n
    BY <2>2, <2>4, <2>5, <2>6 DEF m
  <2>9. QED
    BY <1>1, <1>4, <2>1, <2>3, <2>7, <2>8
<1>5. QED
  BY <1>3, <1>4

-----------------------------------------------------------------------------
(* Steps of a client that is not in doubt afterwards.                       *)

LEMMA AtVersionWritten ==
  ASSUME NEW a \in Copy, NEW v \in Nat, NEW st \in Seq(Nat)
  PROVE  /\ AtVersion(a, v, st) \in Copy
         /\ AtVersion(a, v, st).version = v /\ AtVersion(a, v, st).state = st
         /\ AtVersion(a, v, st).unsaved = a.unsaved
         /\ AtVersion(a, v, st).unapplied = a.unapplied
BY DEF AtVersion, Copy

LEMMA NewAggregateSound ==
  ASSUME NEW s, Len(s) \in Nat
  PROVE  /\ NewAggregate \in Copy
         /\ NewAggregate.unsaved = <<>> /\ NewAggregate.unapplied = <<>>
         /\ Folds(NewAggregate, s) /\ Queued(NewAggregate.unapplied, s)
<1>1. NewAggregate \in Copy
  BY EmptySeq DEF NewAggregate, Copy
<1>2. /\ NewAggregate.unsaved = <<>> /\ NewAggregate.unapplied = <<>>
      /\ NewAggregate.state = <<>> /\ NewAggregate.version = 0
  BY DEF NewAggregate
<1>3. QED
  BY <1>1, <1>2 DEF Folds, Queued

\* The client's stage after a step.
Sober(a, o) ==
  /\ o \in Doing /\ ~o.doubt
  /\ o.load => a.unapplied = <<>> /\ o.pc \in {"snapshot", "stream", "filling"}

LEMMA Stops ==
  ASSUME NEW a
  PROVE  /\ Sober(a, Ready(FALSE)) /\ Sober(a, Idle)
         /\ Ready(TRUE) \in Doing /\ Ready(TRUE).doubt /\ Ready(TRUE).pc = "ready" /\ ~Ready(TRUE).load
<1>1. Idle \in Doing /\ Idle.load = FALSE /\ Idle.doubt = FALSE
  BY DEF Idle, Doing, Stage
<1>2. Ready(FALSE) \in Doing /\ Ready(FALSE).load = FALSE /\ Ready(FALSE).doubt = FALSE
  BY DEF Ready, Idle, Doing, Stage
<1>3. Ready(TRUE) \in Doing /\ Ready(TRUE).doubt /\ Ready(TRUE).pc = "ready" /\ ~Ready(TRUE).load
  BY DEF Ready, Idle, Doing, Stage
<1>4. QED
  BY <1>1, <1>2, <1>3 DEF Sober

LEMMA StartsLoad ==
  ASSUME NEW a, a.unapplied = <<>>
  PROVE  Sober(a, [Idle EXCEPT !.pc = "snapshot", !.load = TRUE])
BY DEF Sober, Idle, Doing, Stage

LEMMA StartsVersion ==
  ASSUME NEW a, a.unapplied = <<>>, NEW t \in Nat
  PROVE  Sober(a, [Idle EXCEPT !.pc = "snapshot", !.load = TRUE, !.target = t])
BY DEF Sober, Idle, Doing, Stage

LEMMA StartsHydration ==
  ASSUME NEW a, NEW t \in Nat
  PROVE  Sober(a, [Idle EXCEPT !.pc = "snapshot", !.target = t])
BY DEF Sober, Idle, Doing, Stage

LEMMA StartsSave ==
  ASSUME NEW a, NEW p \in Stage
  PROVE  Sober(a, [Idle EXCEPT !.pc = p])
BY DEF Sober, Idle, Doing

LEMMA GoesOn ==
  ASSUME NEW a, NEW o, Sober(a, o), NEW p \in Stage,
         o.load => p \in {"snapshot", "stream", "filling"}
  PROVE  Sober(a, [o EXCEPT !.pc = p])
<1>1. LET w == [o EXCEPT !.pc = p]
      IN  w \in Doing /\ w.doubt = o.doubt /\ w.load = o.load /\ w.pc = p
  BY DEF Sober, Doing
<1>2. QED
  BY <1>1 DEF Sober

\* A client without doubt before keeps its queue; any client may give it up.
LEMMA SoberStep ==
  ASSUME AggregateInv, NEW c \in Client, NEW a \in Copy, NEW o, Copies(c, a, o),
         UNCHANGED <<stream, inflight, given>>,
         Folds(a, stream), Queued(a.unapplied, stream), Sober(a, o),
         \/ a.unsaved = <<>>
         \/ a.unsaved = agg[c].unsaved /\ ~op[c].doubt
  PROVE  /\ agg' \in [Client -> Copy] /\ op' \in [Client -> Doing]
         /\ \A d \in Client : SoundClient(agg[d], op[d], stream, inflight, given)'
         /\ Exclusive'
<1>1. SoundQueue(a, o, stream, inflight, given)
  <2>1. CASE a.unsaved = <<>>
    BY <2>1 DEF SoundQueue, Unique, Among, Share
  <2>2. CASE a.unsaved = agg[c].unsaved /\ ~op[c].doubt
    BY <2>2, Shape DEF SoundQueue
  <2>3. QED
    BY <2>1, <2>2
<1>2. SoundClient(a, o, stream, inflight, given) /\ o \in Doing
  BY <1>1 DEF SoundClient, Sober
<1>3. QED
  BY <1>2, ClientStep

LEMMA QuietStep ==
  ASSUME AggregateInv, NEW c \in Client, NEW a \in Copy, NEW o, Copies(c, a, o),
         UNCHANGED <<backend, stream, inflight, snapshots, cache, given>>,
         Folds(a, stream), Queued(a.unapplied, stream), Sober(a, o),
         \/ a.unsaved = <<>>
         \/ a.unsaved = agg[c].unsaved /\ ~op[c].doubt
  PROVE  AggregateInv'
BY SoberStep DEF AggregateInv

-----------------------------------------------------------------------------
(* The actions that read.                                                   *)

\* What is known of a copy whose client is past its "ready" stage.
LEMMA Working ==
  ASSUME AggregateInv, NEW c \in Client, ~op[c].doubt
  PROVE  /\ agg[c] \in Copy /\ Folds(agg[c], stream) /\ Queued(agg[c].unapplied, stream)
         /\ agg[c].version \in Nat /\ agg[c].version <= Tip
         /\ Sober(agg[c], op[c])
BY Shape DEF SoundClient, Sober, Copy, Folds, Tip

LEMMA NotReady ==
  ASSUME AggregateInv, NEW c \in Client, op[c].pc # "ready"
  PROVE  ~op[c].doubt
BY Shape DEF SoundClient

LEMMA CreateInv ==
  ASSUME AggregateInv, NEW c \in Client, Create(c)
  PROVE  AggregateInv'
BY Shape, NewAggregateSound, Stops, QuietStep DEF Create, Tip

LEMMA LoadVersionInv ==
  ASSUME AggregateInv, NEW c \in Client, NEW v \in Nat, LoadVersion(c, v)
  PROVE  AggregateInv'
<1>1. Sober(NewAggregate, [Idle EXCEPT !.pc = "snapshot", !.load = TRUE, !.target = v])
  BY Shape, NewAggregateSound, StartsVersion DEF Tip
<1>2. QED
  BY <1>1, Shape, NewAggregateSound, QuietStep DEF LoadVersion, Tip

LEMMA LoadInv ==
  ASSUME AggregateInv, NEW c \in Client, Load(c)
  PROVE  AggregateInv'
<1>1. /\ NewAggregate \in Copy /\ NewAggregate.unsaved = <<>> /\ NewAggregate.unapplied = <<>>
      /\ Folds(NewAggregate, stream) /\ Queued(NewAggregate.unapplied, stream)
  BY Shape, NewAggregateSound DEF Tip
<1>2. CASE Copies(c, NewAggregate, [Idle EXCEPT !.pc = "snapshot", !.load = TRUE])
  <2>1. Sober(NewAggregate, [Idle EXCEPT !.pc = "snapshot", !.load = TRUE])
    BY <1>1, StartsLoad
  <2>2. QED
    BY <1>1, <1>2, <2>1, QuietStep DEF Load
<1>3. CASE Copies(c, AtVersion(NewAggregate, cache.version, cache.state), Ready(FALSE))
  <2> DEFINE a == AtVersion(NewAggregate, cache.version, cache.state)
  <2>1. /\ cache.version \in Nat /\ cache.state \in Seq(Nat) /\ Folds(cache, stream)
    BY DEF AggregateInv, SoundSnapshot, Snapshot
  <2>2. /\ a \in Copy /\ a.version = cache.version /\ a.state = cache.state
        /\ a.unsaved = <<>> /\ a.unapplied = <<>>
    BY <1>1, <2>1, AtVersionWritten
  <2>3. Sober(a, Ready(FALSE))
    BY Stops
  <2> HIDE DEF a
  <2>4. Folds(a, stream) /\ Queued(a.unapplied, stream)
    BY <1>1, <2>1, <2>2 DEF Folds
  <2>5. Copies(c, a, Ready(FALSE)) /\ UNCHANGED <<backend, stream, inflight, snapshots, cache, given>>
    BY <1>3 DEF Load, a
  <2>6. QED
    BY <2>2, <2>3, <2>4, <2>5, QuietStep
<1>4. QED
  BY <1>2, <1>3 DEF Load

LEMMA HydrateInv ==
  ASSUME AggregateInv, NEW c \in Client, NEW target \in Nat, Hydrate(c, target)
  PROVE  AggregateInv'
<1>1. Sober(agg[c], [Idle EXCEPT !.pc = "snapshot", !.target = target])
  BY StartsHydration
<1>2. agg[c] \in Copy /\ Folds(agg[c], stream) /\ Queued(agg[c].unapplied, stream)
  BY Shape DEF SoundClient
<1>3. agg[c].unsaved = <<>> \/ ~op[c].doubt
  BY DEF Hydrate
<1>4. QED
  BY <1>1, <1>2, <1>3, QuietStep DEF Hydrate

LEMMA ReadSnapshotInv ==
  ASSUME AggregateInv, NEW c \in Client, ReadSnapshot(c)
  PROVE  AggregateInv'
<1> DEFINE toRead == [op[c] EXCEPT !.pc = "stream"]
<1>1. ~op[c].doubt
  BY NotReady DEF ReadSnapshot, Has
<1>2. \A a \in Copy : /\ Sober(a, Ready(FALSE))
                      /\ a.unapplied = agg[c].unapplied => Sober(a, toRead)
  <2>1. op[c] \in Doing /\ "stream" \in Stage /\ Sober(agg[c], op[c])
    BY <1>1, Shape, Working DEF Stage
  <2>2. \A a \in Copy : a.unapplied = agg[c].unapplied => Sober(a, op[c])
    BY <2>1 DEF Sober
  <2>3. QED
    BY <2>1, <2>2, Stops, GoesOn
<1> HIDE DEF toRead
<1>3. CASE Copies(c, agg[c], toRead)
  BY <1>1, <1>2, <1>3, Working, QuietStep DEF ReadSnapshot
<1>4. ASSUME NEW i \in Newest(op[c].target),
             Copies(c, AtVersion(agg[c], snapshots[i].version, snapshots[i].state),
                    IF snapshots[i].version = op[c].target THEN Ready(FALSE) ELSE toRead)
      PROVE  AggregateInv'
  <2> DEFINE a == AtVersion(agg[c], snapshots[i].version, snapshots[i].state)
             o == IF snapshots[i].version = op[c].target THEN Ready(FALSE) ELSE toRead
  <2>1. /\ snapshots[i].version \in Nat /\ snapshots[i].state \in Seq(Nat)
        /\ Folds(snapshots[i], stream)
    <3>1. i \in 1 .. Len(snapshots) /\ snapshots \in Seq(Snapshot) /\ Folds(snapshots[i], stream)
      BY DEF Newest, AggregateInv, SoundSnapshots
    <3>2. snapshots[i] \in Snapshot
      BY <3>1, ElementOfSeq
    <3>3. QED
      BY <3>1, <3>2 DEF Snapshot
  <2>2. /\ a \in Copy /\ a.version = snapshots[i].version /\ a.state = snapshots[i].state
        /\ a.unsaved = agg[c].unsaved /\ a.unapplied = agg[c].unapplied
    <3>1. agg[c] \in Copy
      BY <1>1, Working
    <3> HIDE DEF ReadSnapshot
    <3>2. QED
      BY ONLY <2>1, <3>1 DEF AtVersion, Copy
  <2> HIDE DEF a
  <2>3. Folds(a, stream) /\ Queued(a.unapplied, stream)
    BY <1>1, <2>1, <2>2, Working DEF Folds
  <2>4. Sober(a, o)
    BY <1>2, <2>2
  <2>5. Copies(c, a, o) /\ UNCHANGED <<backend, stream, inflight, snapshots, cache, given>>
    BY <1>4 DEF ReadSnapshot, a
  <2> HIDE DEF o
  <2>6. QED
    BY <1>1, <2>2, <2>3, <2>4, <2>5, QuietStep
<1>5. QED
  BY <1>3, <1>4 DEF ReadSnapshot, toRead

LEMMA ReadStreamInv ==
  ASSUME AggregateInv, NEW c \in Client, ReadStream(c)
  PROVE  AggregateInv'
<1> DEFINE read == ToRead(agg[c], op[c].target)
           part(n) == SubSeq(read, 1, n)
           filling == IF op[c].load /\ op[c].target = 0
                        THEN [op[c] EXCEPT !.pc = "filling"] ELSE Ready(FALSE)
<1>1. ~op[c].doubt
  BY NotReady DEF ReadStream, Has
<1>2. /\ agg[c] \in Copy /\ Folds(agg[c], stream) /\ Queued(agg[c].unapplied, stream)
      /\ Sober(agg[c], op[c]) /\ op[c] \in Doing /\ op[c].target \in Nat
      /\ stream \in Seq(Nat) /\ agg[c].version \in Nat /\ agg[c].version <= Tip
  BY <1>1, Working, Shape DEF Doing
<1>3. Part(read, agg[c].version, stream) /\ Len(read) \in Nat
  BY <1>2, Reading, LenProperties DEF Part
<1> HIDE DEF read
<1>4. ASSUME NEW n \in 0 .. Len(read)
      PROVE  LET fed == Fed(agg[c], part(n))
             IN  /\ fed.agg \in Copy /\ fed.agg.unsaved = agg[c].unsaved
                 /\ Folds(fed.agg, stream) /\ Queued(fed.agg.unapplied, stream)
                 /\ op[c].load => ~fed.failed /\ fed.agg.unapplied = <<>>
  <2>1. Part(part(n), agg[c].version, stream)
    <3> DEFINE m == 1
    <3>1. m \in 1 .. Len(read) + 1 /\ n \in Int /\ n <= Len(read) /\ agg[c].version + m - 1 = agg[c].version
      BY <1>2, <1>3
    <3> HIDE DEF m
    <3>2. Part(SubSeq(read, m, n), agg[c].version + m - 1, stream)
      BY ONLY <1>2, <1>3, <3>1, PartOfPart
    <3>3. QED
      BY <3>1, <3>2 DEF m
  <2> HIDE DEF part
  <2>2. op[c].load => agg[c].unapplied = <<>>
    BY <1>2 DEF Sober
  <2>3. QED
    BY <1>2, <2>1, <2>2, FedSound DEF Part
<1>5. PICK n \in 0 .. Len(read), broken \in BOOLEAN :
        LET fed == Fed(agg[c], part(n))
        IN  \/ Copies(c, NewAggregate, Idle)
            \/ Copies(c, fed.agg, Ready(FALSE))
            \/ Copies(c, fed.agg, filling)
  BY DEF ReadStream, read
<1> DEFINE fed == Fed(agg[c], part(n))
<1>6. UNCHANGED <<backend, stream, inflight, snapshots, cache, given>>
  BY DEF ReadStream
<1>7. /\ Sober(fed.agg, Ready(FALSE)) /\ Sober(NewAggregate, Idle)
      /\ Sober(fed.agg, filling)
  <2>1. "filling" \in Stage /\ (op[c].load => fed.agg.unapplied = <<>>)
    BY <1>4 DEF Stage
  <2> HIDE DEF fed
  <2>2. Sober(fed.agg, op[c])
    BY <1>2, <2>1 DEF Sober
  <2>3. QED
    BY <1>2, <2>1, <2>2, Stops, GoesOn
<1>8. /\ fed.agg \in Copy /\ fed.agg.unsaved = agg[c].unsaved
      /\ Folds(fed.agg, stream) /\ Queued(fed.agg.unapplied, stream)
  BY <1>4
<1>9. \/ Copies(c, NewAggregate, Idle)
      \/ Copies(c, fed.agg, Ready(FALSE))
      \/ Copies(c, fed.agg, filling)
  BY <1>5
<1> HIDE DEF fed, filling
<1>10. CASE Copies(c, NewAggregate, Idle)
  BY <1>6, <1>7, <1>10, Shape, NewAggregateSound, QuietStep DEF Tip
<1>11. CASE Copies(c, fed.agg, Ready(FALSE))
  BY <1>1, <1>6, <1>7, <1>8, <1>11, QuietStep
<1>12. CASE Copies(c, fed.agg, filling)
  BY <1>1, <1>6, <1>7, <1>8, <1>12, QuietStep
<1>13. QED
  BY <1>9, <1>10, <1>11, <1>12

LEMMA PutInv ==
  ASSUME AggregateInv, NEW c \in Client, Put(c)
  PROVE  AggregateInv'
<1>1. ~op[c].doubt /\ Sober(agg[c], Ready(FALSE))
  BY NotReady, Stops DEF Put
<1>2. /\ agg' \in [Client -> Copy] /\ op' \in [Client -> Doing]
      /\ \A d \in Client : SoundClient(agg[d], op[d], stream, inflight, given)'
      /\ Exclusive'
  BY <1>1, Working, SoberStep DEF Put
<1>3. SoundSnapshot(cache', stream)
  <2>1. cache' \in {cache, [version |-> agg[c].version, state |-> agg[c].state]}
    BY DEF Put
  <2> DEFINE entry == [version |-> agg[c].version, state |-> agg[c].state]
  <2>2. entry \in Snapshot /\ entry.version = agg[c].version /\ entry.state = agg[c].state
    BY <1>1, Working DEF Snapshot, Copy
  <2> HIDE DEF entry
  <2>3. SoundSnapshot(entry, stream)
    BY <1>1, <2>2, Working DEF SoundSnapshot, Folds
  <2>4. QED
    BY <2>1, <2>3 DEF AggregateInv, entry
<1>4. QED
  BY <1>2, <1>3 DEF AggregateInv, Put

-----------------------------------------------------------------------------
(* The actions that change the queues.                                      *)

LEMMA UnsavedWritten ==
  ASSUME NEW a \in Copy, NEW u \in Seq(Nat)
  PROVE  /\ [a EXCEPT !.unsaved = u] \in Copy /\ [a EXCEPT !.unsaved = u].unsaved = u
         /\ [a EXCEPT !.unsaved = u].version = a.version /\ [a EXCEPT !.unsaved = u].state = a.state
         /\ [a EXCEPT !.unsaved = u].unapplied = a.unapplied
BY DEF Copy

LEMMA DiscardInv ==
  ASSUME AggregateInv, NEW c \in Client, DiscardUnsavedEvents(c)
  PROVE  AggregateInv'
<1> DEFINE a == [agg[c] EXCEPT !.unsaved = <<>>]
<1>1. /\ a \in Copy /\ a.unsaved = <<>> /\ a.version = agg[c].version
      /\ a.state = agg[c].state /\ a.unapplied = agg[c].unapplied
  BY Shape, UnsavedWritten, EmptySeq
<1>2. Copies(c, a, Ready(FALSE)) /\ UNCHANGED <<backend, stream, inflight, snapshots, cache, given>>
  BY DEF DiscardUnsavedEvents
<1> HIDE DEF a
<1>3. Folds(a, stream) /\ Queued(a.unapplied, stream)
  BY <1>1, Shape DEF SoundClient, Folds
<1>4. QED
  BY <1>1, <1>2, <1>3, Stops, QuietStep

LEMMA SaveNothingInv ==
  ASSUME AggregateInv, NEW c \in Client, SaveNothing(c)
  PROVE  AggregateInv'
<1>1. agg[c] \in Copy /\ Folds(agg[c], stream) /\ Queued(agg[c].unapplied, stream)
  BY Shape DEF SoundClient
<1> DEFINE p == IF backend = "none" THEN "caching" ELSE "applying"
<1>2. Sober(agg[c], [Idle EXCEPT !.pc = p])
  BY StartsSave DEF Stage
<1>3. QED
  BY <1>1, <1>2, QuietStep DEF SaveNothing

LEMMA AppliedInv ==
  ASSUME AggregateInv, NEW c \in Client, Applied(c)
  PROVE  AggregateInv'
<1>1. ~op[c].doubt /\ op[c].pc = "applying"
  BY NotReady DEF Applied, Has
<1>2. Sober(agg[c], op[c]) /\ ~op[c].load
  BY <1>1, Working DEF Sober
<1>3. Sober(agg[c], [op[c] EXCEPT !.pc = "caching"])
  BY <1>2, GoesOn DEF Stage
<1>4. QED
  BY <1>1, <1>3, Working, QuietStep DEF Applied

LEMMA AppendEventInv ==
  ASSUME AggregateInv, NEW c \in Client, AppendEvent(c)
  PROVE  AggregateInv'
<1> DEFINE e == given + 1
           u == agg[c].unsaved
           w == Append(u, e)
           a == [agg[c] EXCEPT !.unsaved = w]
<1>1. /\ agg[c] \in Copy /\ op[c] \in Doing /\ u \in Seq(Nat) /\ e \in Nat /\ given \in Nat
      /\ Len(u) \in Nat
      /\ Unique(u) /\ Among(u, given)
      /\ SoundClient(agg[c], op[c], stream, inflight, given)
      /\ SoundQueue(agg[c], op[c], stream, inflight, given)
  BY Shape, LenProperties DEF Copy, SoundQueue
<1>2. /\ w \in Seq(Nat) /\ Len(w) = Len(u) + 1
      /\ \A i \in 1 .. Len(u) : w[i] = u[i]
      /\ w[Len(u) + 1] = e
  BY <1>1, AppendProperties
<1>3. /\ a \in Copy /\ a.unsaved = w /\ a.version = agg[c].version
      /\ a.state = agg[c].state /\ a.unapplied = agg[c].unapplied
  BY <1>1, <1>2, UnsavedWritten
<1>4. /\ agg' = [agg EXCEPT ![c] = a] /\ op' = [op EXCEPT ![c] = op[c]] /\ given' = e
      /\ UNCHANGED <<backend, stream, inflight, snapshots, cache>>
  BY DEF AppendEvent, Copies
<1> HIDE DEF a, w, u
<1>5. \A i \in 1 .. Len(w) : \/ i = Len(u) + 1 /\ w[i] = e
                             \/ i \in 1 .. Len(u) /\ w[i] = u[i] /\ w[i] \in 1 .. given
  <2> TAKE i \in 1 .. Len(w)
  <2>1. i = Len(u) + 1 \/ i \in 1 .. Len(u)
    BY <1>1, <1>2
  <2>2. QED
    BY <1>1, <1>2, <2>1 DEF Among
<1>6. Unique(w)
  <2>1. e \notin 1 .. given
    BY <1>1
  <2> HIDE DEF e
  <2>2. QED
    BY <1>1, <1>5, <2>1 DEF Unique
<1>7. Among(w, e)
  <2>1. e \in 1 .. e /\ 1 .. given \subseteq 1 .. e
    BY <1>1
  <2> HIDE DEF e
  <2>2. QED
    BY <1>5, <2>1 DEF Among
<1>8. \A s : Among(s, given) => Among(s, e)
  BY <1>1 DEF Among, e
<1>9. \A s : Among(s, given) /\ (Share(w, s) \/ Share(s, w)) => Share(u, s) /\ Share(s, u)
  <2>1. e \notin 1 .. given
    BY <1>1
  <2> HIDE DEF e
  <2>2. QED
    BY <1>5, <2>1 DEF Share, Among
<1>10. SoundStream(stream, inflight, e)
  BY <1>1, <1>8 DEF AggregateInv, SoundStream
<1>11. SoundClient(a, op[c], stream, inflight, e)
  <2>1. Among(stream, given) /\ \A l \in inflight : Among(l.events, given)
    BY DEF AggregateInv, SoundStream
  <2>2. SoundQueue(a, op[c], stream, inflight, e)
    BY <1>1, <1>3, <1>6, <1>7, <1>9, <2>1 DEF SoundQueue, u
  <2>3. QED
    BY <1>1, <1>3, <2>2 DEF SoundClient, Folds
<1>12. \A d \in Client : SoundClient(agg[d], op[d], stream, inflight, e) /\ Among(agg[d].unsaved, given)
  BY <1>8 DEF AggregateInv, SoundClient, SoundQueue
<1>13. \A d \in Client : /\ agg'[d] = IF d = c THEN a ELSE agg[d]
                         /\ op'[d] = op[d]
  BY <1>4 DEF AggregateInv
<1>14. /\ agg' \in [Client -> Copy] /\ op' \in [Client -> Doing]
  BY <1>1, <1>3, <1>4 DEF AggregateInv
<1>15. \A d \in Client : SoundClient(agg'[d], op'[d], stream', inflight', given')
  BY <1>4, <1>11, <1>12, <1>13
<1>16. Exclusive'
  BY <1>3, <1>9, <1>12, <1>13 DEF AggregateInv, Exclusive, u
<1>17. QED
  BY <1>4, <1>10, <1>14, <1>15, <1>16 DEF AggregateInv

-----------------------------------------------------------------------------
(* The actions that append to the stream.                                   *)

LEMMA Concat ==
  ASSUME NEW s \in Seq(Nat), NEW t \in Seq(Nat)
  PROVE  /\ s \o t \in Seq(Nat) /\ Len(s) \in Nat /\ Len(t) \in Nat
         /\ Len(s \o t) = Len(s) + Len(t)
         /\ \A i \in 1 .. Len(s) : (s \o t)[i] = s[i]
         /\ \A i \in 1 .. Len(t) : (s \o t)[Len(s) + i] = t[i]
         /\ \A i \in 1 .. Len(s \o t) : i \in 1 .. Len(s) \/ \E j \in 1 .. Len(t) : i = Len(s) + j
<1>1. Len(s) \in Nat /\ Len(t) \in Nat
  BY LenProperties
<1>2. /\ s \o t \in Seq(Nat) /\ Len(s \o t) = Len(s) + Len(t)
      /\ \A i \in 1 .. Len(s) + Len(t) : (s \o t)[i] =
              IF i <= Len(s) THEN s[i] ELSE t[i - Len(s)]
  BY ConcatProperties
<1>3. \A i \in 1 .. Len(s) : (s \o t)[i] = s[i]
  BY <1>1, <1>2
<1>4. \A i \in 1 .. Len(t) : (s \o t)[Len(s) + i] = t[i]
  <2> TAKE i \in 1 .. Len(t)
  <2>1. Len(s) + i \in 1 .. Len(s) + Len(t) /\ ~(Len(s) + i <= Len(s)) /\ Len(s) + i - Len(s) = i
    BY <1>1
  <2>2. QED
    BY <1>2, <2>1
<1>5. \A i \in 1 .. Len(s) + Len(t) : i \in 1 .. Len(s) \/ \E j \in 1 .. Len(t) : i = Len(s) + j
  <2> TAKE i \in 1 .. Len(s) + Len(t)
  <2>1. CASE i <= Len(s)
    BY <1>1, <2>1
  <2>2. CASE i > Len(s)
    <3>1. i - Len(s) \in 1 .. Len(t) /\ i = Len(s) + (i - Len(s))
      BY <1>1, <2>2
    <3>2. QED
      BY <3>1
  <2>3. QED
    BY <1>1, <2>1, <2>2
<1>6. QED
  BY <1>1, <1>2, <1>3, <1>4, <1>5

\* What is in a stream that an append has grown was there, or came with the append.
LEMMA ShareConcat ==
  ASSUME NEW s \in Seq(Nat), NEW t \in Seq(Nat), NEW u, Share(u, s \o t)
  PROVE  Share(u, s) \/ Share(u, t)
BY Concat DEF Share

LEMMA ShareSymmetric ==
  ASSUME NEW s, NEW t, Share(s, t)
  PROVE  Share(t, s)
BY DEF Share

LEMMA ShareNonEmpty ==
  ASSUME NEW s, NEW t \in Seq(Nat), Share(s, t)
  PROVE  Len(t) > 0
BY LenProperties DEF Share

\* An append that is recorded where it expected the stream to end.
LEMMA StreamAppended ==
  ASSUME NEW s, NEW lost, NEW n, SoundStream(s, lost, n),
         NEW t \in Seq(Nat), Unique(t), Among(t, n), ~Share(t, s),
         \A l \in lost : Share(l.events, t) => l.version = Len(s)
  PROVE  SoundStream(s \o t, lost, n)
<1>1. s \in Seq(Nat) /\ Unique(s) /\ Among(s, n)
  BY DEF SoundStream
<1>2. Unique(s \o t)
  <2> SUFFICES ASSUME NEW i \in 1 .. Len(s \o t), NEW j \in 1 .. Len(s \o t),
                      (s \o t)[i] = (s \o t)[j]
               PROVE  i = j
    BY DEF Unique
  <2>1. CASE i \in 1 .. Len(s) /\ j \in 1 .. Len(s)
    BY <1>1, <2>1, Concat DEF Unique
  <2>2. CASE i \in 1 .. Len(s) /\ j \notin 1 .. Len(s)
    <3>1. (s \o t)[i] = s[i] /\ \E k \in 1 .. Len(t) : (s \o t)[j] = t[k]
      BY <1>1, <2>2, Concat
    <3>2. QED
      BY <2>2, <3>1 DEF Share
  <2>3. CASE i \notin 1 .. Len(s) /\ j \in 1 .. Len(s)
    <3>1. (s \o t)[j] = s[j] /\ \E k \in 1 .. Len(t) : (s \o t)[i] = t[k]
      BY <1>1, <2>3, Concat
    <3>2. QED
      BY <2>3, <3>1 DEF Share
  <2>4. CASE i \notin 1 .. Len(s) /\ j \notin 1 .. Len(s)
    <3>1. PICK k \in 1 .. Len(t) : i = Len(s) + k
      BY <1>1, <2>4, Concat
    <3>2. PICK m \in 1 .. Len(t) : j = Len(s) + m
      BY <1>1, <2>4, Concat
    <3>3. t[k] = t[m]
      BY <1>1, <3>1, <3>2, Concat
    <3>4. QED
      BY <3>1, <3>2, <3>3 DEF Unique
  <2>5. QED
    BY <2>1, <2>2, <2>3, <2>4
<1>3. Among(s \o t, n)
  <2> SUFFICES ASSUME NEW i \in 1 .. Len(s \o t)
               PROVE  (s \o t)[i] \in 1 .. n
    BY DEF Among
  <2>1. i \in 1 .. Len(s) \/ \E k \in 1 .. Len(t) : i = Len(s) + k
    BY <1>1, Concat
  <2>2. (\E k \in 1 .. Len(s) : (s \o t)[i] = s[k]) \/ \E k \in 1 .. Len(t) : (s \o t)[i] = t[k]
    BY <1>1, <2>1, Concat
  <2>3. QED
    BY <1>1, <2>2 DEF Among
<1>4. s \o t \in Seq(Nat) /\ Len(s \o t) = Len(s) + Len(t) /\ Len(s) \in Nat /\ Len(t) \in Nat
  BY <1>1, Concat
<1>5. ASSUME NEW l \in lost, Share(l.events, s \o t)
      PROVE  l.version < Len(s \o t)
  <2>1. CASE Share(l.events, s)
    <3>1. l.version < Len(s) /\ l.version \in Nat
      BY <2>1 DEF SoundStream, Lost
    <3>2. QED
      BY <1>4, <3>1
  <2>2. CASE Share(l.events, t)
    BY <1>4, <2>2, ShareNonEmpty
  <2>3. QED
    BY <1>1, <1>5, <2>1, <2>2, ShareConcat
<1>6. QED
  BY <1>2, <1>3, <1>4, <1>5 DEF SoundStream

\* What an append of events t means to a client that changes nothing itself.
LEMMA ClientAppended ==
  ASSUME AggregateInv, NEW d \in Client, NEW t \in Seq(Nat), NEW lost \in SUBSET inflight,
         Share(agg[d].unsaved, t) => op[d].doubt /\ agg[d].version < Tip + Len(t)
  PROVE  SoundClient(agg[d], op[d], stream \o t, lost, given)
<1>1. /\ agg[d] \in Copy /\ agg[d].version \in Nat
      /\ SoundClient(agg[d], op[d], stream, inflight, given)
      /\ SoundQueue(agg[d], op[d], stream, inflight, given)
      /\ stream \in Seq(Nat)
  BY Shape DEF Copy
<1>2. Grown(stream, stream \o t) /\ Len(stream \o t) = Tip + Len(t) /\ Len(t) \in Nat /\ Tip \in Nat
  BY <1>1, GrownByConcat, Concat DEF Tip
<1>3. Folds(agg[d], stream \o t) /\ Queued(agg[d].unapplied, stream \o t)
  BY <1>1, <1>2, FoldsLater, QueuedLater DEF SoundClient
<1>4. Share(agg[d].unsaved, stream \o t) => op[d].doubt /\ agg[d].version < Len(stream \o t)
  <2>1. Share(agg[d].unsaved, stream) => op[d].doubt /\ agg[d].version < Tip
    BY <1>1 DEF SoundQueue, Tip
  <2>2. Share(agg[d].unsaved, stream \o t) =>
          Share(agg[d].unsaved, stream) \/ Share(agg[d].unsaved, t)
    BY <1>1, ShareConcat
  <2>3. QED
    BY <1>1, <1>2, <2>1, <2>2
<1>5. SoundQueue(agg[d], op[d], stream \o t, lost, given)
  BY <1>1, <1>4 DEF SoundQueue
<1>6. QED
  BY <1>1, <1>3, <1>5 DEF SoundClient

\* A save's append: its events are nowhere yet, for the version was as expected.
LEMMA Saves ==
  ASSUME AggregateInv, NEW c \in Client, Expected(agg[c].version)
  PROVE  LET u == agg[c].unsaved
         IN  /\ u \in Seq(Nat) /\ Unique(u) /\ Among(u, given)
             /\ ~Share(u, stream) /\ agg[c].version = Tip
             /\ SoundStream(stream \o u, inflight, given)
             /\ SoundSnapshots(snapshots, stream \o u) /\ SoundSnapshot(cache, stream \o u)
             /\ \A d \in Client \ {c} : SoundClient(agg[d], op[d], stream \o u, inflight, given)
<1> DEFINE u == agg[c].unsaved
<1>1. /\ u \in Seq(Nat) /\ Unique(u) /\ Among(u, given) /\ agg[c].version = Tip
      /\ Tip \in Nat /\ stream \in Seq(Nat)
      /\ SoundQueue(agg[c], op[c], stream, inflight, given)
  BY Shape DEF Copy, SoundQueue, Expected
<1>2. ~Share(u, stream)
  BY <1>1 DEF SoundQueue, Tip
<1>3. \A l \in inflight : Share(l.events, u) => l.version = Tip
  BY <1>1, ShareSymmetric DEF SoundQueue
<1> HIDE DEF u
<1>4. SoundStream(stream \o u, inflight, given)
  BY <1>1, <1>2, <1>3, StreamAppended DEF AggregateInv, Tip
<1>5. Grown(stream, stream \o u)
  BY <1>1, GrownByConcat
<1>6. SoundSnapshots(snapshots, stream \o u) /\ SoundSnapshot(cache, stream \o u)
  BY <1>5, SnapshotsLater, FoldsLater DEF AggregateInv, SoundSnapshot, Snapshot
<1>7. ASSUME NEW d \in Client \ {c}
      PROVE  SoundClient(agg[d], op[d], stream \o u, inflight, given)
  <2>1. ~Share(agg[d].unsaved, u)
    BY DEF AggregateInv, Exclusive, u
  <2>2. QED
    BY <1>1, <2>1, ClientAppended
<1>8. QED
  BY <1>1, <1>2, <1>4, <1>6, <1>7 DEF u

\* The saver's own part of such a step.
LEMMA SavedStep ==
  ASSUME AggregateInv, NEW c \in Client, Expected(agg[c].version),
         NEW a \in Copy, NEW o \in Doing, Copies(c, a, o),
         stream' = stream \o agg[c].unsaved,
         UNCHANGED <<backend, inflight, snapshots, cache, given>>,
         a.unsaved \in {agg[c].unsaved, <<>>},
         SoundClient(a, o, stream', inflight, given)
  PROVE  AggregateInv'
<1>1. /\ SoundStream(stream', inflight, given)
      /\ SoundSnapshots(snapshots, stream') /\ SoundSnapshot(cache, stream')
      /\ \A d \in Client \ {c} : SoundClient(agg[d], op[d], stream', inflight, given)
  BY Saves
<1>2. agg' \in [Client -> Copy] /\ op' \in [Client -> Doing]
  BY DEF AggregateInv, Copies
<1>3. \A d \in Client : /\ agg'[d] = IF d = c THEN a ELSE agg[d]
                        /\ op'[d] = IF d = c THEN o ELSE op[d]
  BY DEF AggregateInv, Copies
<1>4. \A d \in Client : SoundClient(agg'[d], op'[d], stream', inflight, given)
  BY <1>1, <1>3
<1>5. Exclusive'
  <2>1. \A d \in Client : agg'[d].unsaved \in {agg[d].unsaved, <<>>}
    BY <1>3
  <2>2. \A s : ~Share(<<>>, s) /\ ~Share(s, <<>>)
    BY DEF Share
  <2>3. QED
    BY <2>1, <2>2 DEF AggregateInv, Exclusive
<1>6. QED
  BY <1>1, <1>2, <1>4, <1>5 DEF AggregateInv

LEMMA SaveUnconfirmedInv ==
  ASSUME AggregateInv, NEW c \in Client, SaveUnconfirmed(c)
  PROVE  AggregateInv'
<1> DEFINE u == agg[c].unsaved
           s == stream \o u
<1>1. /\ agg[c] \in Copy /\ u \in Seq(Nat) /\ Unique(u) /\ Among(u, given)
      /\ agg[c].version = Tip /\ Tip \in Nat /\ stream \in Seq(Nat)
      /\ SoundClient(agg[c], op[c], stream, inflight, given)
      /\ SoundQueue(agg[c], op[c], stream, inflight, given)
  BY Shape, Saves DEF SaveUnconfirmed
<1>2. Grown(stream, s) /\ Len(s) = Tip + Len(u) /\ Len(u) \in Nat
  BY <1>1, GrownByConcat, Concat DEF Tip
<1>3. Ready(TRUE) \in Doing /\ Ready(TRUE).doubt /\ Ready(TRUE).pc = "ready" /\ ~Ready(TRUE).load
  BY Stops
<1>4. Share(u, s) => agg[c].version < Len(s)
  <2>1. u # <<>>
    BY DEF SaveUnconfirmed
  <2>2. Len(u) > 0
    BY <1>1, <1>2, <2>1, EmptySeq
  <2> HIDE DEF s, u
  <2>3. QED
    BY <1>1, <1>2, <2>2
<1> HIDE DEF s, u
<1>5. SoundQueue(agg[c], Ready(TRUE), s, inflight, given)
  BY <1>1, <1>3, <1>4 DEF SoundQueue, u
<1>6. Folds(agg[c], s) /\ Queued(agg[c].unapplied, s)
  <2>1. agg[c].version \in Nat
    BY <1>1
  <2>2. QED
    BY <1>1, <1>2, <2>1, FoldsLater, QueuedLater DEF SoundClient
<1>7. SoundClient(agg[c], Ready(TRUE), s, inflight, given)
  BY <1>3, <1>5, <1>6 DEF SoundClient
<1>8. QED
  BY <1>1, <1>3, <1>7, SavedStep DEF SaveUnconfirmed, s, u

\* The events of the append, numbered as the stream numbers them.
LEMMA QueuedAppended ==
  ASSUME NEW s \in Seq(Nat), NEW u \in Seq(Nat), NEW q \in Seq(Numbers), Queued(q, s)
  PROVE  LET w == q \o Numbered(u, Len(s)) IN w \in Seq(Numbers) /\ Queued(w, s \o u)
<1> DEFINE b == Numbered(u, Len(s))
           w == q \o b
<1>1. /\ Len(s) \in Nat /\ Len(u) \in Nat /\ Len(q) \in Nat
      /\ \A i \in 1 .. Len(u) : u[i] \in Nat
  BY LenProperties, ElementOfSeq
<1>2. /\ Len(s \o u) = Len(s) + Len(u)
      /\ \A i \in 1 .. Len(u) : (s \o u)[Len(s) + i] = u[i]
  BY Concat
<1>3. b = [i \in 1 .. Len(u) |-> [version |-> Len(s) + i, event |-> u[i]]]
  BY DEF Numbered
<1> HIDE DEF b
<1>4. \A i \in 1 .. Len(u) : /\ b[i] \in Numbers
                             /\ b[i].version = Len(s) + i /\ b[i].event = u[i]
  BY <1>1, <1>3 DEF Numbers
<1>5. b \in Seq(Numbers) /\ Len(b) = Len(u)
  <2>1. b = [i \in 1 .. Len(u) |-> b[i]]
    BY <1>3
  <2>2. QED
    BY <1>1, <1>4, <2>1, IsASeq, LenProperties
<1>6. Queued(b, s \o u)
  <2> SUFFICES ASSUME NEW i \in 1 .. Len(b)
               PROVE  b[i].version \in 1 .. Len(s \o u) /\ b[i].event = (s \o u)[b[i].version]
    BY DEF Queued
  <2>1. Len(s) + i \in 1 .. Len(s) + Len(u)
    BY <1>1, <1>5
  <2>2. QED
    BY <1>2, <1>4, <1>5, <2>1
<1>7. Queued(q, s \o u)
  BY GrownByConcat, QueuedLater
<1>8. /\ w \in Seq(Numbers) /\ Len(w) = Len(q) + Len(b)
      /\ \A i \in 1 .. Len(q) + Len(b) : w[i] = IF i <= Len(q) THEN q[i] ELSE b[i - Len(q)]
  BY <1>5, ConcatProperties
<1> HIDE DEF w
<1>9. \A i \in 1 .. Len(w) : (\E j \in 1 .. Len(q) : w[i] = q[j]) \/ (\E j \in 1 .. Len(b) : w[i] = b[j])
  <2> TAKE i \in 1 .. Len(w)
  <2>1. CASE i <= Len(q)
    BY <1>1, <1>8, <2>1
  <2>2. CASE ~(i <= Len(q))
    <3>1. i - Len(q) \in 1 .. Len(b)
      BY <1>1, <1>5, <1>8, <2>2
    <3>2. QED
      BY <1>8, <2>2, <3>1
  <2>3. QED
    BY <2>1, <2>2
<1>10. Queued(w, s \o u)
  <2> DEFINE Sound(e) == e.version \in 1 .. Len(s \o u) /\ e.event = (s \o u)[e.version]
  <2>1. (\A j \in 1 .. Len(q) : Sound(q[j])) /\ (\A j \in 1 .. Len(b) : Sound(b[j]))
    BY <1>6, <1>7 DEF Queued
  <2> HIDE DEF Sound
  <2>2. \A i \in 1 .. Len(w) : Sound(w[i])
    BY <1>9, <2>1
  <2>3. QED
    BY <2>2 DEF Sound, Queued
<1>11. QED
  BY <1>8, <1>10 DEF w, b

LEMMA SaveAppendedInv ==
  ASSUME AggregateInv, NEW c \in Client, NEW skipApply \in BOOLEAN, SaveAppended(c, skipApply)
  PROVE  AggregateInv'
<1> DEFINE u == agg[c].unsaved
           s == stream \o u
           q == agg[c].unapplied \o Numbered(u, Tip)
           a == [agg[c] EXCEPT !.unapplied = q, !.unsaved = <<>>]
           p == IF skipApply THEN "caching" ELSE "applying"
           o == [Idle EXCEPT !.pc = p]
<1>1. /\ agg[c] \in Copy /\ u \in Seq(Nat) /\ agg[c].unapplied \in Seq(Numbers)
      /\ agg[c].version \in Nat /\ stream \in Seq(Nat)
      /\ Folds(agg[c], stream) /\ Queued(agg[c].unapplied, stream)
  BY Shape DEF Copy, SoundClient
<1>2. q \in Seq(Numbers) /\ Queued(q, s)
  BY <1>1, QueuedAppended DEF Tip
<1>3. Sober(a, o) /\ o \in Doing
  BY StartsSave DEF Stage, Sober
<1>4. /\ a \in Copy /\ a.unapplied = q /\ a.unsaved = <<>>
      /\ a.version = agg[c].version /\ a.state = agg[c].state
  <2> HIDE DEF q
  <2>1. <<>> \in Seq(Nat)
    BY EmptySeq
  <2>2. QED
    BY <1>1, <1>2, <2>1 DEF Copy
<1>5. /\ Copies(c, a, o) /\ stream' = s /\ Expected(agg[c].version)
      /\ UNCHANGED <<backend, inflight, snapshots, cache, given>>
  BY DEF SaveAppended
<1> HIDE DEF a, o, q
<1>6. Folds(a, s)
  <2>1. Folds(agg[c], s)
    BY <1>1, GrownByConcat, FoldsLater
  <2> HIDE DEF s
  <2>2. QED
    BY <1>4, <2>1 DEF Folds
<1>7. SoundQueue(a, o, s, inflight, given)
  BY <1>4 DEF SoundQueue, Unique, Among, Share
<1>8. SoundClient(a, o, s, inflight, given)
  <2>1. o.load = FALSE /\ o.doubt = FALSE
    BY DEF o, Idle
  <2> HIDE DEF s
  <2>2. QED
    BY <1>2, <1>4, <1>6, <1>7, <2>1 DEF SoundClient
<1>9. QED
  BY <1>3, <1>4, <1>5, <1>8, SavedStep

LEMMA SaveUnknownInv ==
  ASSUME AggregateInv, NEW c \in Client, SaveUnknown(c)
  PROVE  AggregateInv'
<1> DEFINE append == [version |-> agg[c].version, events |-> agg[c].unsaved]
           o == Ready(LeavesDoubt(c))
<1>1. /\ agg[c] \in Copy /\ SoundClient(agg[c], op[c], stream, inflight, given)
      /\ SoundQueue(agg[c], op[c], stream, inflight, given)
      /\ agg[c].version \in Nat /\ agg[c].unsaved \in Seq(Nat)
      /\ Unique(agg[c].unsaved) /\ Among(agg[c].unsaved, given)
      /\ ~Share(agg[c].unsaved, stream)
  BY Shape, Saves DEF SaveUnknown, Copy
<1>2. append \in Lost /\ append.version = agg[c].version /\ append.events = agg[c].unsaved
  BY <1>1 DEF Lost
<1>3. o \in Doing /\ o.doubt /\ o.pc = "ready" /\ ~o.load
  BY Stops DEF LeavesDoubt
<1>4. /\ Copies(c, agg[c], o) /\ inflight' \in {inflight, inflight \cup {append}}
      /\ UNCHANGED <<backend, stream, snapshots, cache, given>>
  BY DEF SaveUnknown
<1> HIDE DEF append, o
<1>5. inflight' \subseteq inflight \cup {append}
  BY <1>4
<1>6. SoundStream(stream, inflight', given)
  <2>1. SoundStream(stream, inflight, given)
    BY DEF AggregateInv
  <2>2. \A l \in inflight : Share(l.events, append.events) \/ Share(append.events, l.events) =>
                              l.version = append.version
    BY <1>1, <1>2, ShareSymmetric DEF SoundQueue
  <2>3. inflight' \subseteq Lost
    BY <1>2, <1>5, <2>1 DEF SoundStream
  <2>4. \A l \in inflight' :
          /\ Unique(l.events) /\ Among(l.events, given)
          /\ Share(l.events, stream) => l.version < Len(stream)
    BY <1>1, <1>2, <1>5, <2>1 DEF SoundStream
  <2>5. \A l \in inflight' : \A m \in inflight' : Share(l.events, m.events) => l.version = m.version
    BY <1>5, <2>1, <2>2 DEF SoundStream
  <2>6. QED
    BY <2>1, <2>3, <2>4, <2>5 DEF SoundStream
<1>7. SoundClient(agg[c], o, stream, inflight', given)
  <2>1. \A l \in inflight' : Share(agg[c].unsaved, l.events) => l.version = agg[c].version
    BY <1>1, <1>2, <1>5 DEF SoundQueue
  <2>2. SoundQueue(agg[c], o, stream, inflight', given)
    BY <1>1, <1>3, <2>1 DEF SoundQueue
  <2>3. QED
    BY <1>1, <1>3, <2>2 DEF SoundClient
<1>8. ASSUME NEW d \in Client \ {c}
      PROVE  SoundClient(agg[d], op[d], stream, inflight', given)
  <2>1. SoundClient(agg[d], op[d], stream, inflight, given)
    BY Shape
  <2>2. ~Share(agg[d].unsaved, append.events)
    BY <1>2 DEF AggregateInv, Exclusive
  <2>3. SoundQueue(agg[d], op[d], stream, inflight', given)
    BY <1>5, <2>1, <2>2 DEF SoundClient, SoundQueue
  <2>4. QED
    BY <2>1, <2>3 DEF SoundClient
<1>9. /\ agg' = agg /\ op' \in [Client -> Doing]
      /\ \A d \in Client : op'[d] = IF d = c THEN o ELSE op[d]
  BY <1>3, <1>4 DEF AggregateInv, Copies
<1>10. \A d \in Client : SoundClient(agg'[d], op'[d], stream', inflight', given')
  BY <1>4, <1>7, <1>8, <1>9
<1>11. QED
  BY <1>4, <1>6, <1>9, <1>10 DEF AggregateInv, Exclusive

LEMMA LandLateInv ==
  ASSUME AggregateInv, LandLate
  PROVE  AggregateInv'
<1>1. PICK l \in inflight :
        /\ inflight' = inflight \ {l}
        /\ stream' = IF Expected(l.version) THEN stream \o l.events ELSE stream
        /\ UNCHANGED <<backend, snapshots, cache, given, agg, op>>
  BY DEF LandLate
<1>2. inflight' \in SUBSET inflight
  BY <1>1
<1>3. SoundStream(stream, inflight', given)
  BY <1>2 DEF AggregateInv, SoundStream
<1>4. CASE ~Expected(l.version)
  <2>1. \A d \in Client : SoundClient(agg[d], op[d], stream, inflight', given)
    BY <1>2 DEF AggregateInv, SoundClient, SoundQueue
  <2>2. QED
    BY <1>1, <1>3, <1>4, <2>1 DEF AggregateInv, Exclusive
<1>5. CASE Expected(l.version)
  <2> DEFINE t == l.events
  <2>1. /\ t \in Seq(Nat) /\ l.version = Tip /\ stream \in Seq(Nat) /\ Tip \in Nat
        /\ Unique(t) /\ Among(t, given) /\ ~Share(t, stream)
    BY <1>5, LenProperties DEF AggregateInv, SoundStream, Lost, Expected, Tip
  <2>2. \A m \in inflight' : Share(m.events, t) => m.version = Len(stream)
    BY <1>2, <2>1 DEF AggregateInv, SoundStream, Tip
  <2> HIDE DEF t
  <2>3. SoundStream(stream \o t, inflight', given)
    BY <1>3, <2>1, <2>2, StreamAppended
  <2>4. Grown(stream, stream \o t)
    BY <2>1, GrownByConcat
  <2>5. SoundSnapshots(snapshots, stream \o t) /\ SoundSnapshot(cache, stream \o t)
    BY <2>4, SnapshotsLater, FoldsLater DEF AggregateInv, SoundSnapshot, Snapshot
  <2>6. ASSUME NEW d \in Client
        PROVE  SoundClient(agg[d], op[d], stream \o t, inflight', given)
    <3>1. Share(agg[d].unsaved, t) => op[d].doubt /\ agg[d].version = Tip
      BY <2>1, Shape DEF SoundQueue, t
    <3>2. Share(agg[d].unsaved, t) => op[d].doubt /\ agg[d].version < Tip + Len(t)
      <4>1. Len(t) \in Nat /\ (Share(agg[d].unsaved, t) => Len(t) > 0)
        BY <2>1, LenProperties, ShareNonEmpty
      <4>2. QED
        BY <2>1, <3>1, <4>1
    <3>3. QED
      BY <1>2, <2>1, <3>2, ClientAppended
  <2>7. QED
    BY <1>1, <1>5, <2>3, <2>5, <2>6 DEF AggregateInv, Exclusive, t
<1>6. QED
  BY <1>4, <1>5

-----------------------------------------------------------------------------
(* Application after a save, and the snapshots it writes.                   *)

LEMMA GreaterOfTwo ==
  ASSUME NEW x \in Int, NEW y \in Int
  PROVE  Max({x, y}) = IF x >= y THEN x ELSE y
<1> DEFINE most == IF x >= y THEN x ELSE y
<1>1. most \in {x, y} /\ \A w \in {x, y} : most >= w
  OBVIOUS
<1>2. \A z \in {x, y} : (\A w \in {x, y} : z >= w) => z = most
  OBVIOUS
<1> HIDE DEF most
<1>3. (CHOOSE z \in {x, y} : \A w \in {x, y} : z >= w) = most
  BY <1>1, <1>2
<1>4. QED
  BY <1>3 DEF Max, most

LEMMA RetainedSound ==
  ASSUME NEW s, NEW snaps, SoundSnapshots(snaps, s)
  PROVE  SoundSnapshots(Retained(snaps), s)
<1> DEFINE n == Len(snaps)
           m == Max({1, n - MaxSnapshots + 1})
           rest == SubSeq(snaps, m, n)
<1>1. n \in Nat /\ snaps \in Seq(Snapshot) /\ MaxSnapshots \in Nat
  BY LenProperties, StackBounds DEF SoundSnapshots
<1>2. m \in Int /\ m >= 1
  <2>1. n - MaxSnapshots + 1 \in Int /\ 1 \in Int
    BY <1>1
  <2> HIDE DEF n
  <2>2. QED
    BY <2>1, GreaterOfTwo
<1> HIDE DEF m
<1>3. \A i \in m .. n : snaps[i] \in Snapshot
  <2> TAKE i \in m .. n
  <2>1. i \in 1 .. Len(snaps)
    BY <1>1, <1>2
  <2>2. QED
    BY <1>1, <2>1, ElementOfSeq
<1>4. /\ rest \in Seq(Snapshot)
      /\ Len(rest) = IF m <= n THEN n - m + 1 ELSE 0
      /\ \A i \in 1 .. n - m + 1 : rest[i] = snaps[m + i - 1]
  BY <1>1, <1>2, <1>3, SubSeqProperties
<1> HIDE DEF rest
<1>5. \A i \in 1 .. Len(rest) : rest[i] = snaps[m + i - 1] /\ m + i - 1 \in 1 .. Len(snaps)
  BY <1>1, <1>2, <1>4
<1>6. SoundSnapshots(rest, s)
  BY <1>4, <1>5 DEF SoundSnapshots
<1>7. QED
  BY <1>6 DEF Retained, rest, m

LEMMA WrittenSound ==
  ASSUME NEW s, SoundSnapshots(snapshots, s), NEW snap \in Snapshot, Folds(snap, s), snap.version > 0,
         backend \in {"memory", "eventstream"}, NEW w \in WriteSnapshot(snap)
  PROVE  SoundSnapshots(w, s)
<1> DEFINE written == Append(snapshots, snap)
<1>1. SoundSnapshots(written, s)
  <2>1. snapshots \in Seq(Snapshot) /\ Len(snapshots) \in Nat
    BY LenProperties DEF SoundSnapshots
  <2>2. /\ written \in Seq(Snapshot) /\ Len(written) = Len(snapshots) + 1
        /\ \A i \in 1 .. Len(snapshots) : written[i] = snapshots[i]
        /\ written[Len(snapshots) + 1] = snap
    BY <2>1, AppendProperties
  <2> HIDE DEF written
  <2>3. \A i \in 1 .. Len(written) : i \in 1 .. Len(snapshots) \/ i = Len(snapshots) + 1
    BY <2>1, <2>2
  <2>4. \A i \in 1 .. Len(written) : Folds(written[i], s) /\ written[i].version > 0
    BY <2>2, <2>3 DEF SoundSnapshots
  <2>5. QED
    BY <2>2, <2>4 DEF SoundSnapshots
<1>2. SoundSnapshots(Retained(written), s)
  BY <1>1, RetainedSound
<1> HIDE DEF written
<1>3. w \in {snapshots, written, Retained(written)}
  BY DEF WriteSnapshot, written
<1>4. QED
  BY <1>1, <1>2, <1>3

LEMMA ApplySavedInv ==
  ASSUME AggregateInv, NEW c \in Client, ApplySaved(c)
  PROVE  AggregateInv'
<1>1. ~op[c].doubt /\ op[c].pc = "applying" /\ agg[c].unapplied # <<>>
  BY NotReady DEF ApplySaved, Has
<1>2. /\ agg[c] \in Copy /\ Folds(agg[c], stream) /\ Queued(agg[c].unapplied, stream)
      /\ op[c] \in Doing /\ ~op[c].load /\ stream \in Seq(Nat)
      /\ agg[c].version \in Nat
  BY <1>1, Shape, Working DEF Sober
<1>3. CASE Applies(agg[c])
  <2> DEFINE a == ApplyNext(agg[c])
  <2>1. /\ a \in Copy /\ a.version = agg[c].version + 1 /\ a.unsaved = agg[c].unsaved
        /\ Folds(a, stream) /\ Queued(a.unapplied, stream)
    BY <1>1, <1>2, <1>3, Application
  <2>2. /\ Copies(c, a, op[c])
        /\ snapshots' \in {snapshots} \cup
             (IF backend = "none" THEN {} ELSE WriteSnapshot(Snapped(a)))
        /\ UNCHANGED <<backend, stream, inflight, cache, given>>
    BY <1>3 DEF ApplySaved
  <2> HIDE DEF a
  <2>3. Sober(a, op[c])
    BY <1>1, <1>2 DEF Sober
  <2>4. /\ agg' \in [Client -> Copy] /\ op' \in [Client -> Doing]
        /\ \A d \in Client : SoundClient(agg[d], op[d], stream, inflight, given)'
        /\ Exclusive'
    BY <1>1, <2>1, <2>2, <2>3, SoberStep
  <2>5. /\ Snapped(a) \in Snapshot /\ Snapped(a).version = a.version /\ Snapped(a).state = a.state
    BY <2>1 DEF Snapped, Snapshot, Copy
  <2>6. Folds(Snapped(a), stream) /\ Snapped(a).version > 0
    <3>1. Folds(Snapped(a), stream)
      BY <2>1, <2>5 DEF Folds
    <3>2. QED
      BY <1>2, <2>1, <2>5, <3>1
  <2>7. SoundSnapshots(snapshots, stream) /\ backend \in {"none", "memory", "eventstream"}
    BY DEF AggregateInv
  <2>8. SoundSnapshots(snapshots', stream)
    <3>1. CASE snapshots' = snapshots
      BY <2>7, <3>1
    <3>2. CASE backend # "none" /\ snapshots' \in WriteSnapshot(Snapped(a))
      <4>1. backend \in {"memory", "eventstream"}
        BY <2>7, <3>2
      <4>2. QED
        BY <2>5, <2>6, <2>7, <3>2, <4>1, WrittenSound
    <3>3. QED
      BY <2>2, <3>1, <3>2
  <2>9. QED
    BY <2>2, <2>4, <2>8 DEF AggregateInv
<1>4. CASE ~Applies(agg[c])
  <2>1. /\ Copies(c, agg[c], Ready(TRUE))
        /\ UNCHANGED <<backend, stream, inflight, snapshots, cache, given>>
    BY <1>4 DEF ApplySaved
  <2>2. Ready(TRUE) \in Doing /\ Ready(TRUE).doubt /\ Ready(TRUE).pc = "ready" /\ ~Ready(TRUE).load
    BY Stops
  <2>3. SoundQueue(agg[c], Ready(TRUE), stream, inflight, given)
    BY <1>1, Shape DEF SoundQueue
  <2>4. SoundClient(agg[c], Ready(TRUE), stream, inflight, given)
    BY <1>2, <2>2, <2>3 DEF SoundClient
  <2>5. QED
    BY <1>2, <2>1, <2>2, <2>4, CopyStep
<1>5. QED
  BY <1>3, <1>4

-----------------------------------------------------------------------------
(* The invariant, and the properties it carries.                            *)

LEMMA InitInv ==
  ASSUME Init
  PROVE  AggregateInv
<1>1. /\ <<>> \in Seq(Nat) /\ <<>> \in Seq(Snapshot) /\ Len(<<>>) = 0
  BY EmptySeq
<1>2. NewAggregate \in Copy /\ Folds(NewAggregate, <<>>) /\ Queued(NewAggregate.unapplied, <<>>)
      /\ NewAggregate.unsaved = <<>> /\ NewAggregate.unapplied = <<>>
  BY <1>1, NewAggregateSound
<1>3. \A a : Sober(a, Idle)
  BY Stops
<1>4. \A s : ~Share(<<>>, s) /\ ~Share(s, <<>>)
  BY <1>1 DEF Share
<1>5. SoundStream(stream, inflight, given)
  BY <1>1 DEF Init, SoundStream, Unique, Among
<1>6. SoundSnapshots(snapshots, stream)
  BY <1>1 DEF Init, SoundSnapshots
<1>7. SoundSnapshot(cache, stream)
  BY <1>1 DEF Init, NoEntry, SoundSnapshot, Snapshot, Folds
<1>8. agg \in [Client -> Copy] /\ op \in [Client -> Doing]
  BY <1>2, <1>3 DEF Init, Sober
<1>9. \A c \in Client : agg[c] = NewAggregate /\ op[c] = Idle
  BY DEF Init
<1>10. SoundClient(NewAggregate, Idle, stream, inflight, given)
  <2>1. stream = <<>> /\ inflight = {}
    BY DEF Init
  <2>2. SoundQueue(NewAggregate, Idle, stream, inflight, given)
    BY <1>1, <1>2, <1>4, <2>1 DEF SoundQueue, Unique, Among
  <2>3. QED
    BY <1>2, <1>3, <2>1, <2>2 DEF SoundClient, Sober
<1>11. Exclusive
  BY <1>2, <1>4, <1>9 DEF Exclusive
<1>12. QED
  BY <1>5, <1>6, <1>7, <1>8, <1>9, <1>10, <1>11 DEF AggregateInv, Init

LEMMA NextInv ==
  ASSUME AggregateInv, [Next]_vars
  PROVE  AggregateInv'
<1>1. ASSUME NEW c \in Client, Create(c) PROVE AggregateInv'
  BY <1>1, CreateInv
<1>2. ASSUME NEW c \in Client, Load(c) PROVE AggregateInv'
  BY <1>2, LoadInv
<1>3. ASSUME NEW c \in Client, AppendEvent(c) PROVE AggregateInv'
  BY <1>3, AppendEventInv
<1>4. ASSUME NEW c \in Client, DiscardUnsavedEvents(c) PROVE AggregateInv'
  BY <1>4, DiscardInv
<1>5. ASSUME NEW c \in Client, NEW v \in 1 .. MaxEvents, LoadVersion(c, v) PROVE AggregateInv'
  BY <1>5, StackBounds, LoadVersionInv
<1>6. ASSUME NEW c \in Client, NEW target \in 0 .. MaxEvents, Hydrate(c, target) PROVE AggregateInv'
  BY <1>6, StackBounds, HydrateInv
<1>7. ASSUME NEW c \in Client, ReadSnapshot(c) PROVE AggregateInv'
  BY <1>7, ReadSnapshotInv
<1>8. ASSUME NEW c \in Client, ReadStream(c) PROVE AggregateInv'
  BY <1>8, ReadStreamInv
<1>9. ASSUME NEW c \in Client, Put(c) PROVE AggregateInv'
  BY <1>9, PutInv
<1>10. ASSUME NEW c \in Client, NEW skipApply \in BOOLEAN, SaveAppended(c, skipApply) PROVE AggregateInv'
  BY <1>10, SaveAppendedInv
<1>11. ASSUME NEW c \in Client, SaveNothing(c) PROVE AggregateInv'
  BY <1>11, SaveNothingInv
<1>12. ASSUME NEW c \in Client, SaveUnconfirmed(c) PROVE AggregateInv'
  BY <1>12, SaveUnconfirmedInv
<1>13. ASSUME NEW c \in Client, SaveUnknown(c) PROVE AggregateInv'
  BY <1>13, SaveUnknownInv
<1>14. ASSUME NEW c \in Client, ApplySaved(c) PROVE AggregateInv'
  BY <1>14, ApplySavedInv
<1>15. ASSUME NEW c \in Client, Applied(c) PROVE AggregateInv'
  BY <1>15, AppliedInv
<1>16. CASE UNCHANGED vars
  BY <1>16 DEF vars, AggregateInv, Exclusive
<1>17. QED
  BY <1>1, <1>2, <1>3, <1>4, <1>5, <1>6, <1>7, <1>8, <1>9, <1>10, <1>11, <1>12, <1>13, <1>14,
     <1>15, <1>16, LandLateInv DEF Next

\* The argument for all that follows: whatever the stores' clients do, copies, cache
\* entries and snapshots fold a prefix of the stream, and an event that could be
\* recorded twice is held at one expected version only.
THEOREM AggregateInvariance == Spec => []AggregateInv
<1>1. Init => AggregateInv
  BY InitInv
<1>2. AggregateInv /\ [Next]_vars => AggregateInv'
  BY NextInv
<1>3. QED
  BY <1>1, <1>2, PTL DEF Spec

\* Every copy, the cache entry and every snapshot is the fold of exactly the first
\* version events of the stream (event_sourced_store.go, snapshotting_store.go,
\* cached_store.go).
THEOREM AggregateFoldsMatch == Spec => []FoldsMatch
<1>1. ASSUME NEW s \in Seq(Nat), NEW x, x.version \in Nat, x.state \in Seq(Nat), Folds(x, s)
      PROVE  x.state = SubSeq(s, 1, x.version)
  <2> DEFINE n == x.version
  <2>1. n \in Nat /\ n = Len(x.state) /\ n <= Len(s) /\ Len(s) \in Nat
    BY <1>1, LenProperties DEF Folds
  <2>2. \A i \in 1 .. n : s[i] \in Nat /\ x.state[i] = s[i]
    <3>1. \A i \in 1 .. n : i \in 1 .. Len(s)
      BY <2>1
    <3>2. QED
      BY <1>1, <3>1, ElementOfSeq DEF Folds
  <2>3. /\ SubSeq(s, 1, n) \in Seq(Nat)
        /\ Len(SubSeq(s, 1, n)) = n
        /\ \A i \in 1 .. n : SubSeq(s, 1, n)[i] = s[i]
    <3>1. /\ SubSeq(s, 1, n) \in Seq(Nat)
          /\ Len(SubSeq(s, 1, n)) = IF 1 <= n THEN n - 1 + 1 ELSE 0
          /\ \A i \in 1 .. n - 1 + 1 : SubSeq(s, 1, n)[i] = s[1 + i - 1]
      <4>1. n \in Int /\ \A i \in 1 .. n : s[i] \in Nat
        BY <2>1, <2>2
      <4> HIDE DEF n
      <4>2. QED
        BY <4>1, SubSeqProperties
    <3> HIDE DEF n
    <3>2. QED
      BY <2>1, <3>1
  <2>4. QED
    BY <1>1, <2>1, <2>2, <2>3, SeqEqual
<1>2. AggregateInv => FoldsMatch
  <2> SUFFICES ASSUME AggregateInv PROVE FoldsMatch
    OBVIOUS
  <2>1. stream \in Seq(Nat)
    BY DEF AggregateInv, SoundStream
  <2>2. ASSUME NEW c \in Client
        PROVE  agg[c].state = SubSeq(stream, 1, agg[c].version)
    BY <1>1, <2>1, Shape DEF Copy, SoundClient
  <2>3. cache.state = SubSeq(stream, 1, cache.version)
    BY <1>1, <2>1 DEF AggregateInv, SoundSnapshot, Snapshot
  <2>4. ASSUME NEW i \in 1 .. Len(snapshots)
        PROVE  snapshots[i].state = SubSeq(stream, 1, snapshots[i].version)
    <3>1. snapshots[i] \in Snapshot /\ Folds(snapshots[i], stream)
      BY ElementOfSeq DEF AggregateInv, SoundSnapshots
    <3>2. QED
      BY <1>1, <2>1, <3>1 DEF Snapshot
  <2>5. QED
    BY <2>2, <2>3, <2>4 DEF FoldsMatch
<1>3. QED
  BY <1>2, AggregateInvariance, PTL

\* No event is recorded twice, although a save may be retried whose append landed
\* unseen, or lands late (event_sourced_store.go, ErrEventsAppended).
THEOREM AggregateEventsOnce == Spec => []EventsOnce
<1>1. AggregateInv => EventsOnce
  <2> SUFFICES ASSUME AggregateInv PROVE EventsOnce
    OBVIOUS
  <2> DEFINE n == Len(stream)
  <2>1. /\ n \in Nat /\ DOMAIN stream = 1 .. n /\ stream \in [1 .. n -> Nat] /\ Unique(stream)
    BY LenProperties DEF AggregateInv, SoundStream
  <2>2. stream \in Surjection(1 .. n, Range(stream)) /\ stream \in Injection(1 .. n, Range(stream))
    <3>1. Range(stream) = {stream[i] : i \in 1 .. n}
      BY <2>1 DEF Range
    <3>2. stream \in [1 .. n -> Range(stream)]
      BY <2>1, <3>1
    <3>3. \A i, j \in 1 .. n : stream[i] = stream[j] => i = j
      BY <2>1 DEF Unique
    <3>4. \A e \in Range(stream) : \E i \in 1 .. n : stream[i] = e
      BY <3>1
    <3> HIDE DEF n
    <3>5. QED
      BY <3>2, <3>3, <3>4 DEF Injection, Surjection, IsInjective
  <2>3. IsFiniteSet(1 .. n) /\ Cardinality(1 .. n) = n
    <3> HIDE DEF n
    <3>1. IsFiniteSet(1 .. n) /\ Cardinality(1 .. n) = IF 1 > n THEN 0 ELSE n - 1 + 1
      BY <2>1, FS_Interval
    <3>2. QED
      BY <2>1, <3>1
  <2>4. Cardinality(Range(stream)) = Cardinality(1 .. n)
    BY <2>2, <2>3, FS_Surjection
  <2>5. QED
    BY <2>3, <2>4 DEF EventsOnce
<1>2. QED
  BY <1>1, AggregateInvariance, PTL

\* Without doubt a client's queued events are neither recorded nor on their way
\* (event_sourced_store.go, what Save's errors vouch for).
THEOREM AggregateQueuedIsUnsaved == Spec => []QueuedIsUnsaved
<1>1. AggregateInv => QueuedIsUnsaved
  <2> SUFFICES ASSUME AggregateInv, NEW c \in Client, ~op[c].doubt
               PROVE  /\ Range(agg[c].unsaved) \cap Range(stream) = {}
                      /\ \A append \in inflight :
                           Range(agg[c].unsaved) \cap Range(append.events) # {} => append.version < Tip
    BY DEF QueuedIsUnsaved
  <2>1. ASSUME NEW s \in Seq(Nat), NEW t \in Seq(Nat), ~Share(s, t)
        PROVE  Range(s) \cap Range(t) = {}
    <3>1. Range(s) = {s[i] : i \in 1 .. Len(s)} /\ Range(t) = {t[i] : i \in 1 .. Len(t)}
      BY LenProperties DEF Range
    <3>2. QED
      BY <2>1, <3>1 DEF Share
  <2>2. agg[c].unsaved \in Seq(Nat) /\ stream \in Seq(Nat) /\ \A l \in inflight : l.events \in Seq(Nat)
    BY Shape DEF AggregateInv, SoundStream, Copy, Lost
  <2>3. ~Share(agg[c].unsaved, stream) /\ \A l \in inflight : ~Share(agg[c].unsaved, l.events)
    BY Shape DEF SoundQueue
  <2>4. QED
    BY <2>1, <2>2, <2>3
<1>2. QED
  BY <1>1, AggregateInvariance, PTL

-----------------------------------------------------------------------------
(* What a load returns.                                                     *)

LoadExact(c) ==
  /\ op[c].load /\ op[c].pc \in {"snapshot", "stream"}
  /\ op'[c].pc \in {"filling", "ready"}
  => agg'[c].version = IF op[c].target = 0 THEN Tip ELSE Min({op[c].target, Tip})

LEMMA CopiesShape ==
  ASSUME AggregateInv, NEW c \in Client, NEW a, NEW o, Copies(c, a, o)
  PROVE  /\ agg'[c] = a /\ op'[c] = o
         /\ \A d \in Client \ {c} : agg'[d] = agg[d] /\ op'[d] = op[d]
BY DEF AggregateInv, Copies

LEMMA SnapshotExact ==
  ASSUME AggregateInv, NEW c \in Client, op[c].load, ReadSnapshot(c)
  PROVE  LoadExact(c)
<1> DEFINE toRead == [op[c] EXCEPT !.pc = "stream"]
<1>1. /\ op[c] \in Doing /\ agg[c] \in Copy /\ op[c].target \in Nat /\ Tip \in Nat
  BY Shape DEF Doing
<1>2. toRead.pc = "stream"
  BY <1>1 DEF Doing
<1> HIDE DEF toRead
<1>3. CASE Copies(c, agg[c], toRead)
  <2>1. op'[c].pc = "stream"
    BY <1>2, <1>3, CopiesShape
  <2>2. QED
    BY <2>1 DEF LoadExact
<1>4. ASSUME NEW i \in Newest(op[c].target),
             Copies(c, AtVersion(agg[c], snapshots[i].version, snapshots[i].state),
                    IF snapshots[i].version = op[c].target THEN Ready(FALSE)
                    ELSE toRead)
      PROVE  LoadExact(c)
  <2>1. /\ i \in 1 .. Len(snapshots) /\ snapshots \in Seq(Snapshot)
        /\ Folds(snapshots[i], stream) /\ snapshots[i].version > 0
    BY DEF Newest, AggregateInv, SoundSnapshots
  <2>2. snapshots[i] \in Snapshot
    BY <2>1, ElementOfSeq
  <2>3. /\ snapshots[i].version \in Nat /\ snapshots[i].state \in Seq(Nat)
        /\ snapshots[i].version <= Tip
    BY <2>1, <2>2 DEF Snapshot, Folds, Tip
  <2>4. /\ agg'[c] = AtVersion(agg[c], snapshots[i].version, snapshots[i].state)
        /\ op'[c] = IF snapshots[i].version = op[c].target THEN Ready(FALSE)
                    ELSE toRead
    <3> DEFINE a == AtVersion(agg[c], snapshots[i].version, snapshots[i].state)
               o == IF snapshots[i].version = op[c].target THEN Ready(FALSE) ELSE toRead
    <3>1. Copies(c, a, o)
      BY <1>4
    <3> HIDE DEF a, o
    <3>2. agg'[c] = a /\ op'[c] = o
      BY <3>1, CopiesShape
    <3>3. QED
      BY <3>2 DEF a, o
  <2>5. agg'[c].version = snapshots[i].version
    <3>1. AtVersion(agg[c], snapshots[i].version, snapshots[i].state).version = snapshots[i].version
      BY <1>1, <2>3, AtVersionWritten
    <3>2. QED
      BY <2>4, <3>1
  <2>6. CASE snapshots[i].version = op[c].target
    <3>1. op[c].target # 0 /\ op[c].target <= Tip
      BY <2>1, <2>3, <2>6
    <3>2. Min({op[c].target, Tip}) = op[c].target
      BY <1>1, <3>1, SmallerOfTwo
    <3>3. QED
      BY <2>5, <2>6, <3>1, <3>2 DEF LoadExact
  <2>7. CASE snapshots[i].version # op[c].target
    <3>1. op'[c].pc = "stream"
      BY <1>2, <2>4, <2>7
    <3>2. QED
      BY <3>1 DEF LoadExact
  <2>8. QED
    BY <2>6, <2>7
<1>5. QED
  BY <1>3, <1>4 DEF ReadSnapshot, toRead

LEMMA StreamExact ==
  ASSUME AggregateInv, NEW c \in Client, op[c].load, ReadStream(c)
  PROVE  LoadExact(c)
<1> DEFINE target == op[c].target
           read   == ToRead(agg[c], target)
           fed    == Fed(agg[c], read)
<1>1. ~op[c].doubt
  BY NotReady DEF ReadStream, Has
<1>2. /\ agg[c] \in Copy /\ target \in Nat /\ Tip \in Nat /\ stream \in Seq(Nat)
      /\ Folds(agg[c], stream) /\ Queued(agg[c].unapplied, stream)
      /\ agg[c].unapplied = <<>>
      /\ agg[c].version \in Nat /\ agg[c].version <= Tip
  BY <1>1, Shape, Working DEF Doing, Sober
<1>3. /\ Part(read, agg[c].version, stream)
      /\ target = 0 => Len(read) = Tip - agg[c].version
      /\ target >= agg[c].version /\ target # 0 =>
           Len(read) = Min({target, Tip}) - agg[c].version
  BY <1>2, Reading
<1>4. PICK n \in 0 .. Len(read), broken \in BOOLEAN :
        LET f     == Fed(agg[c], SubSeq(read, 1, n))
            fails == \/ broken \/ f.failed
                     \/ Tip = 0 /\ agg[c].version = 0
                     \/ target # 0 /\ agg[c].version > target
        IN  /\ broken \/ n = Len(read)
            /\ fails => Copies(c, NewAggregate, Idle)
            /\ ~fails => \E o : Copies(c, f.agg, o)
  BY DEF ReadStream
<1> HIDE DEF read, target
<1>5. SubSeq(read, 1, Len(read)) = read /\ Len(read) \in Nat
  BY <1>3, SubSeqFull, LenProperties DEF Part
<1>6. ~fed.failed /\ fed.agg.version = agg[c].version + Len(read)
  <2>1. read \in Seq(Numbers) /\ Queued(read, stream)
        /\ \A i \in 1 .. Len(read) : read[i].version = agg[c].version + i
    BY <1>3 DEF Part
  <2>2. QED
    BY <1>2, <2>1, FedSound
<1>7. CASE Copies(c, NewAggregate, Idle)
  <2>1. op'[c].pc = "idle"
    BY <1>7, CopiesShape DEF Idle
  <2>2. QED
    BY <2>1 DEF LoadExact
<1>8. CASE ~Copies(c, NewAggregate, Idle)
  <2>1. n = Len(read) /\ (target # 0 => ~(agg[c].version > target)) /\ \E o : Copies(c, fed.agg, o)
    BY <1>4, <1>5, <1>8
  <2>2. agg'[c].version = agg[c].version + Len(read)
    BY <1>6, <2>1, CopiesShape
  <2>3. CASE target = 0
    <3>1. agg'[c].version = Tip
      BY <1>2, <1>3, <2>2, <2>3
    <3>2. QED
      BY <2>3, <3>1 DEF LoadExact, target
  <2>4. CASE target # 0
    <3>1. target \in Int /\ Tip \in Int
      BY <1>2
    <3>2. Min({target, Tip}) \in Int
      BY ONLY <3>1, SmallerOfTwo
    <3>3. target >= agg[c].version
      BY <1>2, <2>1, <2>4
    <3>4. Len(read) = Min({target, Tip}) - agg[c].version
      BY <1>3, <2>4, <3>3
    <3>5. agg'[c].version = Min({target, Tip})
      BY <1>2, <2>2, <3>2, <3>4
    <3>6. QED
      BY <2>4, <3>5 DEF LoadExact, target
  <2>5. QED
    BY <2>3, <2>4
<1>9. QED
  BY <1>7, <1>8

\* Only these two steps take a load further.
LEMMA LoadSteps ==
  ASSUME AggregateInv, NEW c \in Client, op[c].load, op[c].pc \in {"snapshot", "stream"},
         op'[c] # op[c], [Next]_vars
  PROVE  ReadSnapshot(c) \/ ReadStream(c)
<1>1. ~UNCHANGED vars /\ ~LandLate
  BY DEF vars, LandLate
<1>2. PICK d \in Client :
        \/ Create(d) \/ Load(d) \/ AppendEvent(d) \/ DiscardUnsavedEvents(d)
        \/ \E v \in 1 .. MaxEvents : LoadVersion(d, v)
        \/ \E target \in 0 .. MaxEvents : Hydrate(d, target)
        \/ ReadSnapshot(d) \/ ReadStream(d) \/ Put(d)
        \/ \E skipApply \in BOOLEAN : SaveAppended(d, skipApply)
        \/ SaveNothing(d) \/ SaveUnconfirmed(d) \/ SaveUnknown(d)
        \/ ApplySaved(d) \/ Applied(d)
  BY <1>1 DEF Next
<1>3. \E a, o : Copies(d, a, o)
  BY <1>2 DEF Create, Load, AppendEvent, DiscardUnsavedEvents, LoadVersion, Hydrate, ReadSnapshot,
              ReadStream, Put, SaveAppended, SaveNothing, SaveUnconfirmed, SaveUnknown,
              ApplySaved, Applied
<1>4. d = c
  BY <1>3, CopiesShape
<1>5. QED
  BY <1>2, <1>4
     DEF Create, Load, AppendEvent, DiscardUnsavedEvents, LoadVersion, Hydrate, Has, Put,
         SaveAppended, SaveNothing, SaveUnconfirmed, SaveUnknown, ApplySaved, Applied

\* A load past the cache ends at the version asked for, or the stream's latest, from
\* whatever snapshot it started (event_sourced_store.go Load, snapshotting_store.go
\* Hydrate).
THEOREM AggregateLoadsExact == Spec => LoadsExact
<1>1. ASSUME AggregateInv, [Next]_vars, NEW c \in Client
      PROVE  LoadExact(c)
  <2>1. CASE op[c].load /\ op[c].pc \in {"snapshot", "stream"} /\ op'[c] # op[c]
    BY <1>1, <2>1, LoadSteps, SnapshotExact, StreamExact
  <2>2. CASE ~(op[c].load /\ op[c].pc \in {"snapshot", "stream"} /\ op'[c] # op[c])
    BY <2>2 DEF LoadExact
  <2>3. QED
    BY <2>1, <2>2
<1>2. AggregateInv /\ [Next]_vars =>
        [\A c \in Client :
           /\ op[c].load /\ op[c].pc \in {"snapshot", "stream"}
           /\ op'[c].pc \in {"filling", "ready"}
           => agg'[c].version = IF op[c].target = 0 THEN Tip ELSE Min({op[c].target, Tip})]_vars
  BY <1>1 DEF LoadExact
<1>3. QED
  BY <1>2, AggregateInvariance, PTL DEF Spec, LoadsExact
=============================================================================
