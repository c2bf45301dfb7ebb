----------------------- MODULE MemoryEventStoreProofs -----------------------
(***************************************************************************)
(* For any streams, readers and bounds: a commit is recorded in its stream *)
(* and in the global log alike, a yielded position is a checkpoint, and    *)
(* the store implements EventLog although its slices share arrays.         *)
(*                                                                         *)
(* The argument is about memory.  Every slice fits the array behind it     *)
(* (Shape); the log and each stream own theirs, and an iterator that       *)
(* shares one with a stream ends no later than the stream does (Apart).    *)
(* So each write, into spare capacity, into a copy or by compaction, falls *)
(* on cells that no other slice reaches, and what the slices hold can be   *)
(* reasoned about as sequences (Recorded, Reading).                        *)
(***************************************************************************)
EXTENDS MemoryEventStore, SequenceTheorems, FiniteSetTheorems, WellFoundedInduction, TLAPS

-----------------------------------------------------------------------------
(* The inductive invariant.                                                 *)

Event    == [position : Nat, stream : Stream, version : Nat]
Memory   == [Array -> Seq(Event)]
Slice    == [array : {0} \cup Array, off : Nat, len : Nat]
Entries  == [first : Nat, events : Slice]
Iterator == [open : BOOLEAN, global : BOOLEAN, events : Slice, cursor : Int,
             reverse : BOOLEAN, limit : Nat, retrieved : Nat]

End(slice) == slice.off + slice.len

\* The array holds what the slice reaches; a slice without an array is empty.
Fits(heap, slice) ==
  /\ slice \in Slice
  /\ slice.array = 0 => End(slice) = 0
  /\ slice.array # 0 => End(slice) <= Len(heap[slice.array])

ShapeIn(heap, st, log, it) ==
  /\ heap \in Memory
  /\ st \in [Stream -> Entries]
  /\ it \in [Reader -> Iterator]
  /\ Fits(heap, log) /\ log.array # 0 /\ log.off = 0
  /\ \A s \in Stream : Fits(heap, st[s].events)
  /\ \A r \in Reader : Fits(heap, it[r].events)

\* An append writes behind the end of its slice, so that a slice keeps its cells if
\* it has another array or does not reach further.
Clear(z, slice) == z.array = slice.array => End(z) <= End(slice)

ApartIn(st, log, it) ==
  /\ \A s \in Stream : st[s].events.array # log.array
  /\ \A r \in Reader : it[r].events.array # log.array
  /\ \A s \in Stream : \A t \in Stream \ {s} :
       st[s].events.array # 0 => st[s].events.array # st[t].events.array
  /\ \A s \in Stream, r \in Reader : Clear(it[r].events, st[s].events)

\* A stream's events carry its versions without a gap.
Versioned(cells, s, first) ==
  \A i \in 1 .. Len(cells) : cells[i].stream = s /\ cells[i].version = first + i - 1

\* The global log is in position order, and no position is above the counter.
Ordered(cells) ==
  \A i, j \in 1 .. Len(cells) : i < j => cells[i].position < cells[j].position
Below(cells, n) == \A i \in 1 .. Len(cells) : cells[i].position \in 1 .. n

EventsOf(cells) == {cells[i] : i \in 1 .. Len(cells)}

\* The log and the streams hold the same events.
Same(log, st) ==
  \A s \in Stream : {e \in EventsOf(log) : e.stream = s} = EventsOf(st[s])

RecordedIn(n, st, held, log) ==
  /\ n \in 0 .. MaxPosition
  /\ \A s \in Stream :
       /\ st[s] # NoEntry => st[s].first >= 1 /\ TipOf(st[s]) <= n
       /\ Versioned(held[s], s, st[s].first)
  /\ Ordered(log) /\ Below(log, n)
  /\ Same(log, held)

\* A forward cursor is never before the first cell, a reverse one never behind the
\* last, and a limit is never exceeded.
SoundIterator(it) ==
  /\ ~it.open => it = NoIterator
  /\ ~it.reverse => it.cursor >= 0
  /\ it.reverse => it.cursor < it.events.len
  /\ it.limit > 0 => it.retrieved <= it.limit

ReadingIn(n, it, read) ==
  \A r \in Reader : SoundIterator(it[r]) /\ Below(read[r], n)

\* What the streams and the iterators hold.
Held == [s \in Stream |-> Cells(streams[s].events)]
Read == [r \in Reader |-> Cells(iter[r].events)]

Shape    == ShapeIn(array, streams, globalLog, iter)
Apart    == ApartIn(streams, globalLog, iter)
Recorded == RecordedIn(counter, streams, Held, Cells(globalLog)) /\ yielded \in 0 .. counter
Reading  == ReadingIn(counter, iter, Read)

StoreInv == Shape /\ Apart /\ Recorded /\ Reading

-----------------------------------------------------------------------------
(* Induction over the naturals, stated with sets.                           *)

\* A set of naturals has a least element.
LEMMA LeastNatural ==
  ASSUME NEW T \in SUBSET Nat, T # {}
  PROVE  \E n \in T : \A m \in T : n <= m
<1> DEFINE R == {ss \in Nat \X Nat : ss[1] < ss[2]}
<1>1. IsWellFoundedOn(R, Nat)
  BY NatLessThanWellFounded DEF OpToRel
<1>2. \E n \in T : \A m \in T : ~(<<m, n>> \in R)
  <2> HIDE DEF R
  <2>1. QED
    BY <1>1, WFMin
<1>3. PICK n \in T : \A m \in T : ~(<<m, n>> \in R)
  BY <1>2
<1>4. \A m \in T : ~(m < n)
  BY <1>3
<1>5. QED
  BY <1>4

\* What holds of 0, and of i when it holds of i - 1, holds of the whole interval.
LEMMA IntervalInduction ==
  ASSUME NEW n \in Nat, NEW S, 0 \in S, \A i \in 1 .. n : i - 1 \in S => i \in S
  PROVE  \A i \in 0 .. n : i \in S
<1> DEFINE T == (0 .. n) \ S
<1>1. SUFFICES ASSUME T # {} PROVE FALSE
  OBVIOUS
<1>2. PICK m \in T : \A k \in T : m <= k
  <2>1. T \in SUBSET Nat
    OBVIOUS
  <2> HIDE DEF T
  <2>2. QED
    BY <1>1, <2>1, LeastNatural
<1>3. m \in 1 .. n /\ m - 1 \notin T
  BY <1>2
<1>4. QED
  BY <1>3

\* A bounded set of naturals has a greatest element, and Max is it.
LEMMA MaxOfBounded ==
  ASSUME NEW S \in SUBSET Nat, S # {}, NEW n \in Nat, \A x \in S : x <= n
  PROVE  Max(S) \in S /\ \A x \in S : x <= Max(S)
<1> DEFINE T == {k \in 0 .. n : n - k \in S}
<1>1. T \in SUBSET Nat /\ T # {}
  <2>1. PICK x \in S : TRUE
    OBVIOUS
  <2>2. n - x \in 0 .. n /\ n - (n - x) = x
    BY <2>1
  <2>3. QED
    BY <2>1, <2>2
<1>2. PICK k \in T : \A m \in T : k <= m
  <2> HIDE DEF T
  <2>1. QED
    BY <1>1, LeastNatural
<1>3. ASSUME NEW x \in S PROVE x <= n - k
  <2>1. n - x \in 0 .. n /\ n - (n - x) = x
    OBVIOUS
  <2>2. k <= n - x
    BY <1>2, <2>1
  <2>3. QED
    BY <1>2, <2>2
<1>4. \E m \in S : \A x \in S : m >= x
  BY <1>2, <1>3
<1>5. Max(S) \in S /\ \A x \in S : Max(S) >= x
  BY <1>4 DEF Max
<1>6. QED
  BY <1>5

-----------------------------------------------------------------------------
(* Slices.                                                                  *)

LEMMA ArrayType == Array \subseteq Nat /\ 0 \notin Array
BY DEF Array

\* What lies behind the first m and up to the n-th of a sequence.
LEMMA CutProperties ==
  ASSUME NEW S, NEW h \in Seq(S), NEW m \in Nat, NEW k \in Nat, m + k <= Len(h)
  PROVE  /\ SubSeq(h, m + 1, m + k) \in Seq(S)
         /\ Len(SubSeq(h, m + 1, m + k)) = k
         /\ \A i \in 1 .. k : SubSeq(h, m + 1, m + k)[i] = h[m + i]
<1>1. Len(h) \in Nat
  BY LenProperties
<1>2. \A i \in m + 1 .. m + k : h[i] \in S
  BY <1>1, ElementOfSeq
<1>3. m + 1 \in Int /\ m + k \in Int
  OBVIOUS
<1>4. /\ SubSeq(h, m + 1, m + k) \in Seq(S)
      /\ Len(SubSeq(h, m + 1, m + k)) = IF m + 1 <= m + k THEN m + k - (m + 1) + 1 ELSE 0
      /\ \A i \in 1 .. m + k - (m + 1) + 1 : SubSeq(h, m + 1, m + k)[i] = h[m + 1 + i - 1]
  BY <1>2, <1>3, SubSeqProperties
<1>5. m + k - (m + 1) + 1 = k /\ \A i \in 1 .. k : m + 1 + i - 1 = m + i
  OBVIOUS
<1>6. QED
  BY <1>4, <1>5

\* What a slice holds.
LEMMA SliceCells ==
  ASSUME NEW heap \in Memory, NEW z, Fits(heap, z)
  PROVE  /\ CellsIn(heap, z) \in Seq(Event)
         /\ Len(CellsIn(heap, z)) = z.len
         /\ \A i \in 1 .. z.len : CellsIn(heap, z)[i] = heap[z.array][z.off + i]
<1>1. z.off \in Nat /\ z.len \in Nat /\ (z.array = 0 \/ z.array \in Array)
  BY DEF Fits, Slice
<1>2. CASE z.array = 0
  <2>1. z.len = 0
    BY <1>1, <1>2 DEF Fits, End
  <2>2. CellsIn(heap, z) = <<>>
    BY <1>2 DEF CellsIn
  <2>3. QED
    BY <2>1, <2>2, EmptySeq
<1>3. CASE z.array \in Array
  <2> DEFINE h == heap[z.array]
  <2>1. h \in Seq(Event) /\ Len(h) \in Nat /\ z.off + z.len <= Len(h)
    BY <1>3, ArrayType, LenProperties DEF Memory, Fits, End
  <2>2. CellsIn(heap, z) = SubSeq(h, z.off + 1, z.off + z.len)
    BY <1>3, ArrayType DEF CellsIn
  <2> HIDE DEF h
  <2>3. heap[z.array] = h
    BY DEF h
  <2> HIDE DEF h
  <2>4. /\ SubSeq(h, z.off + 1, z.off + z.len) \in Seq(Event)
        /\ Len(SubSeq(h, z.off + 1, z.off + z.len)) = z.len
        /\ \A i \in 1 .. z.len : SubSeq(h, z.off + 1, z.off + z.len)[i] = h[z.off + i]
    <3>1. h \in Seq(Event) /\ z.off \in Nat /\ z.len \in Nat /\ z.off + z.len <= Len(h)
      BY <1>1, <2>1
    <3>2. QED
      BY <3>1, CutProperties
  <2>5. QED
    BY <2>2, <2>3, <2>4
<1>4. QED
  BY <1>1, <1>2, <1>3

\* A slice keeps its cells in memory that agrees on them.
LEMMA CellsKept ==
  ASSUME NEW heap \in Memory, NEW next \in Memory, NEW z, Fits(heap, z),
         z.array # 0 =>
           /\ End(z) <= Len(next[z.array])
           /\ \A i \in 1 .. End(z) : next[z.array][i] = heap[z.array][i]
  PROVE  Fits(next, z) /\ CellsIn(next, z) = CellsIn(heap, z)
<1>1. z.off \in Nat /\ z.len \in Nat /\ End(z) = z.off + z.len
  BY DEF Fits, Slice, End
<1>2. Fits(next, z)
  BY DEF Fits
<1>3. \A i \in 1 .. z.len : CellsIn(next, z)[i] = CellsIn(heap, z)[i]
  <2> TAKE i \in 1 .. z.len
  <2>1. z.array # 0
    BY <1>1 DEF Fits
  <2>2. z.off + i \in 1 .. End(z)
    BY <1>1
  <2>3. next[z.array][z.off + i] = heap[z.array][z.off + i]
    BY <2>1, <2>2
  <2>4. QED
    BY <1>2, <2>3, SliceCells
<1>4. /\ CellsIn(next, z) \in Seq(Event) /\ CellsIn(heap, z) \in Seq(Event)
      /\ Len(CellsIn(next, z)) = z.len /\ Len(CellsIn(heap, z)) = z.len
  BY <1>2, SliceCells
<1>5. CellsIn(next, z) = CellsIn(heap, z)
  BY <1>3, <1>4, SeqEqual
<1>6. QED
  BY <1>2, <1>5

\* Collecting the cells that no slice reaches is invisible.
LEMMA BecomesKeeps ==
  ASSUME NEW heap \in Memory, NEW st, NEW log, NEW it,
         Fits(heap, log), \A s \in Stream : Fits(heap, st[s].events),
         \A r \in Reader : Fits(heap, it[r].events),
         Becomes(heap, st, log, it)
  PROVE  /\ streams' = st /\ globalLog' = log /\ iter' = it
         /\ array' \in Memory
         /\ Fits(array', log) /\ CellsIn(array', log) = CellsIn(heap, log)
         /\ \A s \in Stream : /\ Fits(array', st[s].events)
                              /\ CellsIn(array', st[s].events) = CellsIn(heap, st[s].events)
         /\ \A r \in Reader : /\ Fits(array', it[r].events)
                              /\ CellsIn(array', it[r].events) = CellsIn(heap, it[r].events)
<1> DEFINE slices == {log} \cup {st[s].events : s \in Stream} \cup {it[r].events : r \in Reader}
           Ends(a) == {0} \cup {z.off + z.len : z \in {z \in slices : z.array = a}}
           Reach(a) == Max(Ends(a))
<1>1. /\ streams' = st /\ globalLog' = log /\ iter' = it
      /\ array' = [a \in Array |-> SubSeq(heap[a], 1, Reach(a))]
  BY DEF Becomes
<1>2. \A z \in slices : Fits(heap, z)
  OBVIOUS
<1> HIDE DEF slices
<1>3. ASSUME NEW a \in Array
      PROVE  /\ Reach(a) \in 0 .. Len(heap[a])
             /\ \A z \in slices : z.array = a => End(z) <= Reach(a)
  <2>1. Len(heap[a]) \in Nat
    BY LenProperties DEF Memory
  <2>2. a # 0
    BY ArrayType
  <2>3. \A z \in slices : z.array = a => z.off + z.len \in 0 .. Len(heap[a])
    BY <1>2, <2>1, <2>2 DEF Fits, Slice, End
  <2>4. Ends(a) \in SUBSET Nat /\ Ends(a) # {} /\ \A x \in Ends(a) : x <= Len(heap[a])
    BY <2>1, <2>3
  <2>5. \A z \in slices : z.array = a => End(z) \in Ends(a)
    BY DEF End
  <2> HIDE DEF Ends
  <2>6. Reach(a) \in Ends(a) /\ \A x \in Ends(a) : x <= Reach(a)
    BY <2>1, <2>4, MaxOfBounded
  <2>7. QED
    BY <2>1, <2>4, <2>5, <2>6
<1> HIDE DEF Reach
<1>4. ASSUME NEW a \in Array
      PROVE  /\ array'[a] \in Seq(Event) /\ Len(array'[a]) = Reach(a)
             /\ \A i \in 1 .. Reach(a) : array'[a][i] = heap[a][i]
  <2>1. heap[a] \in Seq(Event) /\ Len(heap[a]) \in Nat
    BY LenProperties DEF Memory
  <2>2. \A i \in 1 .. Reach(a) : heap[a][i] \in Event
    BY <1>3, <2>1, ElementOfSeq
  <2>3. Reach(a) \in Int /\ 1 \in Int
    BY <1>3, <2>1
  <2>4. /\ SubSeq(heap[a], 1, Reach(a)) \in Seq(Event)
        /\ Len(SubSeq(heap[a], 1, Reach(a))) = IF 1 <= Reach(a) THEN Reach(a) - 1 + 1 ELSE 0
        /\ \A i \in 1 .. Reach(a) - 1 + 1 : SubSeq(heap[a], 1, Reach(a))[i] = heap[a][1 + i - 1]
    BY <2>2, <2>3, SubSeqProperties
  <2>5. array'[a] = SubSeq(heap[a], 1, Reach(a))
    BY <1>1
  <2>6. QED
    BY <1>3, <2>1, <2>4, <2>5
<1>5. array' \in Memory
  BY <1>1, <1>4 DEF Memory
<1>6. ASSUME NEW z \in slices
      PROVE  Fits(array', z) /\ CellsIn(array', z) = CellsIn(heap, z)
  <2>1. CASE z.array = 0
    BY <1>2, <1>5, <2>1, CellsKept
  <2>2. CASE z.array # 0
    <3>1. z.array \in Array
      BY <1>2, <2>2 DEF Fits, Slice
    <3>2. End(z) \in Nat /\ End(z) <= Reach(z.array) /\ Reach(z.array) \in Nat
      <4>1. Len(heap[z.array]) \in Nat
        BY <3>1, LenProperties DEF Memory
      <4>2. QED
        BY <1>2, <1>3, <3>1, <4>1 DEF Fits, Slice, End
    <3>3. \A i \in 1 .. End(z) : i \in 1 .. Reach(z.array)
      BY <3>2
    <3>4. /\ End(z) <= Len(array'[z.array])
          /\ \A i \in 1 .. End(z) : array'[z.array][i] = heap[z.array][i]
      BY <1>4, <3>1, <3>2, <3>3
    <3>5. QED
      BY <1>2, <1>5, <3>4, CellsKept
  <2>3. QED
    BY <2>1, <2>2
<1>7. log \in slices /\ (\A s \in Stream : st[s].events \in slices) /\ (\A r \in Reader : it[r].events \in slices)
  BY DEF slices
<1>8. QED
  BY <1>1, <1>5, <1>6, <1>7

-----------------------------------------------------------------------------
(* What the operations do to memory.                                        *)

\* Only array a differs.
OnlyAt(a, heap, next) == \A b \in Array \ {a} : next[b] = heap[b]

LEMMA MemoryUpdate ==
  ASSUME NEW heap \in Memory, NEW a \in Array, NEW c \in Seq(Event)
  PROVE  /\ [heap EXCEPT ![a] = c] \in Memory
         /\ [heap EXCEPT ![a] = c][a] = c
         /\ OnlyAt(a, heap, [heap EXCEPT ![a] = c])
BY DEF Memory, OnlyAt

LEMMA SameArrays ==
  ASSUME NEW heap \in Memory, NEW next \in Memory, NEW a,
         OnlyAt(a, heap, next),
         NEW z, Fits(heap, z), z.array # a
  PROVE  Fits(next, z) /\ CellsIn(next, z) = CellsIn(heap, z)
<1>1. z.array # 0 => next[z.array] = heap[z.array] /\ End(z) <= Len(heap[z.array])
  BY DEF Fits, Slice, OnlyAt
<1>2. QED
  BY <1>1, CellsKept

\* What a sequence and another behind it hold.
Joins(p, s, t) ==
  /\ Len(s) \in Nat /\ Len(t) \in Nat /\ Len(p) = Len(s) + Len(t)
  /\ \A i \in 1 .. Len(s) : p[i] = s[i]
  /\ \A i \in 1 .. Len(t) : p[Len(s) + i] = t[i]

LEMMA Joined ==
  ASSUME NEW S, NEW s \in Seq(S), NEW t \in Seq(S)
  PROVE  s \o t \in Seq(S) /\ Joins(s \o t, s, t)
<1>1. Len(s) \in Nat /\ Len(t) \in Nat
  BY LenProperties
<1>2. /\ s \o t \in Seq(S)
      /\ Len(s \o t) = Len(s) + Len(t)
      /\ \A i \in 1 .. Len(s) + Len(t) : (s \o t)[i] = IF i <= Len(s) THEN s[i] ELSE t[i - Len(s)]
  BY ConcatProperties
<1>3. ASSUME NEW i \in 1 .. Len(s)
      PROVE  (s \o t)[i] = s[i]
  <2>1. i \in 1 .. Len(s) + Len(t) /\ i <= Len(s)
    BY <1>1
  <2>2. QED
    BY <1>2, <2>1
<1>4. ASSUME NEW i \in 1 .. Len(t)
      PROVE  (s \o t)[Len(s) + i] = t[i]
  <2>1. Len(s) + i \in 1 .. Len(s) + Len(t) /\ ~(Len(s) + i <= Len(s)) /\ Len(s) + i - Len(s) = i
    BY <1>1
  <2>2. QED
    BY <1>2, <2>1
<1>5. QED
  BY <1>1, <1>2, <1>3, <1>4 DEF Joins

Agree(c, d, n, m) ==
  /\ Len(c) = n + m /\ Len(d) = n + m
  /\ \A i \in 1 .. n : c[i] = d[i]
  /\ \A i \in 1 .. m : c[n + i] = d[n + i]

LEMMA EqualParts ==
  ASSUME NEW S, NEW c \in Seq(S), NEW d \in Seq(S), NEW n \in Nat, NEW m \in Nat, Agree(c, d, n, m)
  PROVE  c = d
<1> USE DEF Agree
<1>1. ASSUME NEW i \in 1 .. n + m
      PROVE  c[i] = d[i]
  <2>1. CASE i \in 1 .. n
    BY <2>1
  <2>2. CASE i \notin 1 .. n
    <3>1. i - n \in 1 .. m /\ n + (i - n) = i
      BY <2>2
    <3>2. c[n + (i - n)] = d[n + (i - n)]
      BY <3>1
    <3>3. QED
      BY <3>1, <3>2
  <2>3. QED
    BY <2>1, <2>2
<1>2. QED
  BY <1>1, SeqEqual

\* The cells of an array in which events were written behind the first n.
Splices(p, cells, n, events) ==
  /\ Len(p) \in Nat /\ n + Len(events) <= Len(p)
  /\ \A i \in 1 .. n : p[i] = cells[i]
  /\ \A i \in 1 .. Len(events) : p[n + i] = events[i]

LEMMA Spliced ==
  ASSUME NEW S, NEW cells \in Seq(S), NEW n \in Nat, n <= Len(cells), NEW events \in Seq(S)
  PROVE  \E p \in Seq(S) :
           /\ p = SubSeq(cells, 1, n) \o events \o SubSeq(cells, n + Len(events) + 1, Len(cells))
           /\ Splices(p, cells, n, events)
<1>1. Len(cells) \in Nat /\ Len(events) \in Nat
  BY LenProperties
<1>2. PICK front : front = SubSeq(cells, 1, n)
  OBVIOUS
<1>3. PICK rest : rest = SubSeq(cells, n + Len(events) + 1, Len(cells))
  OBVIOUS
<1>4. front \in Seq(S) /\ Len(front) = n /\ \A i \in 1 .. n : front[i] = cells[i]
  <2>1. 0 + 1 = 1 /\ 0 + n = n /\ \A i \in 1 .. n : 0 + i = i
    OBVIOUS
  <2>2. /\ SubSeq(cells, 0 + 1, 0 + n) \in Seq(S)
        /\ Len(SubSeq(cells, 0 + 1, 0 + n)) = n
        /\ \A i \in 1 .. n : SubSeq(cells, 0 + 1, 0 + n)[i] = cells[0 + i]
    BY <1>1, CutProperties
  <2>3. QED
    BY <1>2, <2>1, <2>2
<1>5. rest \in Seq(S) /\ Len(rest) \in Nat
  <2>1. \A i \in n + Len(events) + 1 .. Len(cells) : cells[i] \in S
    BY <1>1, ElementOfSeq
  <2>2. n + Len(events) + 1 \in Int /\ Len(cells) \in Int
    BY <1>1
  <2>3. rest \in Seq(S)
    BY <1>3, <2>1, <2>2, SubSeqProperties
  <2>4. QED
    BY <2>3, LenProperties
<1>6. PICK both : both = front \o events
  OBVIOUS
<1>7. PICK p : p = both \o rest
  OBVIOUS
<1>8. /\ both \in Seq(S) /\ Len(both) = n + Len(events)
      /\ \A i \in 1 .. n : both[i] = front[i]
      /\ \A i \in 1 .. Len(events) : both[n + i] = events[i]
  <2>1. front \in Seq(S)
    BY <1>4
  <2>2. both \in Seq(S) /\ Joins(both, front, events)
    BY <1>6, <2>1, Joined
  <2>3. QED
    BY <1>4, <2>2 DEF Joins
<1>9. /\ p \in Seq(S) /\ Len(p) = n + Len(events) + Len(rest)
      /\ \A i \in 1 .. n + Len(events) : p[i] = both[i]
  <2>1. both \in Seq(S) /\ rest \in Seq(S)
    BY <1>5, <1>8
  <2>2. p \in Seq(S) /\ Joins(p, both, rest)
    BY <1>7, <2>1, Joined
  <2>3. QED
    BY <1>8, <2>2 DEF Joins
<1>10. (\A i \in 1 .. n : i \in 1 .. n + Len(events)) /\ \A i \in 1 .. Len(events) : n + i \in 1 .. n + Len(events)
  BY <1>1
<1>11. ASSUME NEW i \in 1 .. n
       PROVE  p[i] = cells[i]
  BY <1>4, <1>8, <1>9, <1>10
<1>12. ASSUME NEW i \in 1 .. Len(events)
       PROVE  p[n + i] = events[i]
  BY <1>8, <1>9, <1>10
<1>13. Len(p) \in Nat /\ n + Len(events) <= Len(p)
  <2>1. Len(p) = n + Len(events) + Len(rest)
    BY <1>9
  <2>2. QED
    BY <1>1, <1>5, <2>1
<1>14. p \in Seq(S) /\ Splices(p, cells, n, events)
  BY <1>9, <1>11, <1>12, <1>13 DEF Splices
<1>15. p = SubSeq(cells, 1, n) \o events \o SubSeq(cells, n + Len(events) + 1, Len(cells))
  <2>1. both = SubSeq(cells, 1, n) \o events
    BY <1>2, <1>6
  <2>2. QED
    BY <1>3, <1>7, <2>1
<1>16. QED
  BY <1>14, <1>15

\* append writes behind the slice or into array a, whichever it takes.
LEMMA GrownKeeps ==
  ASSUME NEW heap \in Memory, NEW slice, Fits(heap, slice), NEW events \in Seq(Event),
         NEW a \in Array, NEW g \in Grown(heap, slice, events, a)
  PROVE  /\ g.heap \in Memory
         /\ Fits(g.heap, g.slice)
         /\ CellsIn(g.heap, g.slice) = CellsIn(heap, slice) \o events
         /\ g.slice.len = slice.len + Len(events)
         /\ \/ g.slice.array = a /\ g.slice.off = 0
            \/ slice.array # 0 /\ g.slice.array = slice.array /\ g.slice.off = slice.off
         /\ \A z : Fits(heap, z) /\ z.array # a /\ Clear(z, slice) =>
              Fits(g.heap, z) /\ CellsIn(g.heap, z) = CellsIn(heap, z)
<1> DEFINE end     == slice.off + slice.len
           cells   == heap[slice.array]
           copy    == CellsIn(heap, slice) \o events
           inPlace == SubSeq(cells, 1, end) \o events
                        \o SubSeq(cells, end + Len(events) + 1, Len(cells))
<1>1. /\ slice.off \in Nat /\ slice.len \in Nat /\ Len(events) \in Nat
      /\ slice.array \in Array \/ slice.array = 0
  BY LenProperties DEF Fits, Slice
<1>2. /\ copy \in Seq(Event)
      /\ Len(copy) = slice.len + Len(events)
      /\ \A i \in 1 .. slice.len : copy[i] = CellsIn(heap, slice)[i]
      /\ \A i \in 1 .. Len(events) : copy[slice.len + i] = events[i]
  <2>1. CellsIn(heap, slice) \in Seq(Event) /\ Len(CellsIn(heap, slice)) = slice.len
    BY SliceCells
  <2>2. copy \in Seq(Event) /\ Joins(copy, CellsIn(heap, slice), events)
    BY <2>1, Joined
  <2>3. QED
    BY <2>1, <2>2 DEF Joins
<1> HIDE DEF copy
<1>3. CASE g = [heap |-> [heap EXCEPT ![a] = copy],
                slice |-> [array |-> a, off |-> 0, len |-> slice.len + Len(events)]]
  <2>1. g.heap = [heap EXCEPT ![a] = copy] /\ g.slice = [array |-> a, off |-> 0, len |-> slice.len + Len(events)]
    BY <1>3
  <2>2. g.heap \in Memory /\ g.heap[a] = copy /\ OnlyAt(a, heap, g.heap)
    BY <1>2, <2>1, MemoryUpdate
  <2>3. g.slice.array = a /\ g.slice.off = 0 /\ g.slice.len = slice.len + Len(events) /\ g.slice \in Slice
    BY <1>1, <2>1 DEF Slice
  <2>4. Fits(g.heap, g.slice)
    BY <1>1, <1>2, <2>2, <2>3, ArrayType DEF Fits, End
  <2>5. CellsIn(g.heap, g.slice) = copy
    <3>1. /\ CellsIn(g.heap, g.slice) \in Seq(Event)
          /\ Len(CellsIn(g.heap, g.slice)) = slice.len + Len(events)
          /\ \A i \in 1 .. slice.len + Len(events) : CellsIn(g.heap, g.slice)[i] = g.heap[g.slice.array][0 + i]
      BY <2>2, <2>3, <2>4, SliceCells
    <3>2. \A i \in 1 .. slice.len + Len(events) : CellsIn(g.heap, g.slice)[i] = copy[i]
      BY <1>1, <2>2, <2>3, <3>1
    <3>3. QED
      BY <1>2, <3>1, <3>2, SeqEqual
  <2>6. ASSUME NEW z, Fits(heap, z), z.array # a
        PROVE  Fits(g.heap, z) /\ CellsIn(g.heap, z) = CellsIn(heap, z)
    BY <2>2, <2>6, SameArrays
  <2>7. QED
    BY <2>2, <2>3, <2>4, <2>5, <2>6 DEF copy
<1>4. CASE /\ slice.array # 0
           /\ g = [heap |-> [heap EXCEPT ![slice.array] = inPlace],
                   slice |-> [slice EXCEPT !.len = @ + Len(events)]]
  <2>1. /\ slice.array \in Array /\ cells \in Seq(Event) /\ Len(cells) \in Nat
        /\ end \in Nat /\ end <= Len(cells)
    BY <1>1, <1>4, LenProperties DEF Memory, Fits, End
  <2>2. slice \in Slice /\ End(slice) = end
    BY DEF Fits, End
  <2>3. g.heap = [heap EXCEPT ![slice.array] = inPlace] /\ g.slice = [slice EXCEPT !.len = @ + Len(events)]
    BY <1>4
  <2>4. cells = heap[slice.array]
    BY DEF cells
  <2> HIDE DEF cells, end
  <2>5. /\ inPlace \in Seq(Event) /\ Len(inPlace) \in Nat /\ end + Len(events) <= Len(inPlace)
        /\ \A i \in 1 .. end : inPlace[i] = cells[i]
        /\ \A i \in 1 .. Len(events) : inPlace[end + i] = events[i]
    <3>1. end \in Nat /\ end <= Len(cells) /\ cells \in Seq(Event)
      BY <2>1
    <3>2. inPlace \in Seq(Event) /\ Splices(inPlace, cells, end, events)
      BY <3>1, Spliced, Zenon
    <3> HIDE DEF inPlace
    <3>3. QED
      BY <3>2 DEF Splices
  <2> HIDE DEF inPlace
  <2>11. g.heap \in Memory /\ g.heap[slice.array] = inPlace /\ OnlyAt(slice.array, heap, g.heap)
    BY <2>1, <2>3, <2>5, MemoryUpdate
  <2>12. /\ g.slice.array = slice.array /\ g.slice.off = slice.off
         /\ g.slice.len = slice.len + Len(events) /\ g.slice \in Slice
    BY <1>1, <2>2, <2>3 DEF Slice
  <2>13. Fits(g.heap, g.slice)
    <3>1. End(g.slice) = end + Len(events)
      BY <1>1, <2>12 DEF End, end
    <3>2. QED
      BY <1>1, <1>4, <2>1, <2>5, <2>11, <2>12, <3>1 DEF Fits
  <2>14. CellsIn(g.heap, g.slice) = copy
    <3>1. /\ CellsIn(g.heap, g.slice) \in Seq(Event)
          /\ Len(CellsIn(g.heap, g.slice)) = slice.len + Len(events)
          /\ \A i \in 1 .. slice.len + Len(events) : CellsIn(g.heap, g.slice)[i] = inPlace[slice.off + i]
      BY <2>11, <2>12, <2>13, SliceCells
    <3>2. ASSUME NEW i \in 1 .. slice.len
          PROVE  CellsIn(g.heap, g.slice)[i] = copy[i]
      <4>1. i \in 1 .. slice.len + Len(events) /\ slice.off + i \in 1 .. end
        BY <1>1 DEF end
      <4>2. CellsIn(heap, slice)[i] = cells[slice.off + i]
        BY <2>4, SliceCells
      <4>3. copy[i] = CellsIn(heap, slice)[i] /\ inPlace[slice.off + i] = cells[slice.off + i]
        BY <1>2, <2>5, <4>1
      <4>4. QED
        BY <3>1, <4>1, <4>2, <4>3
    <3>3. ASSUME NEW i \in 1 .. Len(events)
          PROVE  CellsIn(g.heap, g.slice)[slice.len + i] = copy[slice.len + i]
      <4>1. slice.len + i \in 1 .. slice.len + Len(events) /\ slice.off + (slice.len + i) = end + i
        BY <1>1 DEF end
      <4>2. copy[slice.len + i] = events[i] /\ inPlace[end + i] = events[i]
        BY <1>2, <2>5
      <4>3. CellsIn(g.heap, g.slice)[slice.len + i] = inPlace[slice.off + (slice.len + i)]
        BY <3>1, <4>1
      <4>4. QED
        BY <4>1, <4>2, <4>3
    <3>4. CellsIn(g.heap, g.slice) \in Seq(Event) /\ copy \in Seq(Event)
      BY <1>2, <3>1
    <3>5. Agree(CellsIn(g.heap, g.slice), copy, slice.len, Len(events))
      BY <1>2, <3>1, <3>2, <3>3 DEF Agree
    <3>6. QED
      BY <1>1, <3>4, <3>5, EqualParts
  <2>15. ASSUME NEW z, Fits(heap, z), Clear(z, slice)
         PROVE  Fits(g.heap, z) /\ CellsIn(g.heap, z) = CellsIn(heap, z)
    <3>1. CASE z.array # slice.array
      BY <2>11, <2>15, <3>1, SameArrays
    <3>2. CASE z.array = slice.array
      <4>1. End(z) \in Nat /\ End(z) <= end
        BY <2>2, <2>15, <3>2 DEF Clear, Fits, Slice, End
      <4>2. /\ End(z) <= Len(g.heap[z.array])
            /\ \A i \in 1 .. End(z) : g.heap[z.array][i] = heap[z.array][i]
        <5>1. End(z) <= Len(inPlace)
          BY <1>1, <2>1, <2>5, <4>1
        <5>2. g.heap[z.array] = inPlace /\ heap[z.array] = cells
          BY <2>4, <2>11, <3>2
        <5>3. \A i \in 1 .. End(z) : i \in 1 .. end
          BY <2>1, <4>1
        <5>4. QED
          BY <2>5, <5>1, <5>2, <5>3
      <4>3. QED
        BY <2>11, <2>15, <4>2, CellsKept
    <3>3. QED
      BY <3>1, <3>2
  <2>16. QED
    BY <1>4, <2>11, <2>12, <2>13, <2>14, <2>15 DEF copy
<1>5. QED
  BY <1>3, <1>4 DEF Grown, copy

\* The first entry above a bound, found in a log that is in position order.
LEMMA StartProperties ==
  ASSUME Cells(globalLog) \in Seq(Event), Len(Cells(globalLog)) = globalLog.len,
         Ordered(Cells(globalLog)), NEW after \in Nat
  PROVE  /\ Start(after) \in 0 .. globalLog.len
         /\ \A i \in 1 .. globalLog.len :
              i <= Start(after) <=> Cells(globalLog)[i].position <= after
<1> DEFINE log == Cells(globalLog)
           n == globalLog.len
           start == Start(after)
           T == {i \in 1 .. n : log[i].position > after}
           Fit(k) == /\ k > 0 => log[k].position <= after
                     /\ k < n => log[k + 1].position > after
<1>1. n \in Nat /\ \A i \in 1 .. n : log[i] \in Event /\ log[i].position \in Nat
  <2>1. n \in Nat /\ \A i \in 1 .. n : log[i] \in Event
    BY LenProperties, ElementOfSeq
  <2>2. QED
    BY <2>1 DEF Event
<1>2. \A i, j \in 1 .. n : i < j => log[i].position < log[j].position
  BY DEF Ordered
<1>3. start = CHOOSE k \in 0 .. n : Fit(k)
  BY DEF Start
<1> HIDE DEF log, n, start
<1>4. \E k \in 0 .. n : Fit(k)
  <2>1. CASE T = {}
    <3>1. Fit(n)
      BY <1>1, <2>1
    <3>2. n \in 0 .. n
      BY <1>1
    <3>3. QED
      BY <3>1, <3>2
  <2>2. CASE T # {}
    <3>1. T \in SUBSET Nat
      BY <1>1
    <3>2. PICK m \in T : \A k \in T : m <= k
      <4> HIDE DEF T
      <4>1. QED
        BY <2>2, <3>1, LeastNatural
    <3>3. m \in 1 .. n /\ m - 1 \in 0 .. n /\ m - 1 + 1 = m /\ (m - 1 > 0 => m - 1 \in 1 .. n /\ m - 1 \notin T)
      BY <1>1, <3>2
    <3>4. Fit(m - 1)
      BY <1>1, <3>2, <3>3
    <3>5. QED
      BY <3>3, <3>4
  <2>3. QED
    BY <2>1, <2>2
<1>5. start \in 0 .. n /\ Fit(start)
  BY <1>3, <1>4
<1>6. ASSUME NEW i \in 1 .. n
      PROVE  i <= start <=> log[i].position <= after
  <2>1. CASE i <= start
    <3>1. start \in 1 .. n /\ log[start].position <= after /\ (i = start \/ i < start)
      BY <1>1, <1>5, <2>1
    <3>2. log[i].position <= after
      BY <1>1, <1>2, <3>1
    <3>3. QED
      BY <2>1, <3>2
  <2>2. CASE i > start
    <3>1. start + 1 \in 1 .. n /\ log[start + 1].position > after /\ (i = start + 1 \/ start + 1 < i)
      BY <1>1, <1>5, <2>2
    <3>2. log[i].position > after
      BY <1>1, <1>2, <3>1
    <3>3. QED
      BY <1>1, <1>5, <2>2, <3>2
  <2>3. QED
    BY <1>1, <1>5, <2>1, <2>2
<1>7. QED
  BY <1>5, <1>6 DEF log, n, start

\* The tail above a bound is the rest of the log.
LEMMA AboveProperties ==
  ASSUME Cells(globalLog) \in Seq(Event), Len(Cells(globalLog)) = globalLog.len,
         Ordered(Cells(globalLog)), NEW after \in Nat
  PROVE  /\ Above(after) \in Seq(Event)
         /\ Len(Above(after)) = globalLog.len - Start(after)
         /\ \A i \in 1 .. globalLog.len - Start(after) :
              Above(after)[i] = Cells(globalLog)[Start(after) + i]
<1> DEFINE log == Cells(globalLog)
           n == globalLog.len
           start == Start(after)
           k == n - start
<1>1. start \in 0 .. n /\ n \in Nat
  BY StartProperties, LenProperties
<1>2. Above(after) = SubSeq(log, start + 1, n)
  BY DEF Above
<1>3. log \in Seq(Event) /\ Len(log) = n
  OBVIOUS
<1> HIDE DEF log, n, start
<1>4. start \in Nat /\ k \in Nat /\ start + k = n
  BY <1>1
<1> HIDE DEF k
<1>5. start + k <= Len(log)
  BY <1>1, <1>3, <1>4
<1>6. /\ SubSeq(log, start + 1, start + k) \in Seq(Event)
      /\ Len(SubSeq(log, start + 1, start + k)) = k
      /\ \A i \in 1 .. k : SubSeq(log, start + 1, start + k)[i] = log[start + i]
  BY <1>3, <1>4, <1>5, CutProperties
<1>7. QED
  BY <1>2, <1>4, <1>6 DEF log, n, start, k

-----------------------------------------------------------------------------
(* dropFromGlobalLog.                                                       *)

\* The loop's steps.
LEMMA KeepingSteps ==
  ASSUME NEW h, Len(h) \in Nat, NEW s, NEW v
  PROVE  /\ Keeping(h, s, v)[0] = <<>>
         /\ \A i \in 1 .. Len(h) :
              Keeping(h, s, v)[i] = IF Dropped(h[i], s, v) THEN Keeping(h, s, v)[i - 1]
                                    ELSE Append(Keeping(h, s, v)[i - 1], h[i])
<1> DEFINE Step(f, i) == IF i = 0 THEN <<>>
                         ELSE IF Dropped(h[i], s, v) THEN f[i - 1]
                         ELSE Append(f[i - 1], h[i])
           Upto(n, f) == f = [i \in 0 .. n |-> Step(f, i)]
           S == {m \in 0 .. Len(h) : \E f : Upto(m, f)}
<1>1. 0 \in S
  <2>1. Upto(0, [i \in 0 .. 0 |-> <<>>])
    OBVIOUS
  <2> HIDE DEF Upto
  <2>2. QED
    BY <2>1
<1>2. ASSUME NEW m \in 1 .. Len(h), m - 1 \in S
      PROVE  m \in S
  <2>1. PICK f : Upto(m - 1, f)
    <3> HIDE DEF Upto
    <3>1. QED
      BY <1>2
  <2> DEFINE g == [i \in 0 .. m |-> IF i = m THEN Step(f, m) ELSE f[i]]
  <2>2. \A i \in 0 .. m - 1 : f[i] = Step(f, i)
    BY <2>1, Zenon
  <2>3. \A i \in 0 .. m : g[i] = Step(g, i)
    <3> TAKE i \in 0 .. m
    <3>1. CASE i = m
      <4>1. g[m] = Step(f, m) /\ g[m - 1] = f[m - 1] /\ m # 0
        OBVIOUS
      <4> HIDE DEF g
      <4>2. QED
        BY <3>1, <4>1
    <3>2. CASE i \in 0 .. m - 1
      <4>1. g[i] = f[i] /\ (i # 0 => g[i - 1] = f[i - 1])
        BY <3>2
      <4>2. f[i] = Step(f, i)
        BY <2>2, <3>2
      <4> HIDE DEF g
      <4>3. QED
        BY <4>1, <4>2
    <3>3. QED
      BY <3>1, <3>2
  <2>4. Upto(m, g)
    <3>1. g = [i \in 0 .. m |-> g[i]]
      OBVIOUS
    <3> HIDE DEF g, Step
    <3>2. QED
      BY <2>3, <3>1
  <2> HIDE DEF Upto, g
  <2>5. QED
    BY <2>4
<1>3. Len(h) \in S
  <2> HIDE DEF S
  <2>1. \A m \in 0 .. Len(h) : m \in S
    BY <1>1, <1>2, IntervalInduction
  <2>2. QED
    BY <2>1
<1>4. \E f : Upto(Len(h), f)
  BY <1>3
<1> DEFINE F == Keeping(h, s, v)
<1>5. F = CHOOSE f : Upto(Len(h), f)
  BY DEF Keeping
<1>6. Upto(Len(h), F)
  <2> HIDE DEF Upto, F
  <2>1. QED
    BY <1>4, <1>5
<1> HIDE DEF F
<1>7. \A i \in 0 .. Len(h) : F[i] = Step(F, i)
  <2> HIDE DEF Step
  <2>1. F = [i \in 0 .. Len(h) |-> Step(F, i)]
    BY <1>6
  <2>2. QED
    BY <2>1, Zenon
<1>8. 0 \in 0 .. Len(h) /\ \A i \in 1 .. Len(h) : i \in 0 .. Len(h) /\ i # 0
  OBVIOUS
<1>9. QED
  BY <1>7, <1>8 DEF F

\* It keeps the events that are not dropped, in their order.
KeptOf(k, h, i, s, v) ==
  /\ k \in Seq(Event) /\ Len(k) <= i
  /\ \A x \in 1 .. Len(k) : \E j \in 1 .. i : k[x] = h[j] /\ ~Dropped(h[j], s, v)
  /\ \A j \in 1 .. i : ~Dropped(h[j], s, v) => \E x \in 1 .. Len(k) : k[x] = h[j]
  /\ Ordered(k)

LEMMA KeptAppend ==
  ASSUME NEW h \in Seq(Event), Ordered(h), NEW s, NEW v, NEW i \in 1 .. Len(h),
         NEW k, KeptOf(k, h, i - 1, s, v), ~Dropped(h[i], s, v)
  PROVE  KeptOf(Append(k, h[i]), h, i, s, v)
<1> DEFINE m == Append(k, h[i])
<1>1. Len(h) \in Nat /\ h[i] \in Event /\ k \in Seq(Event) /\ Len(k) \in Nat /\ Len(k) <= i - 1
  BY LenProperties, ElementOfSeq DEF KeptOf
<1>2. /\ m \in Seq(Event) /\ Len(m) = Len(k) + 1
      /\ \A x \in 1 .. Len(k) : m[x] = k[x]
      /\ m[Len(k) + 1] = h[i]
  BY <1>1, AppendProperties
<1> HIDE DEF m
<1>3. ASSUME NEW x \in 1 .. Len(m)
      PROVE  \/ x \in 1 .. Len(k) /\ m[x] = k[x]
             \/ x = Len(k) + 1 /\ m[x] = h[i]
  BY <1>1, <1>2
<1>4. ASSUME NEW x \in 1 .. Len(k)
      PROVE  \E j \in 1 .. i - 1 : k[x] = h[j] /\ ~Dropped(h[j], s, v)
  BY DEF KeptOf
<1>5. ASSUME NEW x \in 1 .. Len(m)
      PROVE  \E j \in 1 .. i : m[x] = h[j] /\ ~Dropped(h[j], s, v)
  <2>1. i \in 1 .. i /\ 1 .. i - 1 \subseteq 1 .. i
    OBVIOUS
  <2>2. QED
    BY <1>3, <1>4, <2>1
<1>6. ASSUME NEW j \in 1 .. i, ~Dropped(h[j], s, v)
      PROVE  \E x \in 1 .. Len(m) : m[x] = h[j]
  <2>1. CASE j = i
    <3>1. Len(k) + 1 \in 1 .. Len(m)
      BY <1>1, <1>2
    <3>2. QED
      BY <1>2, <2>1, <3>1
  <2>2. CASE j \in 1 .. i - 1
    <3>1. PICK x \in 1 .. Len(k) : k[x] = h[j]
      BY <1>6, <2>2 DEF KeptOf
    <3>2. x \in 1 .. Len(m) /\ m[x] = k[x]
      BY <1>1, <1>2
    <3>3. QED
      BY <3>1, <3>2
  <2>3. QED
    BY <2>1, <2>2
<1>7. ASSUME NEW x \in 1 .. Len(m), NEW y \in 1 .. Len(m), x < y
      PROVE  m[x].position < m[y].position
  <2>1. x \in 1 .. Len(k) /\ m[x] = k[x]
    BY <1>1, <1>2, <1>7
  <2>2. CASE y \in 1 .. Len(k)
    <3>1. m[y] = k[y]
      BY <1>2, <2>2
    <3>2. QED
      BY <1>7, <2>1, <2>2, <3>1 DEF KeptOf, Ordered
  <2>3. CASE y = Len(k) + 1
    <3>1. PICK j \in 1 .. i - 1 : k[x] = h[j]
      BY <1>4, <2>1
    <3>2. j \in 1 .. Len(h) /\ j < i
      BY <1>1
    <3>3. h[j].position < h[i].position
      BY <3>2 DEF Ordered
    <3>4. QED
      BY <1>2, <2>1, <2>3, <3>1, <3>3
  <2>4. QED
    BY <1>3, <2>2, <2>3
<1>8. Len(m) <= i
  BY <1>1, <1>2
<1>9. QED
  BY <1>2, <1>5, <1>6, <1>7, <1>8 DEF KeptOf, Ordered, m

LEMMA Kept ==
  ASSUME NEW h \in Seq(Event), Ordered(h), NEW s, NEW v
  PROVE  KeptOf(Keeping(h, s, v)[Len(h)], h, Len(h), s, v)
<1> DEFINE K == Keeping(h, s, v)
           S == {i \in 0 .. Len(h) : KeptOf(K[i], h, i, s, v)}
<1>1. Len(h) \in Nat
  BY LenProperties
<1>2. /\ K[0] = <<>>
      /\ \A i \in 1 .. Len(h) : K[i] = IF Dropped(h[i], s, v) THEN K[i - 1] ELSE Append(K[i - 1], h[i])
  BY <1>1, KeepingSteps
<1> HIDE DEF K
<1>3. 0 \in S
  <2>1. <<>> \in Seq(Event) /\ Len(<<>>) = 0
    BY EmptySeq
  <2>2. KeptOf(<<>>, h, 0, s, v)
    BY <2>1 DEF KeptOf, Ordered
  <2>3. QED
    BY <1>1, <1>2, <2>2
<1>4. ASSUME NEW i \in 1 .. Len(h), i - 1 \in S
      PROVE  i \in S
  <2>1. KeptOf(K[i - 1], h, i - 1, s, v) /\ i \in 0 .. Len(h)
    BY <1>1, <1>4
  <2>2. CASE Dropped(h[i], s, v)
    <3>1. K[i] = K[i - 1]
      BY <1>2, <2>2
    <3>2. Len(K[i - 1]) \in Nat /\ Len(K[i - 1]) <= i
      BY <1>1, <2>1, LenProperties DEF KeptOf
    <3>3. \A j \in 1 .. i : j \in 1 .. i - 1 \/ j = i
      OBVIOUS
    <3>4. 1 .. i - 1 \subseteq 1 .. i
      OBVIOUS
    <3>5. KeptOf(K[i - 1], h, i, s, v)
      BY <2>1, <2>2, <3>2, <3>3, <3>4 DEF KeptOf
    <3>6. QED
      BY <2>1, <3>1, <3>5
  <2>3. CASE ~Dropped(h[i], s, v)
    <3>1. K[i] = Append(K[i - 1], h[i])
      BY <1>2, <2>3
    <3>2. KeptOf(Append(K[i - 1], h[i]), h, i, s, v)
      BY <2>1, <2>3, KeptAppend
    <3>3. QED
      BY <2>1, <3>1, <3>2
  <2>4. QED
    BY <2>2, <2>3
<1>5. Len(h) \in S
  <2> HIDE DEF S
  <2>1. \A i \in 0 .. Len(h) : i \in S
    BY <1>1, <1>3, <1>4, IntervalInduction
  <2>2. QED
    BY <1>1, <2>1
<1>6. QED
  BY <1>5 DEF K

\* The compaction writes to the log's array only.
LEMMA CompactedKeeps ==
  ASSUME array \in Memory, Fits(array, globalLog), globalLog.array # 0, globalLog.off = 0,
         Ordered(Cells(globalLog)), NEW s, NEW v
  PROVE  LET c == Compacted(s, v)
         IN  /\ c.heap \in Memory
             /\ OnlyAt(globalLog.array, array, c.heap)
             /\ Fits(c.heap, c.slice)
             /\ KeptOf(CellsIn(c.heap, c.slice), Cells(globalLog), globalLog.len, s, v)
             /\ c.slice.array = globalLog.array /\ c.slice.off = 0
<1> DEFINE log  == Cells(globalLog)
           kept == Keeping(log, s, v)[globalLog.len]
           a    == globalLog.array
           old  == array[a]
           rest == SubSeq(old, Len(kept) + 1, Len(old))
           c    == Compacted(s, v)
<1>1. globalLog \in Slice /\ a \in Array /\ globalLog.len \in Nat
  BY DEF Fits, Slice
<1>2. log \in Seq(Event) /\ Len(log) = globalLog.len
  BY SliceCells DEF Cells
<1>3. KeptOf(kept, log, globalLog.len, s, v)
  BY <1>2, Kept
<1>4. kept \in Seq(Event) /\ Len(kept) \in Nat /\ Len(kept) <= globalLog.len
  BY <1>3, LenProperties DEF KeptOf
<1>5. c = [heap |-> [array EXCEPT ![a] = kept \o rest], slice |-> [globalLog EXCEPT !.len = Len(kept)]]
  BY DEF Compacted
<1> HIDE DEF kept, c, log
<1>6. old \in Seq(Event) /\ Len(old) \in Nat /\ globalLog.len <= Len(old)
  BY <1>1, LenProperties DEF Memory, Fits, End
<1> HIDE DEF old
<1>7. rest \in Seq(Event) /\ Len(rest) \in Nat
  <2>1. \A i \in Len(kept) + 1 .. Len(old) : old[i] \in Event
    BY <1>4, <1>6, ElementOfSeq
  <2>2. Len(kept) + 1 \in Int /\ Len(old) \in Int
    BY <1>4, <1>6
  <2>3. rest \in Seq(Event)
    BY <2>1, <2>2, SubSeqProperties
  <2>4. QED
    BY <2>3, LenProperties
<1> HIDE DEF rest
<1> DEFINE all == kept \o rest
<1>8. all \in Seq(Event) /\ Joins(all, kept, rest)
  BY <1>4, <1>7, Joined
<1> HIDE DEF all
<1>9. c.heap = [array EXCEPT ![a] = all] /\ c.slice = [globalLog EXCEPT !.len = Len(kept)]
  BY <1>5 DEF all
<1>10. c.heap \in Memory /\ c.heap[a] = all /\ OnlyAt(a, array, c.heap)
  BY <1>1, <1>8, <1>9, MemoryUpdate
<1>11. c.slice \in Slice /\ c.slice.array = a /\ c.slice.off = 0 /\ c.slice.len = Len(kept)
  BY <1>1, <1>4, <1>9 DEF Slice
<1>12. Fits(c.heap, c.slice)
  <2>1. End(c.slice) = Len(kept) /\ Len(kept) <= Len(all)
    BY <1>4, <1>7, <1>8, <1>11 DEF End, Joins
  <2>2. QED
    BY <1>1, <1>10, <1>11, <2>1 DEF Fits
<1>13. CellsIn(c.heap, c.slice) = kept
  <2>1. /\ CellsIn(c.heap, c.slice) \in Seq(Event)
        /\ Len(CellsIn(c.heap, c.slice)) = Len(kept)
        /\ \A i \in 1 .. Len(kept) : CellsIn(c.heap, c.slice)[i] = all[0 + i]
    BY <1>10, <1>11, <1>12, SliceCells
  <2>2. \A i \in 1 .. Len(kept) : CellsIn(c.heap, c.slice)[i] = kept[i]
    <3> TAKE i \in 1 .. Len(kept)
    <3>1. 0 + i = i /\ all[i] = kept[i]
      BY <1>4, <1>8 DEF Joins
    <3>2. QED
      BY <2>1, <3>1
  <2>3. QED
    BY <1>4, <2>1, <2>2, SeqEqual
<1>14. QED
  BY <1>3, <1>10, <1>11, <1>12, <1>13 DEF c, log

-----------------------------------------------------------------------------
(* An unused array.                                                         *)

\* There are more arrays than slices.
LEMMA FreshArray ==
  /\ Fresh \in Array
  /\ \A s \in Stream : streams[s].events.array # Fresh
  /\ globalLog.array # Fresh
  /\ \A r \in Reader : iter[r].events.array # Fresh
<1> DEFINE f == [s \in Stream |-> streams[s].events.array]
           g == [r \in Reader |-> iter[r].events.array]
           S == {f[s] : s \in Stream}
           R == {g[r] : r \in Reader}
           used == (S \cup R) \cup {globalLog.array}
<1>1. IsFiniteSet(S) /\ Cardinality(S) <= Cardinality(Stream) /\ Cardinality(S) \in Nat /\ Cardinality(Stream) \in Nat
  <2>1. f \in Surjection(Stream, S)
    BY DEF Surjection
  <2> HIDE DEF f, S
  <2>2. QED
    BY <2>1, FiniteClients, FS_Surjection, FS_CardinalityType
<1>2. IsFiniteSet(R) /\ Cardinality(R) <= Cardinality(Reader) /\ Cardinality(R) \in Nat /\ Cardinality(Reader) \in Nat
  <2>1. g \in Surjection(Reader, R)
    BY DEF Surjection
  <2> HIDE DEF g, R
  <2>2. QED
    BY <2>1, FiniteClients, FS_Surjection, FS_CardinalityType
<1> HIDE DEF S, R
<1>3. IsFiniteSet(S \cup R) /\ Cardinality(S \cup R) <= Cardinality(S) + Cardinality(R) /\ Cardinality(S \cup R) \in Nat
  <2>1. IsFiniteSet(S \cap R) /\ Cardinality(S \cap R) \in Nat
    BY <1>1, FS_Intersection, FS_CardinalityType
  <2>2. IsFiniteSet(S \cup R) /\ Cardinality(S \cup R) = Cardinality(S) + Cardinality(R) - Cardinality(S \cap R)
    BY <1>1, <1>2, FS_Union
  <2>3. QED
    BY <1>1, <1>2, <2>1, <2>2, FS_CardinalityType
<1>4. IsFiniteSet(used) /\ Cardinality(used) <= Cardinality(S \cup R) + 1 /\ Cardinality(used) \in Nat
  <2>1. /\ IsFiniteSet(used)
        /\ Cardinality(used) = IF globalLog.array \in S \cup R THEN Cardinality(S \cup R) ELSE Cardinality(S \cup R) + 1
    BY <1>3, FS_AddElement
  <2> HIDE DEF used
  <2>2. QED
    BY <1>3, <2>1
<1> HIDE DEF used
<1>5. Cardinality(Array) = Cardinality(Stream) + Cardinality(Reader) + 2
  <2> DEFINE n == Cardinality(Stream) + Cardinality(Reader) + 2
  <2>1. n \in Nat /\ ~(1 > n) /\ n - 1 + 1 = n
    BY <1>1, <1>2
  <2>2. Array = 1 .. n
    BY DEF Array
  <2> HIDE DEF n
  <2>3. Cardinality(1 .. n) = IF 1 > n THEN 0 ELSE n - 1 + 1
    BY <2>1, FS_Interval
  <2>4. QED
    BY <2>1, <2>2, <2>3 DEF n
<1>6. ~(Array \subseteq used)
  <2>1. SUFFICES ASSUME Array \subseteq used PROVE FALSE
    OBVIOUS
  <2>2. Cardinality(Array) <= Cardinality(used)
    BY <1>4, <2>1, FS_Subset
  <2>3. QED
    BY <1>1, <1>2, <1>3, <1>4, <1>5, <2>2
<1>7. \E a \in Array : /\ \A s \in Stream : streams[s].events.array # a
                       /\ globalLog.array # a
                       /\ \A r \in Reader : iter[r].events.array # a
  <2>1. PICK a \in Array : a \notin used
    BY <1>6
  <2>2. QED
    BY <2>1 DEF used, S, R, f, g
<1>8. QED
  BY <1>7 DEF Fresh

-----------------------------------------------------------------------------
(* The steps, seen as changes of what the slices hold.                      *)

\* A change of memory that leaves every slice in place is seen through Becomes.
LEMMA MemoryStep ==
  ASSUME NEW heap, NEW st, NEW log, NEW it,
         ShapeIn(heap, st, log, it), ApartIn(st, log, it), Becomes(heap, st, log, it)
  PROVE  /\ Shape' /\ Apart'
         /\ streams' = st /\ globalLog' = log /\ iter' = it
         /\ Cells(globalLog)' = CellsIn(heap, log)
         /\ Held' = [s \in Stream |-> CellsIn(heap, st[s].events)]
         /\ Read' = [r \in Reader |-> CellsIn(heap, it[r].events)]
<1>1. /\ streams' = st /\ globalLog' = log /\ iter' = it
      /\ array' \in Memory
      /\ Fits(array', log) /\ CellsIn(array', log) = CellsIn(heap, log)
      /\ \A s \in Stream : /\ Fits(array', st[s].events)
                           /\ CellsIn(array', st[s].events) = CellsIn(heap, st[s].events)
      /\ \A r \in Reader : /\ Fits(array', it[r].events)
                           /\ CellsIn(array', it[r].events) = CellsIn(heap, it[r].events)
  BY BecomesKeeps DEF ShapeIn
<1>2. Shape'
  BY <1>1 DEF Shape, ShapeIn
<1>3. Apart'
  BY <1>1 DEF Apart
<1>4. Cells(globalLog)' = CellsIn(heap, log)
  BY <1>1 DEF Cells
<1>5. Held' = [s \in Stream |-> CellsIn(heap, st[s].events)]
  BY <1>1 DEF Held, Cells
<1>6. Read' = [r \in Reader |-> CellsIn(heap, it[r].events)]
  BY <1>1 DEF Read, Cells
<1>7. QED
  BY <1>1, <1>2, <1>3, <1>4, <1>5, <1>6

\* Types that the steps rely on.
LEMMA StreamFacts ==
  ASSUME Shape, Recorded, NEW s \in Stream
  PROVE  /\ Entry(s) \in Entries /\ Entry(s).first >= 1
         /\ Entry(s).events = streams[s].events
         /\ TipOf(Entry(s)) \in 0 .. counter
         /\ TipOf(Entry(s)) = Entry(s).first + streams[s].events.len - 1
         /\ Written(streams[s]) => Entry(s) = streams[s]
         /\ Held[s] \in Seq(Event) /\ Len(Held[s]) = streams[s].events.len
         /\ Versioned(Held[s], s, Entry(s).first)
<1>1. streams[s] \in Entries /\ Fits(array, streams[s].events) /\ array \in Memory /\ counter \in Nat
  BY StoreBounds DEF Shape, ShapeIn, Recorded, RecordedIn
<1>2. Held[s] \in Seq(Event) /\ Len(Held[s]) = streams[s].events.len
  BY <1>1, SliceCells DEF Held, Cells
<1>3. streams[s].first \in Nat /\ streams[s].events \in Slice /\ streams[s].events.len \in Nat
  BY <1>1 DEF Entries, Slice
<1>4. CASE streams[s] = NoEntry
  <2>1. Entry(s) = NewEntry /\ streams[s].events = Nil
    BY <1>4 DEF Entry, NoEntry
  <2>2. NewEntry \in Entries /\ NewEntry.first = 1 /\ NewEntry.events = Nil /\ Nil.len = 0
    BY DEF NewEntry, Entries, Nil, Slice
  <2>3. TipOf(NewEntry) = 0
    BY DEF TipOf, NewEntry, Nil
  <2>4. Versioned(Held[s], s, 1)
    BY <1>2, <2>1, <2>2 DEF Versioned
  <2>5. ~Written(streams[s])
    BY <1>4 DEF Written
  <2>6. QED
    BY <1>1, <1>2, <2>1, <2>2, <2>3, <2>4, <2>5
<1>5. CASE streams[s] # NoEntry
  <2>1. Entry(s) = streams[s]
    BY <1>5 DEF Entry
  <2>2. streams[s].first >= 1 /\ TipOf(streams[s]) <= counter /\ Versioned(Held[s], s, streams[s].first)
    BY <1>5 DEF Recorded, RecordedIn
  <2>3. TipOf(streams[s]) = streams[s].first + streams[s].events.len - 1
    BY DEF TipOf
  <2>4. TipOf(streams[s]) \in 0 .. counter
    BY <1>1, <1>3, <2>2, <2>3
  <2>5. QED
    BY <1>1, <1>2, <2>1, <2>2, <2>3, <2>4
<1>6. QED
  BY <1>4, <1>5

LEMMA LogFacts ==
  ASSUME Shape, Recorded
  PROVE  /\ globalLog.array \in Array /\ globalLog.len \in Nat
         /\ Cells(globalLog) \in Seq(Event) /\ Len(Cells(globalLog)) = globalLog.len
         /\ counter \in Nat /\ counter <= MaxPosition /\ yielded \in 0 .. counter
<1>1. Fits(array, globalLog) /\ array \in Memory /\ globalLog.array # 0
  BY DEF Shape, ShapeIn
<1>2. Cells(globalLog) \in Seq(Event) /\ Len(Cells(globalLog)) = globalLog.len
  BY <1>1, SliceCells DEF Cells
<1>3. globalLog.array \in Array /\ globalLog.len \in Nat
  BY <1>1 DEF Fits, Slice
<1>4. QED
  BY <1>2, <1>3, StoreBounds DEF Recorded, RecordedIn

LEMMA ReaderFacts ==
  ASSUME Shape, Reading, NEW r \in Reader
  PROVE  /\ iter[r] \in Iterator /\ SoundIterator(iter[r])
         /\ Read[r] = Cells(iter[r].events)
         /\ Read[r] \in Seq(Event) /\ Len(Read[r]) = iter[r].events.len
         /\ iter[r].events.len \in Nat
         /\ Below(Read[r], counter)
<1>1. Fits(array, iter[r].events) /\ array \in Memory /\ iter[r] \in Iterator
  BY DEF Shape, ShapeIn
<1>2. Cells(iter[r].events) \in Seq(Event) /\ Len(Cells(iter[r].events)) = iter[r].events.len
  BY <1>1, SliceCells DEF Cells
<1>3. iter[r].events.len \in Nat
  BY <1>1 DEF Fits, Slice
<1>4. QED
  BY <1>1, <1>2, <1>3 DEF Read, Reading, ReadingIn

-----------------------------------------------------------------------------
(* Appends.                                                                 *)

LEMMA NewEventsType ==
  ASSUME Shape, Recorded, NEW s \in Stream, NEW n \in Nat
  PROVE  /\ NewEvents(s, n) \in Seq(Event) /\ Len(NewEvents(s, n)) = n
         /\ \A i \in 1 .. n : NewEvents(s, n)[i] = [position |-> counter + i, stream |-> s,
                                                    version |-> TipOf(Entry(s)) + i]
<1>1. counter \in Nat /\ TipOf(Entry(s)) \in Nat
  BY StreamFacts, LogFacts
<1>2. NewEvents(s, n) = [i \in 1 .. n |-> [position |-> counter + i, stream |-> s,
                                           version |-> TipOf(Entry(s)) + i]]
  BY DEF NewEvents, LastPosition
<1>3. \A i \in 1 .. n : [position |-> counter + i, stream |-> s, version |-> TipOf(Entry(s)) + i] \in Event
  BY <1>1 DEF Event
<1>4. NewEvents(s, n) \in [1 .. n -> Event]
  BY <1>2, <1>3
<1>5. NewEvents(s, n) \in Seq(Event)
  BY <1>4, SeqDef
<1>6. QED
  BY <1>2, <1>4, <1>5, LenProperties

\* The slice that a grown one replaces, and where it may lie.
Follows(new, old, n) ==
  /\ new.len = old.len + n
  /\ \/ new.array = old.array /\ new.off = old.off
     \/ new.array = Fresh

\* Other streams and the iterators end where the stream that is appended to does.
LEMMA OthersClear ==
  ASSUME StoreInv, NEW s \in Stream
  PROVE  /\ \A t \in Stream \ {s} : Clear(streams[t].events, streams[s].events)
         /\ \A r \in Reader : Clear(iter[r].events, streams[s].events)
<1>1. ASSUME NEW t \in Stream \ {s}
      PROVE  Clear(streams[t].events, streams[s].events)
  <2>1. Fits(array, streams[t].events) /\ Fits(array, streams[s].events)
    BY DEF StoreInv, Shape, ShapeIn
  <2>2. streams[t].events.array = streams[s].events.array => streams[s].events.array = 0
    BY DEF StoreInv, Apart, ApartIn
  <2>3. QED
    BY <2>1, <2>2 DEF Clear, Fits
<1>2. QED
  BY <1>1 DEF StoreInv, Apart, ApartIn

\* The streams after an append, and what it makes of the memory.
WithEvents(s, slice) == [streams EXCEPT ![s] = [Entry(s) EXCEPT !.events = slice]]

Appended(heap, st, log, s, n, new) ==
  /\ ShapeIn(heap, st, log, iter)
  /\ ApartIn(st, log, iter)
  /\ st[s].first = Entry(s).first /\ Follows(st[s].events, streams[s].events, n)
  /\ CellsIn(heap, log) = Cells(globalLog) \o new
  /\ CellsIn(heap, st[s].events) = Held[s] \o new
  /\ \A t \in Stream \ {s} : CellsIn(heap, st[t].events) = Held[t]
  /\ \A r \in Reader : CellsIn(heap, iter[r].events) = Read[r]

GrownStream(grown, s, n, new) ==
  /\ n = 0 => grown = [heap |-> array, slice |-> Entry(s).events]
  /\ n # 0 => grown \in Grown(array, Entry(s).events, new, Fresh)

\* The memory of an append: the stream's slice first, the log's behind it.
LEMMA AppendMemory ==
  ASSUME StoreInv, NEW s \in Stream, NEW n \in Nat, NEW new \in Seq(Event), Len(new) = n,
         NEW grown, GrownStream(grown, s, n, new),
         NEW log, log \in Grown(grown.heap, globalLog, new, globalLog.array),
         NEW st, st = WithEvents(s, grown.slice)
  PROVE  Appended(log.heap, st, log.slice, s, n, new)
<1> DEFINE old == streams[s].events
<1>1. /\ array \in Memory /\ Fits(array, globalLog) /\ globalLog.array # 0 /\ globalLog.off = 0
      /\ globalLog.array \in Array
      /\ streams \in [Stream -> Entries] /\ iter \in [Reader -> Iterator]
      /\ \A t \in Stream : Fits(array, streams[t].events)
      /\ \A r \in Reader : Fits(array, iter[r].events)
  BY LogFacts DEF StoreInv, Shape, ShapeIn
<1>2. Entry(s) \in Entries /\ Entry(s).events = old /\ Held[s] \in Seq(Event) /\ Held[s] = CellsIn(array, old)
  BY StreamFacts DEF StoreInv, Held, Cells
<1> DEFINE Untouched(z) == Fits(array, z) /\ z.array # Fresh /\ Clear(z, old)
<1>3. /\ grown.heap \in Memory /\ Fits(grown.heap, grown.slice)
      /\ CellsIn(grown.heap, grown.slice) = Held[s] \o new
      /\ Follows(grown.slice, old, n)
      /\ \A z : Untouched(z) => Fits(grown.heap, z) /\ CellsIn(grown.heap, z) = CellsIn(array, z)
  <2>1. CASE n = 0
    <3>1. grown.heap = array /\ grown.slice = old
      BY <1>2, <2>1 DEF GrownStream
    <3>2. new = <<>>
      BY <2>1, EmptySeq, SeqEqual
    <3>3. Held[s] \o new = Held[s]
      BY <1>2, <3>2, ConcatEmptySeq
    <3>4. Follows(old, old, n)
      BY <1>1, <2>1 DEF Follows, Fits, Slice
    <3>5. QED
      BY <1>1, <1>2, <3>1, <3>3, <3>4
  <2>2. CASE n # 0
    <3>1. grown \in Grown(array, old, new, Fresh)
      BY <1>2, <2>2 DEF GrownStream
    <3>2. /\ grown.heap \in Memory
          /\ Fits(grown.heap, grown.slice)
          /\ CellsIn(grown.heap, grown.slice) = CellsIn(array, old) \o new
          /\ grown.slice.len = old.len + Len(new)
          /\ \/ grown.slice.array = Fresh /\ grown.slice.off = 0
             \/ old.array # 0 /\ grown.slice.array = old.array /\ grown.slice.off = old.off
          /\ \A z : Fits(array, z) /\ z.array # Fresh /\ Clear(z, old) =>
               Fits(grown.heap, z) /\ CellsIn(grown.heap, z) = CellsIn(array, z)
      <4> HIDE DEF old
      <4>1. Fits(array, old)
        BY <1>1 DEF old
      <4>2. QED
        BY <1>1, <3>1, <4>1, FreshArray, GrownKeeps
    <3>3. QED
      BY <1>2, <3>2 DEF Follows
  <2>3. QED
    BY <2>1, <2>2
<1>4. Fits(grown.heap, globalLog) /\ CellsIn(grown.heap, globalLog) = Cells(globalLog)
  <2>1. globalLog.array # old.array
    BY DEF StoreInv, Apart, ApartIn
  <2>2. Untouched(globalLog)
    BY <1>1, <2>1, FreshArray DEF Clear
  <2> HIDE DEF Untouched
  <2>3. QED
    BY <1>3, <2>2 DEF Cells
<1>5. /\ log.heap \in Memory
      /\ Fits(log.heap, log.slice)
      /\ CellsIn(log.heap, log.slice) = Cells(globalLog) \o new
      /\ log.slice.array = globalLog.array /\ log.slice.off = 0
      /\ \A z : Fits(grown.heap, z) /\ z.array # globalLog.array =>
           Fits(log.heap, z) /\ CellsIn(log.heap, z) = CellsIn(grown.heap, z)
  <2>1. /\ log.heap \in Memory
        /\ Fits(log.heap, log.slice)
        /\ CellsIn(log.heap, log.slice) = CellsIn(grown.heap, globalLog) \o new
        /\ log.slice.len = globalLog.len + Len(new)
        /\ \/ log.slice.array = globalLog.array /\ log.slice.off = 0
           \/ globalLog.array # 0 /\ log.slice.array = globalLog.array /\ log.slice.off = globalLog.off
        /\ \A z : Fits(grown.heap, z) /\ z.array # globalLog.array /\ Clear(z, globalLog) =>
             Fits(log.heap, z) /\ CellsIn(log.heap, z) = CellsIn(grown.heap, z)
    <3>1. grown.heap \in Memory /\ Fits(grown.heap, globalLog) /\ new \in Seq(Event)
      BY <1>1, <1>3, <1>4
    <3>2. globalLog.array \in Array /\ log \in Grown(grown.heap, globalLog, new, globalLog.array)
      BY <1>1
    <3>3. QED
      BY <3>1, <3>2, GrownKeeps
  <2>2. \A z : z.array # globalLog.array => Clear(z, globalLog)
    BY DEF Clear
  <2>3. QED
    BY <1>1, <1>4, <2>1, <2>2
<1>6. ASSUME NEW z, Untouched(z), z.array # globalLog.array
      PROVE  Fits(log.heap, z) /\ CellsIn(log.heap, z) = CellsIn(array, z)
  <2> HIDE DEF Untouched
  <2>1. QED
    BY <1>3, <1>5, <1>6
<1>7. /\ st \in [Stream -> Entries] /\ st[s].first = Entry(s).first /\ st[s].events = grown.slice
      /\ \A t \in Stream \ {s} : st[t] = streams[t]
  <2>1. [Entry(s) EXCEPT !.events = grown.slice] \in Entries
    BY <1>2, <1>3 DEF Entries, Fits
  <2>2. QED
    BY <1>1, <1>2, <2>1 DEF Entries, WithEvents
<1>8. \A t \in Stream : streams[t].events.array # globalLog.array /\ streams[t].events.array # Fresh
  BY FreshArray DEF StoreInv, Apart, ApartIn
<1>9. \A r \in Reader : iter[r].events.array # globalLog.array /\ iter[r].events.array # Fresh
  BY FreshArray DEF StoreInv, Apart, ApartIn
<1>10. st[s].events.array # globalLog.array
  BY <1>3, <1>7, <1>8, FreshArray DEF Follows
<1>11. Fits(log.heap, st[s].events) /\ CellsIn(log.heap, st[s].events) = Held[s] \o new
  BY <1>3, <1>5, <1>7, <1>10
<1>12. ASSUME NEW t \in Stream \ {s}
       PROVE  Fits(log.heap, st[t].events) /\ CellsIn(log.heap, st[t].events) = Held[t]
  <2>1. Untouched(streams[t].events)
    BY <1>1, <1>8, OthersClear
  <2>2. QED
    BY <1>6, <1>7, <1>8, <2>1 DEF Held, Cells
<1>13. ASSUME NEW r \in Reader
       PROVE  Fits(log.heap, iter[r].events) /\ CellsIn(log.heap, iter[r].events) = Read[r]
  <2>1. Untouched(iter[r].events)
    BY <1>1, <1>9, OthersClear
  <2>2. QED
    BY <1>6, <1>9, <2>1 DEF Read, Cells
<1>14. ShapeIn(log.heap, st, log.slice, iter)
  BY <1>1, <1>5, <1>7, <1>11, <1>12, <1>13 DEF ShapeIn
<1>15. ApartIn(st, log.slice, iter)
  <2>1. \A t \in Stream : st[t].events.array # log.slice.array
    BY <1>5, <1>7, <1>8, <1>10
  <2>2. \A r \in Reader : iter[r].events.array # log.slice.array
    BY <1>5, <1>9
  <2>3. ASSUME NEW t \in Stream, NEW u \in Stream \ {t}, st[t].events.array # 0
        PROVE  st[t].events.array # st[u].events.array
    <3>1. streams[t].events.array # 0 => streams[t].events.array # streams[u].events.array
      BY DEF StoreInv, Apart, ApartIn
    <3>2. streams[u].events.array # 0 => streams[t].events.array # streams[u].events.array
      BY DEF StoreInv, Apart, ApartIn
    <3>3. CASE t = s
      BY <1>3, <1>7, <1>8, <2>3, <3>1, <3>2, <3>3 DEF Follows
    <3>4. CASE u = s
      BY <1>3, <1>7, <1>8, <2>3, <3>1, <3>2, <3>4 DEF Follows
    <3>5. CASE t # s /\ u # s
      BY <1>7, <2>3, <3>1, <3>5
    <3>6. QED
      BY <3>3, <3>4, <3>5
  <2>4. ASSUME NEW t \in Stream, NEW r \in Reader
        PROVE  Clear(iter[r].events, st[t].events)
    <3>1. CASE t # s
      BY <1>7, <3>1 DEF StoreInv, Apart, ApartIn
    <3>2. CASE t = s
      <4>1. CASE grown.slice.array = Fresh
        BY <1>7, <1>9, <3>2, <4>1 DEF Clear
      <4>2. CASE grown.slice.array = old.array /\ grown.slice.off = old.off
        <5>1. Clear(iter[r].events, old)
          BY OthersClear
        <5>2. old \in Slice /\ iter[r].events \in Slice /\ grown.slice.len = old.len + n
          BY <1>1, <1>3 DEF Fits, Follows
        <5>3. End(old) <= End(grown.slice) /\ End(old) \in Nat /\ End(grown.slice) \in Nat /\ End(iter[r].events) \in Nat
          <6>1. PICK a \in Nat, b \in Nat, c \in Nat, d \in Nat :
                  a = old.off /\ b = old.len /\ c = iter[r].events.off /\ d = iter[r].events.len
            BY <5>2 DEF Slice
          <6>2. End(old) = a + b /\ End(grown.slice) = a + (b + n) /\ End(iter[r].events) = c + d
            BY <4>2, <5>2, <6>1 DEF End
          <6>3. a + b <= a + (b + n) /\ a + b \in Nat /\ a + (b + n) \in Nat /\ c + d \in Nat
            OBVIOUS
          <6> HIDE DEF old
          <6>4. QED
            BY <6>2, <6>3
        <5>4. st[t].events = grown.slice /\ grown.slice.array = old.array
          BY <1>7, <3>2, <4>2
        <5> DEFINE e == End(iter[r].events)
                   f == End(old)
                   g == End(grown.slice)
        <5>5. iter[r].events.array = old.array => e <= f
          BY <5>1 DEF Clear
        <5> HIDE DEF e, f, g, old
        <5>6. iter[r].events.array = old.array => e <= g
          BY <5>3, <5>5 DEF e, f, g
        <5>7. QED
          BY <5>4, <5>6 DEF Clear, e, g
      <4>3. QED
        BY <1>3, <4>1, <4>2 DEF Follows
    <3>3. QED
      BY <3>1, <3>2
  <2>5. QED
    BY <2>1, <2>2, <2>3, <2>4 DEF ApartIn
<1>16. Follows(st[s].events, old, n)
  BY <1>3, <1>7
<1>17. QED
  BY <1>5, <1>7, <1>11, <1>12, <1>13, <1>14, <1>15, <1>16 DEF Appended

LEMMA EventsOfJoined ==
  ASSUME NEW c \in Seq(Event), NEW d \in Seq(Event)
  PROVE  EventsOf(c \o d) = EventsOf(c) \cup EventsOf(d)
<1> DEFINE p == c \o d
<1>1. Joins(p, c, d)
  BY Joined
<1> HIDE DEF p
<1>2. Len(c) \in Nat /\ Len(d) \in Nat
  BY LenProperties
<1>3. ASSUME NEW i \in 1 .. Len(p)
      PROVE  p[i] \in EventsOf(c) \cup EventsOf(d)
  <2>1. CASE i \in 1 .. Len(c)
    BY <1>1, <2>1 DEF Joins, EventsOf
  <2>2. CASE i \notin 1 .. Len(c)
    <3>1. i - Len(c) \in 1 .. Len(d) /\ Len(c) + (i - Len(c)) = i
      BY <1>1, <1>2, <2>2 DEF Joins
    <3>2. p[Len(c) + (i - Len(c))] = d[i - Len(c)]
      BY <1>1, <3>1 DEF Joins
    <3>3. QED
      BY <3>1, <3>2 DEF EventsOf
  <2>3. QED
    BY <2>1, <2>2
<1>4. \A i \in 1 .. Len(c) : i \in 1 .. Len(p) /\ p[i] = c[i]
  BY <1>1, <1>2 DEF Joins
<1>5. \A i \in 1 .. Len(d) : Len(c) + i \in 1 .. Len(p) /\ p[Len(c) + i] = d[i]
  BY <1>1, <1>2 DEF Joins
<1>6. QED
  BY <1>3, <1>4, <1>5 DEF EventsOf, p

\* What an append makes of the streams and of the log agrees again.
LEMMA RecordedAppend ==
  ASSUME Shape, Recorded, NEW s \in Stream, NEW n \in Nat, counter + n <= MaxPosition,
         NEW st, st[s].first = Entry(s).first, st[s].events.len = streams[s].events.len + n,
         \A t \in Stream \ {s} : st[t] = streams[t],
         NEW held, held[s] = Held[s] \o NewEvents(s, n),
         \A t \in Stream \ {s} : held[t] = Held[t]
  PROVE  RecordedIn(counter + n, st, held, Cells(globalLog) \o NewEvents(s, n))
<1> DEFINE new == NewEvents(s, n)
           log == Cells(globalLog)
           all == log \o new
           tip == TipOf(Entry(s))
           first == Entry(s).first
           len == streams[s].events.len
<1>1. /\ new \in Seq(Event) /\ Len(new) = n
      /\ \A i \in 1 .. n : new[i] = [position |-> counter + i, stream |-> s, version |-> tip + i]
  BY NewEventsType
<1>2. /\ first \in Nat /\ first >= 1 /\ len \in Nat /\ tip \in 0 .. counter /\ tip = first + len - 1
      /\ Held[s] \in Seq(Event) /\ Len(Held[s]) = len /\ Versioned(Held[s], s, first)
  BY StreamFacts, LenProperties DEF Entries
<1>3. log \in Seq(Event) /\ Len(log) \in Nat /\ counter \in Nat /\ MaxPosition \in Nat /\ Ordered(log) /\ Below(log, counter)
  BY LogFacts, LenProperties, StoreBounds DEF Recorded, RecordedIn
<1>4. \A t \in Stream : Held[t] \in Seq(Event)
  BY StreamFacts
<1>5. \A t \in Stream : {e \in EventsOf(log) : e.stream = t} = EventsOf(Held[t])
  BY DEF Recorded, RecordedIn, Same
<1> HIDE DEF new, tip, first, len, log
<1>6. all \in Seq(Event) /\ Joins(all, log, new)
  BY <1>1, <1>3, Joined
<1>7. EventsOf(all) = EventsOf(log) \cup EventsOf(new)
  BY <1>1, <1>3, EventsOfJoined
<1> HIDE DEF all
<1>8. ASSUME NEW i \in 1 .. Len(all)
      PROVE  \/ i \in 1 .. Len(log) /\ all[i] = log[i]
             \/ i - Len(log) \in 1 .. n /\ all[i].position = counter + (i - Len(log))
  <2>1. CASE i \in 1 .. Len(log)
    BY <1>6, <2>1 DEF Joins
  <2>2. CASE i \notin 1 .. Len(log)
    <3>1. i - Len(log) \in 1 .. n /\ Len(log) + (i - Len(log)) = i
      BY <1>1, <1>3, <1>6, <2>2 DEF Joins
    <3>2. all[Len(log) + (i - Len(log))] = new[i - Len(log)]
      BY <1>1, <1>6, <3>1 DEF Joins
    <3>3. QED
      BY <1>1, <3>1, <3>2
  <2>3. QED
    BY <2>1, <2>2
<1>9. \A i \in 1 .. Len(log) : log[i].position \in 1 .. counter
  BY <1>3 DEF Below
<1>10. Below(all, counter + n)
  <2> SUFFICES ASSUME NEW i \in 1 .. Len(all) PROVE all[i].position \in 1 .. counter + n
    BY DEF Below
  <2>1. CASE i \in 1 .. Len(log) /\ all[i] = log[i]
    BY <1>3, <1>9, <2>1
  <2>2. CASE i - Len(log) \in 1 .. n /\ all[i].position = counter + (i - Len(log))
    BY <1>3, <2>2
  <2>3. QED
    BY <1>8, <2>1, <2>2
<1>11. Ordered(all)
  <2> SUFFICES ASSUME NEW i \in 1 .. Len(all), NEW j \in 1 .. Len(all), i < j
               PROVE  all[i].position < all[j].position
    BY DEF Ordered
  <2>1. CASE j \in 1 .. Len(log) /\ all[j] = log[j]
    <3>1. i \in 1 .. Len(log) /\ all[i] = log[i]
      BY <1>6, <2>1 DEF Joins
    <3>2. QED
      BY <1>3, <2>1, <3>1 DEF Ordered
  <2>2. CASE j - Len(log) \in 1 .. n /\ all[j].position = counter + (j - Len(log))
    <3>1. CASE i \in 1 .. Len(log) /\ all[i] = log[i]
      <4>1. log[i].position \in 1 .. counter /\ counter \in Nat
        BY <1>3, <1>9, <3>1
      <4>2. PICK k \in 1 .. n : k = j - Len(log)
        BY <2>2
      <4>3. all[j].position = counter + k /\ all[i].position = log[i].position
        BY <2>2, <3>1, <4>2
      <4>4. QED
        BY <4>1, <4>2, <4>3
    <3>2. CASE i - Len(log) \in 1 .. n /\ all[i].position = counter + (i - Len(log))
      BY <1>3, <2>2, <3>2
    <3>3. QED
      BY <1>8, <3>1, <3>2
  <2>3. QED
    BY <1>8, <2>1, <2>2
<1>12. EventsOf(new) = {new[i] : i \in 1 .. n} /\ \A e \in EventsOf(new) : e.stream = s
  BY <1>1 DEF EventsOf
<1>13. Same(all, held)
  <2> SUFFICES ASSUME NEW t \in Stream PROVE {e \in EventsOf(all) : e.stream = t} = EventsOf(held[t])
    BY DEF Same
  <2>1. CASE t = s
    <3>1. EventsOf(held[s]) = EventsOf(Held[s]) \cup EventsOf(new)
      BY <1>1, <1>2, EventsOfJoined DEF new
    <3>2. QED
      BY <1>5, <1>7, <1>12, <2>1, <3>1
  <2>2. CASE t # s
    <3>1. held[t] = Held[t]
      BY <2>2
    <3>2. QED
      BY <1>5, <1>7, <1>12, <2>2, <3>1
  <2>3. QED
    BY <2>1, <2>2
<1>14. Versioned(held[s], s, first)
  <2> DEFINE old == Held[s]
             p == held[s]
  <2>1. Joins(p, old, new)
    BY <1>1, <1>2, Joined DEF new
  <2>2. Len(old) = len /\ \A i \in 1 .. len : old[i].stream = s /\ old[i].version = first + i - 1
    BY <1>2 DEF Versioned
  <2> HIDE DEF p, old
  <2>3. ASSUME NEW i \in 1 .. Len(p)
        PROVE  p[i].stream = s /\ p[i].version = first + i - 1
    <3>1. CASE i \in 1 .. len
      BY <2>1, <2>2, <3>1 DEF Joins
    <3>2. CASE i \notin 1 .. len
      <4>1. i - len \in 1 .. n /\ len + (i - len) = i /\ tip + (i - len) = first + i - 1
        BY <1>1, <1>2, <2>1, <2>2, <3>2 DEF Joins
      <4>2. p[len + (i - len)] = new[i - len]
        BY <1>1, <2>1, <2>2, <4>1 DEF Joins
      <4>3. QED
        BY <1>1, <4>1, <4>2
    <3>3. QED
      BY <3>1, <3>2
  <2>4. QED
    BY <2>3 DEF Versioned, p
<1>15. st[s].first = first /\ TipOf(st[s]) = tip + n /\ tip + n <= counter + n
  <2>1. st[s].first = first /\ st[s].events.len = len + n
    BY DEF first, len
  <2>2. TipOf(st[s]) = first + (len + n) - 1
    BY <2>1 DEF TipOf
  <2>3. QED
    BY <1>2, <1>3, <2>1, <2>2
<1>16. \A t \in Stream \ {s} : /\ st[t] # NoEntry => st[t].first >= 1 /\ TipOf(st[t]) <= counter + n
                              /\ Versioned(held[t], t, st[t].first)
  <2> TAKE t \in Stream \ {s}
  <2>1. st[t] = streams[t] /\ held[t] = Held[t]
    OBVIOUS
  <2>2. /\ streams[t] # NoEntry => streams[t].first >= 1 /\ TipOf(streams[t]) <= counter
        /\ Versioned(Held[t], t, streams[t].first)
    BY DEF Recorded, RecordedIn
  <2>3. TipOf(streams[t]) \in Int
    BY DEF Shape, ShapeIn, Entries, Fits, Slice, TipOf
  <2>4. QED
    BY <1>3, <2>1, <2>2, <2>3
<1>17. counter + n \in 0 .. MaxPosition
  BY <1>3
<1>18. ASSUME NEW t \in Stream
       PROVE  /\ st[t] # NoEntry => st[t].first >= 1 /\ TipOf(st[t]) <= counter + n
              /\ Versioned(held[t], t, st[t].first)
  <2>1. CASE t = s
    BY <1>2, <1>14, <1>15, <2>1
  <2>2. CASE t # s
    BY <1>16, <2>2
  <2>3. QED
    BY <2>1, <2>2
<1>19. QED
  BY <1>10, <1>11, <1>13, <1>17, <1>18 DEF RecordedIn, all, log, new

\* Positions that are below a bound are below a higher one.
LEMMA BelowMore ==
  ASSUME NEW cells, NEW n \in Nat, NEW m \in Nat, n <= m, Below(cells, n)
  PROVE  Below(cells, m)
BY DEF Below

LEMMA ReadingMore ==
  ASSUME NEW n \in Nat, NEW m \in Nat, n <= m, NEW it, NEW read, ReadingIn(n, it, read)
  PROVE  ReadingIn(m, it, read)
BY BelowMore DEF ReadingIn

\* What a successful append changes.
AppendEffect(s, n) ==
  /\ counter' = counter + n /\ counter + n <= MaxPosition
  /\ yielded' = yielded /\ iter' = iter /\ Read' = Read
  /\ Cells(globalLog)' = Cells(globalLog) \o NewEvents(s, n)
  /\ streams'[s].first = Entry(s).first
  /\ streams'[s].events.len = streams[s].events.len + n
  /\ \A t \in Stream \ {s} : streams'[t] = streams[t]

LEMMA AppendKeeps ==
  ASSUME StoreInv, NEW s \in Stream, NEW n \in Nat, NEW expect, AppendStream(s, n, expect)
  PROVE  StoreInv' /\ AppendEffect(s, n)
<1> DEFINE new == NewEvents(s, n)
<1>1. Shape /\ Apart /\ Recorded /\ Reading
  BY DEF StoreInv
<1>2. new \in Seq(Event) /\ Len(new) = n
  BY <1>1, NewEventsType
<1>3. counter' = counter + n /\ counter + n <= MaxPosition /\ yielded' = yielded
  BY DEF AppendStream
<1>4. PICK grown \in IF n = 0 THEN {[heap |-> array, slice |-> Entry(s).events]}
                     ELSE Grown(array, Entry(s).events, new, Fresh) :
           \E log \in Grown(grown.heap, globalLog, new, globalLog.array) :
             Becomes(log.heap,
                     [streams EXCEPT ![s] = [Entry(s) EXCEPT !.events = grown.slice]],
                     log.slice, iter)
  BY DEF AppendStream
<1>5. PICK log \in Grown(grown.heap, globalLog, new, globalLog.array) :
             Becomes(log.heap, WithEvents(s, grown.slice), log.slice, iter)
  BY <1>4 DEF WithEvents
<1>6. GrownStream(grown, s, n, new)
  BY <1>4 DEF GrownStream
<1> HIDE DEF new
<1>7. PICK z : z = WithEvents(s, grown.slice)
  OBVIOUS
<1>8. /\ ShapeIn(log.heap, z, log.slice, iter)
      /\ ApartIn(z, log.slice, iter)
      /\ z[s].first = Entry(s).first /\ Follows(z[s].events, streams[s].events, n)
      /\ CellsIn(log.heap, log.slice) = Cells(globalLog) \o new
      /\ CellsIn(log.heap, z[s].events) = Held[s] \o new
      /\ \A t \in Stream \ {s} : CellsIn(log.heap, z[t].events) = Held[t]
      /\ \A r \in Reader : CellsIn(log.heap, iter[r].events) = Read[r]
  <2>1. Appended(log.heap, z, log.slice, s, n, new)
    BY <1>2, <1>6, <1>7, AppendMemory
  <2>2. QED
    BY <2>1 DEF Appended
<1>9. \A t \in Stream \ {s} : z[t] = streams[t]
  BY <1>1, <1>7 DEF WithEvents, Shape, ShapeIn
<1>10. Becomes(log.heap, z, log.slice, iter)
  BY <1>5, <1>7
<1>11. /\ Shape' /\ Apart'
       /\ streams' = z /\ globalLog' = log.slice /\ iter' = iter
       /\ Cells(globalLog)' = CellsIn(log.heap, log.slice)
       /\ Held' = [t \in Stream |-> CellsIn(log.heap, z[t].events)]
       /\ Read' = [r \in Reader |-> CellsIn(log.heap, iter[r].events)]
  BY <1>8, <1>10, MemoryStep
<1>12. Read' = Read
  BY <1>8, <1>11 DEF Read
<1>13. Held'[s] = Held[s] \o new /\ \A t \in Stream \ {s} : Held'[t] = Held[t]
  BY <1>8, <1>11
<1>14. z[s].events.len = streams[s].events.len + n
  BY <1>8 DEF Follows
<1>15. RecordedIn(counter + n, z, Held', Cells(globalLog) \o new)
  BY <1>1, <1>3, <1>8, <1>9, <1>13, <1>14, RecordedAppend DEF new
<1>16. counter \in Nat /\ yielded \in 0 .. counter /\ counter + n \in Nat /\ counter <= counter + n
  BY <1>1, LogFacts
<1>17. Recorded'
  BY <1>3, <1>8, <1>11, <1>15, <1>16 DEF Recorded
<1>18. Reading'
  <2>1. ReadingIn(counter + n, iter, Read)
    BY <1>1, <1>16, ReadingMore DEF Reading
  <2>2. QED
    BY <1>3, <1>11, <1>12, <2>1 DEF Reading
<1>19. QED
  BY <1>3, <1>8, <1>9, <1>11, <1>12, <1>14, <1>17, <1>18 DEF StoreInv, AppendEffect, new

\* A refused or failed append leaves an entry behind, and gaps in the positions.
MarkEffect(s, n) ==
  /\ counter' = counter + n /\ yielded' = yielded /\ iter' = iter /\ Read' = Read
  /\ Cells(globalLog)' = Cells(globalLog)
  /\ streams' = [streams EXCEPT ![s] = Entry(s)]

LEMMA MarkKeeps ==
  ASSUME StoreInv, NEW s \in Stream, NEW n \in Nat, counter + n <= MaxPosition,
         counter' = counter + n, yielded' = yielded,
         Becomes(array, [streams EXCEPT ![s] = Entry(s)], globalLog, iter)
  PROVE  StoreInv' /\ MarkEffect(s, n)
<1>1. Shape /\ Apart /\ Recorded /\ Reading
  BY DEF StoreInv
<1>2. /\ Entry(s) \in Entries /\ Entry(s).events = streams[s].events
      /\ Entry(s).first >= 1 /\ TipOf(Entry(s)) \in 0 .. counter
      /\ Versioned(Held[s], s, Entry(s).first)
  BY <1>1, StreamFacts
<1>3. PICK st : st = [streams EXCEPT ![s] = Entry(s)]
  OBVIOUS
<1>4. /\ st \in [Stream -> Entries] /\ st[s] = Entry(s)
      /\ \A t \in Stream \ {s} : st[t] = streams[t]
      /\ \A t \in Stream : st[t].events = streams[t].events
  BY <1>1, <1>2, <1>3 DEF Shape, ShapeIn
<1>5. ShapeIn(array, st, globalLog, iter)
  BY <1>1, <1>4 DEF Shape, ShapeIn
<1>6. ApartIn(st, globalLog, iter)
  BY <1>1, <1>4 DEF Apart, ApartIn
<1>7. Becomes(array, st, globalLog, iter)
  BY <1>3
<1>8. /\ Shape' /\ Apart'
      /\ streams' = st /\ globalLog' = globalLog /\ iter' = iter
      /\ Cells(globalLog)' = CellsIn(array, globalLog)
      /\ Held' = [t \in Stream |-> CellsIn(array, st[t].events)]
      /\ Read' = [r \in Reader |-> CellsIn(array, iter[r].events)]
  BY <1>5, <1>6, <1>7, MemoryStep
<1>9. Held' = Held /\ Read' = Read /\ Cells(globalLog)' = Cells(globalLog)
  BY <1>4, <1>8 DEF Held, Read, Cells
<1>10. counter \in Nat /\ yielded \in 0 .. counter /\ counter + n \in Nat /\ counter <= counter + n
       /\ counter + n \in 0 .. MaxPosition
  BY <1>1, LogFacts, StoreBounds
<1>11. RecordedIn(counter + n, st, Held, Cells(globalLog))
  <2>1. RecordedIn(counter, streams, Held, Cells(globalLog))
    BY <1>1 DEF Recorded
  <2>2. Below(Cells(globalLog), counter + n)
    BY <1>10, <2>1, BelowMore DEF RecordedIn
  <2>3. ASSUME NEW t \in Stream
        PROVE  /\ st[t] # NoEntry => st[t].first >= 1 /\ TipOf(st[t]) <= counter + n
               /\ Versioned(Held[t], t, st[t].first)
    <3>1. CASE t = s
      BY <1>2, <1>4, <1>10, <3>1
    <3>2. CASE t # s
      <4>1. st[t] = streams[t]
        BY <1>4, <3>2
      <4>2. TipOf(streams[t]) \in Int
        BY <1>1 DEF Shape, ShapeIn, Entries, Fits, Slice, TipOf
      <4>3. /\ streams[t] # NoEntry => streams[t].first >= 1 /\ TipOf(streams[t]) <= counter
            /\ Versioned(Held[t], t, streams[t].first)
        BY <2>1 DEF RecordedIn
      <4>4. QED
        BY <1>10, <4>1, <4>2, <4>3
    <3>3. QED
      BY <3>1, <3>2
  <2>4. QED
    BY <1>10, <2>1, <2>2, <2>3 DEF RecordedIn
<1>12. Recorded'
  BY <1>8, <1>9, <1>10, <1>11 DEF Recorded
<1>13. Reading'
  <2>1. ReadingIn(counter + n, iter, Read)
    BY <1>1, <1>10, ReadingMore DEF Reading
  <2>2. QED
    BY <1>8, <1>9, <2>1 DEF Reading
<1>14. QED
  BY <1>3, <1>8, <1>9, <1>12, <1>13 DEF StoreInv, MarkEffect

-----------------------------------------------------------------------------
(* Deletions.                                                               *)

\* What a deletion makes of the memory: the log's kept events, and cells that the
\* other slices keep.
Compaction(heap, st, log, s, v) ==
  /\ ShapeIn(heap, st, log, iter)
  /\ ApartIn(st, log, iter)
  /\ KeptOf(CellsIn(heap, log), Cells(globalLog), globalLog.len, s, v)
  /\ CellsIn(heap, st[s].events) = CellsIn(array, st[s].events)
  /\ \A t \in Stream \ {s} : CellsIn(heap, st[t].events) = Held[t]
  /\ \A r \in Reader : CellsIn(heap, iter[r].events) = Read[r]

\* A slice that is gone, or that ends where the stream's did.
Shortened(z, old) ==
  \/ z = Nil
  \/ z \in Slice /\ z.array = old.array /\ End(z) = End(old)

LEMMA DropMemory ==
  ASSUME StoreInv, NEW s \in Stream, NEW v, NEW st \in [Stream -> Entries],
         \A t \in Stream \ {s} : st[t] = streams[t],
         Shortened(st[s].events, streams[s].events),
         NEW c, c = Compacted(s, v)
  PROVE  Compaction(c.heap, st, c.slice, s, v)
<1> DEFINE old == streams[s].events
           z == st[s].events
<1>1. /\ array \in Memory /\ Fits(array, globalLog) /\ globalLog.array # 0 /\ globalLog.off = 0
      /\ iter \in [Reader -> Iterator]
      /\ \A t \in Stream : Fits(array, streams[t].events)
      /\ \A r \in Reader : Fits(array, iter[r].events)
  BY DEF StoreInv, Shape, ShapeIn
<1>2. Ordered(Cells(globalLog))
  BY DEF StoreInv, Recorded, RecordedIn
<1>3. /\ c.heap \in Memory
      /\ OnlyAt(globalLog.array, array, c.heap)
      /\ Fits(c.heap, c.slice)
      /\ KeptOf(CellsIn(c.heap, c.slice), Cells(globalLog), globalLog.len, s, v)
      /\ c.slice.array = globalLog.array /\ c.slice.off = 0
  BY <1>1, <1>2, CompactedKeeps
<1>4. Fits(array, old) /\ old.array # globalLog.array
  BY <1>1 DEF StoreInv, Apart, ApartIn
<1>5. Fits(array, z) /\ z.array # globalLog.array
  <2>1. CASE z = Nil
    BY <1>1, <2>1 DEF Fits, Nil, Slice, End
  <2>2. CASE z \in Slice /\ z.array = old.array /\ End(z) = End(old)
    BY <1>4, <2>2 DEF Fits
  <2>3. QED
    BY <2>1, <2>2 DEF Shortened
<1>6. Fits(c.heap, z) /\ CellsIn(c.heap, z) = CellsIn(array, z)
  BY <1>1, <1>3, <1>5, SameArrays
<1>7. ASSUME NEW t \in Stream \ {s}
      PROVE  Fits(c.heap, st[t].events) /\ CellsIn(c.heap, st[t].events) = Held[t]
  <2>1. streams[t].events.array # globalLog.array
    BY DEF StoreInv, Apart, ApartIn
  <2>2. Fits(c.heap, streams[t].events) /\ CellsIn(c.heap, streams[t].events) = CellsIn(array, streams[t].events)
    BY <1>1, <1>3, <2>1, SameArrays
  <2>3. QED
    BY <2>2 DEF Held, Cells
<1>8. ASSUME NEW r \in Reader
      PROVE  Fits(c.heap, iter[r].events) /\ CellsIn(c.heap, iter[r].events) = Read[r]
  <2>1. iter[r].events.array # globalLog.array
    BY DEF StoreInv, Apart, ApartIn
  <2>2. Fits(c.heap, iter[r].events) /\ CellsIn(c.heap, iter[r].events) = CellsIn(array, iter[r].events)
    BY <1>1, <1>3, <2>1, SameArrays
  <2>3. QED
    BY <2>2 DEF Read, Cells
<1>9. ShapeIn(c.heap, st, c.slice, iter)
  BY <1>1, <1>3, <1>6, <1>7, <1>8 DEF ShapeIn
<1>10. ApartIn(st, c.slice, iter)
  <2>1. \A t \in Stream : st[t].events.array # c.slice.array
    BY <1>3, <1>5 DEF StoreInv, Apart, ApartIn
  <2>2. \A r \in Reader : iter[r].events.array # c.slice.array
    BY <1>3 DEF StoreInv, Apart, ApartIn
  <2>3. z.array = 0 \/ z.array = old.array
    BY DEF Shortened, Nil
  <2>4. ASSUME NEW t \in Stream, NEW u \in Stream \ {t}, st[t].events.array # 0
        PROVE  st[t].events.array # st[u].events.array
    <3>1. streams[t].events.array # 0 => streams[t].events.array # streams[u].events.array
      BY DEF StoreInv, Apart, ApartIn
    <3>2. st[t].events.array = streams[t].events.array
      BY <2>3, <2>4
    <3>3. st[u].events.array = 0 \/ st[u].events.array = streams[u].events.array
      BY <2>3
    <3>4. QED
      BY <2>4, <3>1, <3>2, <3>3
  <2>5. ASSUME NEW t \in Stream, NEW r \in Reader
        PROVE  Clear(iter[r].events, st[t].events)
    <3>1. Clear(iter[r].events, streams[t].events)
      BY DEF StoreInv, Apart, ApartIn
    <3>2. CASE t # s
      BY <3>1, <3>2
    <3>3. CASE t = s /\ z = Nil
      <4>1. iter[r].events.array = 0 => End(iter[r].events) = 0
        BY <1>1 DEF Fits
      <4>2. Nil.array = 0 /\ End(Nil) = 0
        BY DEF Nil, End
      <4>3. QED
        BY <3>3, <4>1, <4>2 DEF Clear
    <3>4. CASE t = s /\ z \in Slice /\ z.array = old.array /\ End(z) = End(old)
      BY <3>1, <3>4 DEF Clear
    <3>5. QED
      BY <3>2, <3>3, <3>4 DEF Shortened
  <2>6. QED
    BY <2>1, <2>2, <2>4, <2>5 DEF ApartIn
<1>11. QED
  BY <1>3, <1>6, <1>7, <1>8, <1>9, <1>10 DEF Compaction

\* What the loop kept, as a set.
LEMMA KeptEvents ==
  ASSUME NEW h \in Seq(Event), NEW k, NEW s, NEW v, KeptOf(k, h, Len(h), s, v)
  PROVE  EventsOf(k) = {e \in EventsOf(h) : ~Dropped(e, s, v)}
<1>1. \A x \in 1 .. Len(k) : \E j \in 1 .. Len(h) : k[x] = h[j] /\ ~Dropped(h[j], s, v)
  BY DEF KeptOf
<1>2. \A j \in 1 .. Len(h) : ~Dropped(h[j], s, v) => \E x \in 1 .. Len(k) : k[x] = h[j]
  BY DEF KeptOf
<1>3. EventsOf(k) \subseteq {e \in EventsOf(h) : ~Dropped(e, s, v)}
  BY <1>1 DEF EventsOf
<1>4. {e \in EventsOf(h) : ~Dropped(e, s, v)} \subseteq EventsOf(k)
  BY <1>2 DEF EventsOf
<1>5. QED
  BY <1>3, <1>4

\* What a deletion makes of the streams and of the log agrees again.
LEMMA RecordedDropped ==
  ASSUME Shape, Recorded, NEW s \in Stream, NEW v, NEW st,
         \A t \in Stream \ {s} : st[t] = streams[t],
         st[s] # NoEntry => st[s].first >= 1 /\ TipOf(st[s]) <= counter,
         NEW held, \A t \in Stream \ {s} : held[t] = Held[t],
         Versioned(held[s], s, st[s].first),
         EventsOf(held[s]) = {e \in EventsOf(Held[s]) : ~Dropped(e, s, v)},
         NEW log, KeptOf(log, Cells(globalLog), globalLog.len, s, v)
  PROVE  /\ RecordedIn(counter, st, held, log)
         /\ EventsOf(log) = {e \in EventsOf(Cells(globalLog)) : ~Dropped(e, s, v)}
<1> DEFINE all == Cells(globalLog)
<1>1. all \in Seq(Event) /\ Len(all) = globalLog.len /\ counter \in Nat
  BY LogFacts
<1>2. RecordedIn(counter, streams, Held, all)
  BY DEF Recorded
<1> HIDE DEF all
<1>3. KeptOf(log, all, Len(all), s, v)
  BY <1>1 DEF all
<1>4. EventsOf(log) = {e \in EventsOf(all) : ~Dropped(e, s, v)}
  BY <1>1, <1>3, KeptEvents
<1>5. Ordered(log)
  BY <1>3 DEF KeptOf
<1>6. Below(log, counter)
  <2>1. \A x \in 1 .. Len(log) : \E j \in 1 .. Len(all) : log[x] = all[j]
    BY <1>3 DEF KeptOf
  <2>2. \A j \in 1 .. Len(all) : all[j].position \in 1 .. counter
    BY <1>2 DEF RecordedIn, Below
  <2>3. QED
    BY <2>1, <2>2 DEF Below
<1>7. Same(log, held)
  <2> SUFFICES ASSUME NEW t \in Stream PROVE {e \in EventsOf(log) : e.stream = t} = EventsOf(held[t])
    BY DEF Same
  <2>1. {e \in EventsOf(all) : e.stream = t} = EventsOf(Held[t])
    BY <1>2 DEF RecordedIn, Same
  <2>2. CASE t = s
    <3>1. EventsOf(held[t]) = {e \in EventsOf(Held[t]) : ~Dropped(e, s, v)}
      BY <2>2
    <3>2. QED
      BY <1>4, <2>1, <3>1
  <2>3. CASE t # s
    <3>1. held[t] = Held[t]
      BY <2>3
    <3>2. \A e : e.stream = t => ~Dropped(e, s, v)
      BY <2>3 DEF Dropped
    <3>3. QED
      BY <1>4, <2>1, <3>1, <3>2
  <2>4. QED
    BY <2>2, <2>3
<1>8. ASSUME NEW t \in Stream
      PROVE  /\ st[t] # NoEntry => st[t].first >= 1 /\ TipOf(st[t]) <= counter
             /\ Versioned(held[t], t, st[t].first)
  <2>1. CASE t = s
    BY <2>1
  <2>2. CASE t # s
    <3>1. st[t] = streams[t] /\ held[t] = Held[t]
      BY <2>2
    <3>2. QED
      BY <1>2, <3>1 DEF RecordedIn
  <2>3. QED
    BY <2>1, <2>2
<1>9. counter \in 0 .. MaxPosition
  BY <1>2 DEF RecordedIn
<1>10. QED
  BY <1>4, <1>5, <1>6, <1>7, <1>8, <1>9 DEF RecordedIn, all

\* What a deletion changes.
DropEffect(s, v) ==
  /\ counter' = counter /\ yielded' = yielded /\ iter' = iter /\ Read' = Read
  /\ EventsOf(Cells(globalLog)') = {e \in EventsOf(Cells(globalLog)) : ~Dropped(e, s, v)}
  /\ \A t \in Stream \ {s} : streams'[t] = streams[t]

LEMMA DropKeeps ==
  ASSUME StoreInv, NEW s \in Stream, NEW v, NEW st \in [Stream -> Entries],
         \A t \in Stream \ {s} : st[t] = streams[t],
         Shortened(st[s].events, streams[s].events),
         st[s] # NoEntry => st[s].first >= 1 /\ TipOf(st[s]) <= counter,
         Versioned(CellsIn(array, st[s].events), s, st[s].first),
         EventsOf(CellsIn(array, st[s].events)) = {e \in EventsOf(Held[s]) : ~Dropped(e, s, v)},
         Becomes(Compacted(s, v).heap, st, Compacted(s, v).slice, iter),
         UNCHANGED <<counter, yielded>>
  PROVE  StoreInv' /\ DropEffect(s, v) /\ streams' = st
<1>1. Shape /\ Apart /\ Recorded /\ Reading
  BY DEF StoreInv
<1>2. PICK c : c = Compacted(s, v)
  OBVIOUS
<1>3. Compaction(c.heap, st, c.slice, s, v)
  BY <1>2, DropMemory
<1>4. Becomes(c.heap, st, c.slice, iter)
  BY <1>2
<1>5. /\ Shape' /\ Apart'
      /\ streams' = st /\ globalLog' = c.slice /\ iter' = iter
      /\ Cells(globalLog)' = CellsIn(c.heap, c.slice)
      /\ Held' = [t \in Stream |-> CellsIn(c.heap, st[t].events)]
      /\ Read' = [r \in Reader |-> CellsIn(c.heap, iter[r].events)]
  BY <1>3, <1>4, MemoryStep DEF Compaction
<1>6. Read' = Read
  BY <1>3, <1>5 DEF Compaction, Read
<1>7. Held'[s] = CellsIn(array, st[s].events) /\ \A t \in Stream \ {s} : Held'[t] = Held[t]
  BY <1>3, <1>5 DEF Compaction
<1>8. KeptOf(CellsIn(c.heap, c.slice), Cells(globalLog), globalLog.len, s, v)
  BY <1>3 DEF Compaction
<1>9. PICK held : held = Held'
  OBVIOUS
<1>10. /\ RecordedIn(counter, st, held, CellsIn(c.heap, c.slice))
       /\ EventsOf(CellsIn(c.heap, c.slice)) = {e \in EventsOf(Cells(globalLog)) : ~Dropped(e, s, v)}
  <2>1. Versioned(held[s], s, st[s].first)
    BY <1>7, <1>9
  <2>2. EventsOf(held[s]) = {e \in EventsOf(Held[s]) : ~Dropped(e, s, v)}
    BY <1>7, <1>9
  <2>3. \A t \in Stream \ {s} : held[t] = Held[t]
    BY <1>7, <1>9
  <2>4. QED
    BY <1>1, <1>8, <2>1, <2>2, <2>3, RecordedDropped
<1>11. Recorded'
  BY <1>1, <1>5, <1>9, <1>10 DEF Recorded
<1>12. Reading'
  BY <1>1, <1>5, <1>6 DEF Reading
<1>13. QED
  BY <1>5, <1>6, <1>10, <1>11, <1>12 DEF StoreInv, DropEffect

LEMMA DeleteKeeps ==
  ASSUME StoreInv, NEW s \in Stream, DeleteStream(s)
  PROVE  /\ StoreInv' /\ DropEffect(s, Infinite)
         /\ Written(streams[s]) /\ streams' = [streams EXCEPT ![s] = NoEntry]
         /\ \A e \in EventsOf(Cells(globalLog)) : Dropped(e, s, Infinite) <=> e.stream = s
<1>1. Shape /\ Recorded
  BY DEF StoreInv
<1>2. PICK st : st = [streams EXCEPT ![s] = NoEntry]
  OBVIOUS
<1>3. /\ st \in [Stream -> Entries] /\ st[s] = NoEntry /\ \A t \in Stream \ {s} : st[t] = streams[t]
  <2>1. NoEntry \in Entries
    BY DEF NoEntry, Entries, Nil, Slice
  <2>2. QED
    BY <1>1, <1>2, <2>1 DEF Shape, ShapeIn
<1>4. st[s].events = Nil /\ CellsIn(array, st[s].events) = <<>>
  BY <1>3 DEF NoEntry, CellsIn, Nil
<1>5. /\ MaxPosition \in Nat /\ counter \in Nat /\ counter <= MaxPosition
      /\ Held[s] \in Seq(Event)
      /\ Len(Held[s]) = streams[s].events.len
      /\ Versioned(Held[s], s, Entry(s).first)
      /\ TipOf(Entry(s)) <= counter /\ TipOf(Entry(s)) \in Nat
      /\ Entry(s).first \in Nat
      /\ TipOf(Entry(s)) = Entry(s).first + streams[s].events.len - 1
  BY <1>1, StreamFacts, LogFacts, StoreBounds DEF Entries
<1>6. ASSUME NEW e \in EventsOf(Held[s])
      PROVE  Dropped(e, s, Infinite)
  <2>1. PICK i \in 1 .. Len(Held[s]) : e = Held[s][i]
    BY <1>6 DEF EventsOf
  <2>2. e.stream = s /\ e.version = Entry(s).first + i - 1
    BY <1>5, <2>1 DEF Versioned
  <2>3. Entry(s).first + i - 1 <= MaxPosition + 1
    <3>1. PICK f \in Nat, l \in Nat, m \in Nat :
            f = Entry(s).first /\ l = Len(Held[s]) /\ m = TipOf(Entry(s))
      BY <1>5, LenProperties
    <3>2. m = f + l - 1 /\ m <= MaxPosition /\ i \in 1 .. l
      BY <1>5, <3>1
    <3>3. f + i - 1 <= MaxPosition + 1
      BY <1>5, <3>2
    <3>4. QED
      BY <3>1, <3>3
  <2>4. QED
    BY <2>2, <2>3 DEF Dropped, Infinite
<1>7. EventsOf(CellsIn(array, st[s].events)) = {e \in EventsOf(Held[s]) : ~Dropped(e, s, Infinite)}
  <2>1. EventsOf(<<>>) = {}
    BY DEF EventsOf
  <2>2. QED
    BY <1>4, <1>6, <2>1
<1>8. Versioned(CellsIn(array, st[s].events), s, st[s].first)
  BY <1>4 DEF Versioned
<1>9. Written(streams[s]) /\ UNCHANGED <<counter, yielded>>
  BY DEF DeleteStream
<1>10. Becomes(Compacted(s, Infinite).heap, st, Compacted(s, Infinite).slice, iter)
  BY <1>2 DEF DeleteStream
<1>11. Shortened(st[s].events, streams[s].events)
  BY <1>4 DEF Shortened
<1>12. StoreInv' /\ DropEffect(s, Infinite) /\ streams' = st
  BY <1>3, <1>7, <1>8, <1>9, <1>10, <1>11, DropKeeps
<1>13. ASSUME NEW e \in EventsOf(Cells(globalLog))
       PROVE  Dropped(e, s, Infinite) <=> e.stream = s
  <2>1. {d \in EventsOf(Cells(globalLog)) : d.stream = s} = EventsOf(Held[s])
    BY <1>1 DEF Recorded, RecordedIn, Same
  <2>2. CASE e.stream = s
    BY <1>6, <2>1, <2>2
  <2>3. CASE e.stream # s
    BY <2>3 DEF Dropped
  <2>4. QED
    BY <2>2, <2>3
<1>14. QED
  BY <1>2, <1>9, <1>12, <1>13

\* Where a truncation cuts, and what it removes.
CutOf(s, v) == IF v < TipOf(streams[s]) THEN v ELSE TipOf(streams[s])

LEMMA TruncateKeeps ==
  ASSUME StoreInv, NEW s \in Stream, NEW v \in 1 .. MaxPosition, TruncateStream(s, v)
  PROVE  /\ StoreInv' /\ DropEffect(s, CutOf(s, v))
         /\ Written(streams[s]) /\ Written(streams'[s])
         /\ TipOf(streams'[s]) = TipOf(streams[s])
         /\ CutOf(s, v) \in 1 .. TipOf(streams[s])
<1> DEFINE entry   == streams[s]
           cut     == CutOf(s, v)
           removed == cut - entry.first + 1
           cells   == Held[s]
           next    == Truncated(entry, cut, removed)
<1>1. Shape /\ Recorded
  BY DEF StoreInv
<1>2. Written(entry) /\ Entry(s) = entry
  BY <1>1, StreamFacts DEF TruncateStream
<1>3. /\ entry \in Entries /\ entry.first \in Nat /\ entry.first >= 1
      /\ entry.events \in Slice /\ entry.events.off \in Nat /\ entry.events.len \in Nat
      /\ TipOf(entry) \in 0 .. counter /\ TipOf(entry) = entry.first + entry.events.len - 1
      /\ cells \in Seq(Event) /\ Len(cells) = entry.events.len
      /\ Versioned(cells, s, entry.first)
      /\ Fits(array, entry.events) /\ array \in Memory
      /\ cells = CellsIn(array, entry.events)
      /\ \A i \in 1 .. entry.events.len : cells[i] = array[entry.events.array][entry.events.off + i]
  <2>1. Fits(array, entry.events) /\ array \in Memory
    BY <1>1 DEF Shape, ShapeIn
  <2>2. cells = CellsIn(array, entry.events)
    BY DEF Held, Cells
  <2>3. entry \in Entries /\ entry.first >= 1 /\ TipOf(entry) \in 0 .. counter /\ TipOf(entry) = entry.first + entry.events.len - 1
        /\ cells \in Seq(Event) /\ Len(cells) = entry.events.len /\ Versioned(cells, s, entry.first)
    BY <1>1, <1>2, StreamFacts
  <2>4. \A i \in 1 .. entry.events.len : cells[i] = array[entry.events.array][entry.events.off + i]
    BY <2>1, <2>2, SliceCells
  <2>5. QED
    BY <2>1, <2>2, <2>3, <2>4 DEF Entries, Slice
<1>4. /\ removed > 0 /\ UNCHANGED <<counter, yielded>>
      /\ Becomes(Compacted(s, cut).heap, [streams EXCEPT ![s] = next], Compacted(s, cut).slice, iter)
  BY DEF TruncateStream, CutOf
<1>5. cut \in Nat /\ cut <= TipOf(entry) /\ counter \in Nat
  BY <1>1, <1>3, LogFacts DEF CutOf
<1> DEFINE first == entry.first
           off   == entry.events.off
           len   == entry.events.len
           tip   == TipOf(entry)
<1>6. /\ first \in Nat /\ first >= 1 /\ off \in Nat /\ len \in Nat /\ tip \in 0 .. counter /\ tip = first + len - 1
      /\ cut \in Nat /\ cut <= tip /\ cut - first + 1 > 0
  BY <1>3, <1>4, <1>5
<1>7. next = [first |-> cut + 1, events |-> [entry.events EXCEPT !.off = off + removed, !.len = len - removed]]
  BY DEF Truncated
<1>8. next.first = cut + 1 /\ next.events = [array |-> entry.events.array, off |-> off + removed, len |-> len - removed]
  <2>1. entry.events = [array |-> entry.events.array, off |-> off, len |-> len]
    BY <1>3 DEF Slice
  <2>2. PICK e : e = entry.events
    OBVIOUS
  <2>3. PICK moved : moved = [e EXCEPT !.off = off + removed]
    OBVIOUS
  <2>4. PICK short : short = [moved EXCEPT !.len = len - removed]
    OBVIOUS
  <2>5. next.first = cut + 1 /\ next.events = short
    BY <1>7, <2>2, <2>3, <2>4
  <2> HIDE DEF off, len, removed, cut, next
  <2>6. moved = [array |-> e.array, off |-> off + removed, len |-> len]
    BY <2>1, <2>2, <2>3
  <2>7. short = [array |-> e.array, off |-> off + removed, len |-> len - removed]
    BY <2>4, <2>6
  <2>8. QED
    BY <2>2, <2>5, <2>7
<1> HIDE DEF next, first, off, len, tip, cut, entry
<1>9. /\ removed \in Nat /\ len - removed \in Nat /\ off + removed \in Nat /\ cut + 1 \in Nat /\ cut + 1 >= 1
      /\ (off + removed) + (len - removed) = off + len
      /\ cut + 1 + (len - removed) - 1 = tip
      /\ cut \in 1 .. tip
  BY <1>6 DEF first
<1>10. entry.events.array \in {0} \cup Array /\ entry.events.off = off /\ entry.events.len = len /\ entry.first = first
  BY <1>3 DEF Slice, first, off, len
<1>11. next.events \in Slice /\ next.events.array = entry.events.array /\ End(next.events) = End(entry.events)
       /\ next.events.off = off + removed /\ next.events.len = len - removed
  <2>1. next.events \in Slice /\ next.events.array = entry.events.array
        /\ next.events.off = off + removed /\ next.events.len = len - removed
    BY <1>8, <1>9, <1>10 DEF Slice
  <2>2. End(next.events) = (off + removed) + (len - removed) /\ End(entry.events) = off + len
    BY <1>10, <2>1 DEF End
  <2>3. QED
    BY <1>9, <2>1, <2>2
<1>12. next \in Entries
  BY <1>7, <1>8, <1>9, <1>11 DEF Entries
<1>13. Fits(array, next.events)
  BY <1>3, <1>11 DEF Fits
<1> DEFINE rest == CellsIn(array, next.events)
<1>14. /\ rest \in Seq(Event) /\ Len(rest) = len - removed
       /\ \A i \in 1 .. len - removed : rest[i] = array[entry.events.array][(off + removed) + i]
  <2>1. /\ rest \in Seq(Event) /\ Len(rest) = next.events.len
        /\ \A i \in 1 .. next.events.len : rest[i] = array[next.events.array][next.events.off + i]
    BY <1>3, <1>13, SliceCells
  <2> HIDE DEF rest
  <2>2. QED
    BY <1>11, <2>1
<1>15. \A i \in 1 .. len : cells[i] = array[entry.events.array][off + i]
  BY <1>3, <1>10
<1>16. Len(cells) = len
  BY <1>3, <1>10
<1> HIDE DEF rest
<1>17. ASSUME NEW i \in 1 .. len - removed
       PROVE  removed + i \in 1 .. len /\ rest[i] = cells[removed + i]
  <2>1. removed + i \in 1 .. len /\ off + (removed + i) = (off + removed) + i
    BY <1>6, <1>9
  <2>2. QED
    BY <1>14, <1>15, <2>1
<1>18. ASSUME NEW i \in 1 .. len
       PROVE  cells[i].stream = s /\ cells[i].version = first + i - 1
  BY <1>3, <1>16, <1>10 DEF Versioned
<1>19. Versioned(rest, s, next.first)
  <2>1. ASSUME NEW i \in 1 .. len - removed
        PROVE  rest[i].stream = s /\ rest[i].version = cut + 1 + i - 1
    <3>1. removed + i \in 1 .. len /\ rest[i] = cells[removed + i]
      BY <1>17
    <3>2. rest[i].stream = s /\ rest[i].version = first + (removed + i) - 1
      BY <1>18, <3>1
    <3>3. first + (removed + i) - 1 = cut + 1 + i - 1
      BY <1>6, <1>10
    <3>4. QED
      BY <3>2, <3>3
  <2>2. QED
    BY <1>8, <1>14, <2>1 DEF Versioned
<1>20. EventsOf(rest) = {e \in EventsOf(cells) : ~Dropped(e, s, cut)}
  <2>1. EventsOf(cells) = {cells[i] : i \in 1 .. len}
    BY <1>16 DEF EventsOf
  <2>2. ASSUME NEW i \in 1 .. len
        PROVE  Dropped(cells[i], s, cut) <=> i <= removed
    <3>1. cells[i].stream = s /\ cells[i].version = first + i - 1
      BY <1>18
    <3>2. first + i - 1 <= cut <=> i <= removed
      BY <1>6, <1>10
    <3>3. QED
      BY <3>1, <3>2 DEF Dropped
  <2>3. ASSUME NEW i \in 1 .. len - removed
        PROVE  rest[i] \in EventsOf(cells) /\ ~Dropped(rest[i], s, cut)
    <3>1. removed + i \in 1 .. len /\ rest[i] = cells[removed + i]
      BY <1>17
    <3>2. ~(removed + i <= removed)
      BY <1>9
    <3>3. QED
      BY <2>1, <2>2, <3>1, <3>2
  <2>4. ASSUME NEW i \in 1 .. len, ~Dropped(cells[i], s, cut)
        PROVE  \E j \in 1 .. len - removed : rest[j] = cells[i]
    <3>1. ~(i <= removed)
      BY <2>2, <2>4
    <3>2. i - removed \in 1 .. len - removed /\ removed + (i - removed) = i
      BY <1>6, <1>9, <3>1
    <3>3. rest[i - removed] = cells[i]
      BY <1>17, <3>2
    <3>4. QED
      BY <3>2, <3>3
  <2>5. EventsOf(rest) = {rest[i] : i \in 1 .. len - removed}
    BY <1>14 DEF EventsOf
  <2>6. QED
    BY <2>1, <2>3, <2>4, <2>5
<1>21. TipOf(next) = tip
  <2>1. TipOf(next) = cut + 1 + (len - removed) - 1
    BY <1>8, <1>11 DEF TipOf
  <2>2. QED
    BY <1>9, <2>1
<1>22. PICK st : st = [streams EXCEPT ![s] = next]
  OBVIOUS
<1>23. st \in [Stream -> Entries] /\ st[s] = next /\ \A t \in Stream \ {s} : st[t] = streams[t]
  BY <1>1, <1>12, <1>22 DEF Shape, ShapeIn
<1>24. Shortened(st[s].events, streams[s].events)
  BY <1>11, <1>23 DEF Shortened, entry
<1>25. st[s].first >= 1 /\ TipOf(st[s]) <= counter
  <2>1. tip <= counter
    BY <1>5, <1>6
  <2>2. QED
    BY <1>8, <1>9, <1>21, <1>23, <2>1
<1>26. /\ Versioned(CellsIn(array, st[s].events), s, st[s].first)
       /\ EventsOf(CellsIn(array, st[s].events)) = {e \in EventsOf(Held[s]) : ~Dropped(e, s, cut)}
  BY <1>19, <1>20, <1>23 DEF rest
<1>27. Becomes(Compacted(s, cut).heap, st, Compacted(s, cut).slice, iter)
  BY <1>4, <1>22
<1>28. StoreInv' /\ DropEffect(s, cut) /\ streams' = st
  BY <1>4, <1>23, <1>24, <1>25, <1>26, <1>27, DropKeeps
<1>29. Written(next)
  <2>1. next.first # 1 /\ next.first # 0
    BY <1>8, <1>9
  <2>2. QED
    BY <2>1 DEF Written, NoEntry
<1>30. QED
  BY <1>2, <1>9, <1>21, <1>23, <1>28, <1>29 DEF cut, tip, entry

-----------------------------------------------------------------------------
(* Reads.                                                                   *)

\* What opening or closing an iterator changes.
IterEffect(r, it, cells) ==
  /\ counter' = counter /\ yielded' = yielded /\ streams' = streams /\ globalLog' = globalLog
  /\ Cells(globalLog)' = Cells(globalLog)
  /\ iter' = [iter EXCEPT ![r] = it]
  /\ it \in Iterator /\ SoundIterator(it)
  /\ cells \in Seq(Event) /\ Len(cells) = it.events.len
  /\ Read'[r] = cells
  /\ \A q \in Reader \ {r} : Read'[q] = Read[q]

LEMMA IteratorKeeps ==
  ASSUME StoreInv, NEW r \in Reader, NEW it \in Iterator, SoundIterator(it),
         NEW heap \in Memory, OnlyAt(Fresh, array, heap),
         Fits(heap, it.events), it.events.array # globalLog.array,
         \A s \in Stream : Clear(it.events, streams[s].events),
         Below(CellsIn(heap, it.events), counter),
         Becomes(heap, streams, globalLog, [iter EXCEPT ![r] = it]),
         UNCHANGED <<counter, yielded>>
  PROVE  StoreInv' /\ IterEffect(r, it, CellsIn(heap, it.events))
<1>1. Shape /\ Apart /\ Recorded /\ Reading
  BY DEF StoreInv
<1>2. /\ array \in Memory /\ iter \in [Reader -> Iterator] /\ streams \in [Stream -> Entries]
      /\ Fits(array, globalLog) /\ globalLog.array # 0 /\ globalLog.off = 0
      /\ \A s \in Stream : Fits(array, streams[s].events)
      /\ \A q \in Reader : Fits(array, iter[q].events)
  BY <1>1 DEF Shape, ShapeIn
<1>3. PICK next : next = [iter EXCEPT ![r] = it]
  OBVIOUS
<1>4. next \in [Reader -> Iterator] /\ next[r] = it /\ \A q \in Reader \ {r} : next[q] = iter[q]
  BY <1>2, <1>3
<1>5. Fits(heap, globalLog) /\ CellsIn(heap, globalLog) = Cells(globalLog)
  BY <1>2, FreshArray, SameArrays DEF Cells
<1>6. ASSUME NEW s \in Stream
      PROVE  Fits(heap, streams[s].events) /\ CellsIn(heap, streams[s].events) = Held[s]
  <2>1. Fits(heap, streams[s].events) /\ CellsIn(heap, streams[s].events) = CellsIn(array, streams[s].events)
    BY <1>2, FreshArray, SameArrays
  <2>2. QED
    BY <2>1 DEF Held, Cells
<1>7. ASSUME NEW q \in Reader
      PROVE  Fits(heap, iter[q].events) /\ CellsIn(heap, iter[q].events) = Read[q]
  <2>1. Fits(heap, iter[q].events) /\ CellsIn(heap, iter[q].events) = CellsIn(array, iter[q].events)
    BY <1>2, FreshArray, SameArrays
  <2>2. QED
    BY <2>1 DEF Read, Cells
<1>8. \A q \in Reader : Fits(heap, next[q].events)
  BY <1>4, <1>7
<1>9. ShapeIn(heap, streams, globalLog, next)
  BY <1>2, <1>4, <1>5, <1>6, <1>8 DEF ShapeIn
<1>10. ApartIn(streams, globalLog, next)
  <2>1. \A q \in Reader : next[q].events.array # globalLog.array
    BY <1>1, <1>4 DEF Apart, ApartIn
  <2>2. \A s \in Stream, q \in Reader : Clear(next[q].events, streams[s].events)
    BY <1>1, <1>4 DEF Apart, ApartIn
  <2>3. QED
    BY <1>1, <2>1, <2>2 DEF Apart, ApartIn
<1>11. Becomes(heap, streams, globalLog, next)
  BY <1>3
<1>12. /\ Shape' /\ Apart'
       /\ streams' = streams /\ globalLog' = globalLog /\ iter' = next
       /\ Cells(globalLog)' = CellsIn(heap, globalLog)
       /\ Held' = [s \in Stream |-> CellsIn(heap, streams[s].events)]
       /\ Read' = [q \in Reader |-> CellsIn(heap, next[q].events)]
  BY <1>9, <1>10, <1>11, MemoryStep
<1>13. Held' = Held
  BY <1>6, <1>12 DEF Held
<1>14. Read'[r] = CellsIn(heap, it.events) /\ \A q \in Reader \ {r} : Read'[q] = Read[q]
  BY <1>4, <1>7, <1>12
<1>15. Recorded'
  BY <1>1, <1>5, <1>12, <1>13 DEF Recorded
<1>16. Reading'
  <2>1. ReadingIn(counter, iter, Read)
    BY <1>1 DEF Reading
  <2>2. \A q \in Reader : SoundIterator(next[q]) /\ Below(Read'[q], counter)
    BY <1>4, <1>14, <2>1 DEF ReadingIn
  <2>3. QED
    BY <1>12, <2>2 DEF Reading, ReadingIn
<1>17. CellsIn(heap, it.events) \in Seq(Event) /\ Len(CellsIn(heap, it.events)) = it.events.len
  BY SliceCells
<1>18. QED
  BY <1>3, <1>5, <1>12, <1>14, <1>15, <1>16, <1>17 DEF StoreInv, IterEffect

\* The iterators that the three operations leave.
StreamIterator(s, after, count, reverse) ==
  [NoIterator EXCEPT
     !.open = TRUE, !.events = streams[s].events, !.reverse = reverse, !.limit = count,
     !.cursor = IF reverse THEN ReverseCursor(streams[s], after)
                ELSE ForwardCursor(streams[s], after)]
GlobalIterator(slice, count) ==
  [NoIterator EXCEPT !.open = TRUE, !.global = TRUE, !.limit = count, !.events = slice]

LEMMA NilClear ==
  ASSUME NEW heap \in Memory
  PROVE  /\ Fits(heap, Nil) /\ CellsIn(heap, Nil) = <<>>
         /\ \A z : Fits(heap, z) => Clear(Nil, z)
<1>1. Nil \in Slice /\ Nil.array = 0 /\ End(Nil) = 0
  BY DEF Nil, Slice, End
<1>2. \A z : Fits(heap, z) => End(z) \in Nat
  BY DEF Fits, Slice, End
<1>3. QED
  BY <1>1, <1>2 DEF Fits, Clear, CellsIn

LEMMA NoIteratorSound == NoIterator \in Iterator /\ SoundIterator(NoIterator)
<1>1. NoIterator \in Iterator
  BY DEF NoIterator, Iterator, Nil, Slice
<1>2. QED
  BY <1>1 DEF SoundIterator, NoIterator

LEMMA CloseKeeps ==
  ASSUME StoreInv, NEW r \in Reader, Close(r)
  PROVE  StoreInv' /\ IterEffect(r, NoIterator, <<>>)
<1>1. array \in Memory /\ globalLog.array # 0 /\ \A s \in Stream : Fits(array, streams[s].events)
  BY DEF StoreInv, Shape, ShapeIn
<1>2. NoIterator.events = Nil /\ Nil.array = 0
  BY DEF NoIterator, Nil
<1>3. Below(<<>>, counter)
  BY DEF Below
<1>4. OnlyAt(Fresh, array, array)
  BY DEF OnlyAt
<1>5. /\ Becomes(array, streams, globalLog, [iter EXCEPT ![r] = NoIterator])
      /\ UNCHANGED <<counter, yielded>>
  BY DEF Close
<1>6. /\ Fits(array, NoIterator.events) /\ NoIterator.events.array # globalLog.array
      /\ \A s \in Stream : Clear(NoIterator.events, streams[s].events)
      /\ CellsIn(array, NoIterator.events) = <<>>
  BY <1>1, <1>2, NilClear
<1>7. QED
  BY <1>1, <1>3, <1>4, <1>5, <1>6, NoIteratorSound, IteratorKeeps

\* The cursors of a read: what a fresh iterator on a stream consists of.
StartsOn(it, s, after, count, reverse) ==
  /\ it \in Iterator /\ SoundIterator(it)
  /\ it.open /\ ~it.global /\ it.events = streams[s].events
  /\ it.reverse = reverse /\ it.limit = count /\ it.retrieved = 0
  /\ it.cursor = IF reverse THEN ReverseCursor(streams[s], after)
                 ELSE ForwardCursor(streams[s], after)

LEMMA CursorType ==
  ASSUME StoreInv, NEW s \in Stream, NEW after \in Nat, NEW count \in Nat, NEW reverse \in BOOLEAN
  PROVE  StartsOn(StreamIterator(s, after, count, reverse), s, after, count, reverse)
<1> DEFINE cursor == IF reverse THEN ReverseCursor(streams[s], after) ELSE ForwardCursor(streams[s], after)
<1>1. streams[s] \in Entries /\ streams[s].first \in Nat /\ streams[s].events \in Slice /\ streams[s].events.len \in Nat
  BY DEF StoreInv, Shape, ShapeIn, Entries, Slice
<1>2. /\ ForwardCursor(streams[s], after) \in Nat
      /\ ReverseCursor(streams[s], after) \in Int
      /\ ReverseCursor(streams[s], after) < streams[s].events.len
  BY <1>1 DEF ForwardCursor, ReverseCursor
<1>3. cursor \in Int /\ (~reverse => cursor >= 0) /\ (reverse => cursor < streams[s].events.len)
  BY <1>2
<1>4. PICK it : it = StreamIterator(s, after, count, reverse)
  OBVIOUS
<1>5. it = [open |-> TRUE, global |-> FALSE, events |-> streams[s].events, cursor |-> cursor,
            reverse |-> reverse, limit |-> count, retrieved |-> 0]
  BY <1>4 DEF StreamIterator, NoIterator
<1> HIDE DEF cursor
<1>6. it \in Iterator
  BY <1>1, <1>3, <1>5 DEF Iterator
<1>7. SoundIterator(it)
  BY <1>3, <1>5 DEF SoundIterator
<1>8. StartsOn(it, s, after, count, reverse)
  BY <1>5, <1>6, <1>7 DEF cursor, StartsOn
<1>9. QED
  BY <1>4, <1>8

LEMMA ReadStreamKeeps ==
  ASSUME StoreInv, NEW r \in Reader, NEW s \in Stream, NEW after \in Nat, NEW count \in Nat,
         NEW reverse \in BOOLEAN, ReadStream(r, s, after, count, reverse)
  PROVE  StoreInv' /\ IterEffect(r, StreamIterator(s, after, count, reverse), Held[s])
<1>1. PICK it : it = StreamIterator(s, after, count, reverse)
  OBVIOUS
<1>2. it \in Iterator /\ SoundIterator(it) /\ it.events = streams[s].events
  <2>1. StartsOn(it, s, after, count, reverse)
    BY <1>1, CursorType
  <2>2. QED
    BY <2>1 DEF StartsOn
<1>3. /\ Becomes(array, streams, globalLog, [iter EXCEPT ![r] = it])
      /\ UNCHANGED <<counter, yielded>>
  BY <1>1 DEF ReadStream, StreamIterator
<1>4. array \in Memory /\ \A t \in Stream : Fits(array, streams[t].events)
  BY DEF StoreInv, Shape, ShapeIn
<1>5. Held[s] = CellsIn(array, it.events)
  BY <1>2 DEF Held, Cells
<1>6. it.events.array # globalLog.array
  BY <1>2 DEF StoreInv, Apart, ApartIn
<1>7. ASSUME NEW t \in Stream
      PROVE  Clear(it.events, streams[t].events)
  <2>1. CASE t = s
    <3>1. End(streams[s].events) \in Nat
      BY <1>4 DEF Fits, Slice, End
    <3>2. QED
      BY <1>2, <2>1, <3>1 DEF Clear
  <2>2. CASE t # s
    BY <1>2, <2>2, OthersClear
  <2>3. QED
    BY <2>1, <2>2
<1>8. Below(Held[s], counter)
  <2>1. {e \in EventsOf(Cells(globalLog)) : e.stream = s} = EventsOf(Held[s])
    BY DEF StoreInv, Recorded, RecordedIn, Same
  <2>2. \A e \in EventsOf(Cells(globalLog)) : e.position \in 1 .. counter
    BY DEF StoreInv, Recorded, RecordedIn, Below, EventsOf
  <2>3. \A i \in 1 .. Len(Held[s]) : Held[s][i] \in EventsOf(Held[s])
    BY DEF EventsOf
  <2>4. QED
    BY <2>1, <2>2, <2>3 DEF Below
<1>9. OnlyAt(Fresh, array, array)
  BY DEF OnlyAt
<1>10. StoreInv' /\ IterEffect(r, it, CellsIn(array, it.events))
  BY <1>2, <1>3, <1>4, <1>5, <1>6, <1>7, <1>8, <1>9, IteratorKeeps
<1>11. QED
  BY <1>1, <1>5, <1>10

LEMMA ReadAllKeeps ==
  ASSUME StoreInv, NEW r \in Reader, NEW after \in Nat, NEW count \in Nat, ReadAll(r, after, count)
  PROVE  /\ StoreInv'
         /\ IterEffect(r, GlobalIterator(Captured(after).slice, count), Above(after))
         /\ Captured(after).slice.len = Len(Above(after))
<1>1. Shape /\ Recorded /\ array \in Memory /\ \A t \in Stream : Fits(array, streams[t].events)
  BY DEF StoreInv, Shape, ShapeIn
<1>2. /\ Above(after) \in Seq(Event)
      /\ Len(Above(after)) = globalLog.len - Start(after)
      /\ \A i \in 1 .. globalLog.len - Start(after) :
           Above(after)[i] = Cells(globalLog)[Start(after) + i]
      /\ Start(after) \in 0 .. globalLog.len
  BY <1>1, LogFacts, StartProperties, AboveProperties DEF Recorded, RecordedIn
<1>3. Len(Above(after)) \in Nat
  BY <1>2, LenProperties
<1>4. PICK heap : heap = [array EXCEPT ![Fresh] = Above(after)]
  OBVIOUS
<1>5. heap \in Memory /\ heap[Fresh] = Above(after) /\ OnlyAt(Fresh, array, heap)
  <2>1. array \in Memory /\ Above(after) \in Seq(Event) /\ Fresh \in Array
    BY <1>1, <1>2, FreshArray
  <2>2. QED
    BY <1>4, <2>1, MemoryUpdate
<1>6. PICK z : z = [array |-> Fresh, off |-> 0, len |-> Len(Above(after))]
  OBVIOUS
<1>7. z \in Slice /\ z.array = Fresh /\ z.array # 0 /\ z.off = 0 /\ z.len = Len(Above(after))
  BY <1>3, <1>6, FreshArray, ArrayType DEF Slice
<1>8. Fits(heap, z)
  BY <1>3, <1>5, <1>7 DEF Fits, End
<1>9. CellsIn(heap, z) = Above(after)
  <2>1. /\ CellsIn(heap, z) \in Seq(Event) /\ Len(CellsIn(heap, z)) = z.len
        /\ \A i \in 1 .. z.len : CellsIn(heap, z)[i] = heap[z.array][z.off + i]
    BY <1>5, <1>8, SliceCells
  <2>2. \A i \in 1 .. z.len : CellsIn(heap, z)[i] = Above(after)[i]
    BY <1>3, <1>5, <1>7, <2>1
  <2>3. QED
    BY <1>2, <1>7, <2>1, <2>2, SeqEqual
<1>10. Captured(after).heap = heap /\ Captured(after).slice = z
  BY <1>4, <1>6 DEF Captured
<1>11. PICK it : it = GlobalIterator(z, count)
  OBVIOUS
<1>12. it = [open |-> TRUE, global |-> TRUE, events |-> z, cursor |-> 0,
             reverse |-> FALSE, limit |-> count, retrieved |-> 0]
  BY <1>11 DEF GlobalIterator, NoIterator
<1>13. it \in Iterator /\ it.events = z
  BY <1>7, <1>12 DEF Iterator
<1>14. SoundIterator(it)
  BY <1>12 DEF SoundIterator
<1>15. /\ Becomes(heap, streams, globalLog, [iter EXCEPT ![r] = it])
       /\ UNCHANGED <<counter, yielded>>
  BY <1>10, <1>11 DEF ReadAll, GlobalIterator
<1>16. it.events.array # globalLog.array /\ \A s \in Stream : Clear(it.events, streams[s].events)
  BY <1>7, <1>13, FreshArray DEF Clear
<1>17. Below(Above(after), counter)
  <2>1. ASSUME NEW i \in 1 .. Len(Above(after))
        PROVE  Above(after)[i].position \in 1 .. counter
    <3>1. Start(after) + i \in 1 .. Len(Cells(globalLog)) /\ i \in 1 .. globalLog.len - Start(after)
      BY <1>1, <1>2, LogFacts
    <3>2. QED
      BY <1>1, <1>2, <3>1 DEF Recorded, RecordedIn, Below
  <2>2. QED
    BY <2>1 DEF Below
<1>18. StoreInv' /\ IterEffect(r, it, CellsIn(heap, it.events))
  <2>1. Fits(heap, it.events) /\ Below(CellsIn(heap, it.events), counter)
    BY <1>8, <1>9, <1>13, <1>17
  <2>2. QED
    BY <1>5, <1>13, <1>14, <1>15, <1>16, <2>1, IteratorKeeps
<1>19. QED
  BY <1>7, <1>9, <1>10, <1>11, <1>13, <1>18

\* The iterator behind the event it yields.
Advanced(it) ==
  [it EXCEPT !.cursor = IF it.reverse THEN @ - 1 ELSE @ + 1, !.retrieved = @ + 1]

AdvanceEffect(r) ==
  /\ counter' = counter /\ streams' = streams /\ globalLog' = globalLog /\ array' = array
  /\ iter' = [iter EXCEPT ![r] = Advanced(iter[r])]
  /\ Read' = Read

LEMMA AdvancedType ==
  ASSUME NEW it \in Iterator, SoundIterator(it), ~Exhausted(it), it.open, it.events.len \in Nat
  PROVE  /\ Advanced(it) \in Iterator /\ SoundIterator(Advanced(it))
         /\ Advanced(it).events = it.events /\ Advanced(it).open
         /\ Advanced(it).reverse = it.reverse /\ Advanced(it).limit = it.limit
         /\ Advanced(it).cursor = IF it.reverse THEN it.cursor - 1 ELSE it.cursor + 1
         /\ Advanced(it).retrieved = it.retrieved + 1
         /\ it.cursor \in 0 .. it.events.len - 1
<1>1. /\ it.cursor \in Int /\ it.retrieved \in Nat /\ it.limit \in Nat /\ it.reverse \in BOOLEAN
      /\ it.events \in Slice /\ it.global \in BOOLEAN
  BY DEF Iterator
<1>2. PICK next : next = Advanced(it)
  OBVIOUS
<1>3. it = [open |-> it.open, global |-> it.global, events |-> it.events, cursor |-> it.cursor,
            reverse |-> it.reverse, limit |-> it.limit, retrieved |-> it.retrieved]
  BY DEF Iterator
<1>4. next = [open |-> it.open, global |-> it.global, events |-> it.events,
              cursor |-> IF it.reverse THEN it.cursor - 1 ELSE it.cursor + 1,
              reverse |-> it.reverse, limit |-> it.limit, retrieved |-> it.retrieved + 1]
  BY <1>2, <1>3 DEF Advanced
<1>5. /\ next.open = it.open /\ next.global = it.global /\ next.events = it.events
      /\ next.cursor = (IF it.reverse THEN it.cursor - 1 ELSE it.cursor + 1)
      /\ next.reverse = it.reverse /\ next.limit = it.limit /\ next.retrieved = it.retrieved + 1
  BY <1>4
<1>6. next \in Iterator
  BY <1>1, <1>4 DEF Iterator
<1>7. /\ it.cursor \in 0 .. it.events.len - 1
      /\ it.limit > 0 => it.retrieved + 1 <= it.limit
  BY <1>1 DEF Exhausted, SoundIterator
<1>8. SoundIterator(next)
  <2>1. ~next.reverse => next.cursor >= 0
    BY <1>1, <1>5, <1>7
  <2>2. next.reverse => next.cursor < next.events.len
    BY <1>1, <1>5, <1>7
  <2>3. QED
    BY <1>5, <1>7, <2>1, <2>2 DEF SoundIterator
<1>9. QED
  BY <1>2, <1>5, <1>6, <1>7, <1>8

LEMMA NextKeeps ==
  ASSUME StoreInv, NEW r \in Reader, NextEvent(r)
  PROVE  StoreInv' /\ AdvanceEffect(r)
<1>1. Shape /\ Apart /\ Recorded /\ Reading
  BY DEF StoreInv
<1>2. /\ iter[r] \in Iterator /\ SoundIterator(iter[r]) /\ ~Exhausted(iter[r]) /\ iter[r].open
      /\ iter[r].events.len \in Nat /\ Len(Read[r]) = iter[r].events.len
      /\ Below(Read[r], counter) /\ Read[r] = Cells(iter[r].events)
  BY <1>1, ReaderFacts DEF NextEvent
<1>3. /\ Advanced(iter[r]) \in Iterator /\ SoundIterator(Advanced(iter[r]))
      /\ Advanced(iter[r]).events = iter[r].events
      /\ iter[r].cursor \in 0 .. iter[r].events.len - 1
  BY <1>2, AdvancedType
<1>4. iter \in [Reader -> Iterator]
  BY <1>1 DEF Shape, ShapeIn
<1>5. iter' = [iter EXCEPT ![r] = Advanced(iter[r])]
  BY <1>4 DEF NextEvent, Advanced
<1>6. iter' \in [Reader -> Iterator] /\ iter'[r] = Advanced(iter[r]) /\ \A q \in Reader \ {r} : iter'[q] = iter[q]
  BY <1>3, <1>4, <1>5
<1>7. \A q \in Reader : iter'[q].events = iter[q].events
  BY <1>3, <1>6
<1>8. UNCHANGED <<counter, streams, globalLog, array>>
  BY DEF NextEvent
<1>9. Read' = Read
  BY <1>7, <1>8 DEF Read, Cells
<1>10. Held' = Held /\ Cells(globalLog)' = Cells(globalLog)
  BY <1>8 DEF Held, Cells
<1>11. Shape'
  BY <1>1, <1>6, <1>7, <1>8 DEF Shape, ShapeIn
<1>12. Apart'
  BY <1>1, <1>7, <1>8 DEF Apart, ApartIn
<1>13. yielded' \in 0 .. counter
  <2>1. Current(iter[r]).position \in 1 .. counter
    <3>1. iter[r].cursor + 1 \in 1 .. Len(Read[r])
      BY <1>2, <1>3
    <3>2. QED
      BY <1>2, <3>1 DEF Below, Current
  <2>2. yielded \in 0 .. counter /\ counter \in Nat
    BY <1>1, LogFacts
  <2>3. yielded' = IF iter[r].global /\ Current(iter[r]).position > yielded
                     THEN Current(iter[r]).position ELSE yielded
    BY DEF NextEvent
  <2>4. QED
    BY <2>1, <2>2, <2>3
<1>14. Recorded'
  BY <1>1, <1>8, <1>10, <1>13 DEF Recorded
<1>15. Reading'
  <2>1. \A q \in Reader : SoundIterator(iter'[q]) /\ Below(Read[q], counter)
    BY <1>1, <1>3, <1>6 DEF Reading, ReadingIn
  <2>2. QED
    BY <1>8, <1>9, <2>1 DEF Reading, ReadingIn
<1>16. QED
  BY <1>5, <1>8, <1>9, <1>11, <1>12, <1>14, <1>15 DEF StoreInv, AdvanceEffect

-----------------------------------------------------------------------------
(* The invariant.                                                           *)

LEMMA StoreInit ==
  ASSUME Init
  PROVE  StoreInv
<1>1. /\ counter = 0 /\ yielded = 0
      /\ streams = [s \in Stream |-> NoEntry]
      /\ globalLog = [array |-> 1, off |-> 0, len |-> 0]
      /\ iter = [r \in Reader |-> NoIterator]
      /\ array = [a \in Array |-> <<>>]
  BY DEF Init
<1>2. Cardinality(Stream) \in Nat /\ Cardinality(Reader) \in Nat
  BY FiniteClients, FS_CardinalityType
<1>3. 1 \in Array
  BY <1>2 DEF Array
<1>4. array \in Memory
  <2>1. <<>> \in Seq(Event)
    BY EmptySeq
  <2>2. QED
    BY <1>1, <2>1 DEF Memory
<1>5. NoEntry \in Entries /\ NoEntry.events = Nil
  BY DEF NoEntry, Entries, Nil, Slice
<1>6. Fits(array, Nil) /\ CellsIn(array, Nil) = <<>> /\ Clear(Nil, Nil) /\ Nil.array = 0
  BY <1>4, NilClear DEF Nil
<1>7. /\ globalLog \in Slice /\ globalLog.array = 1 /\ globalLog.off = 0 /\ globalLog.len = 0
      /\ End(globalLog) = 0
  BY <1>1, <1>3 DEF Slice, End
<1>8. Fits(array, globalLog)
  <2>1. array[1] = <<>> /\ Len(array[1]) = 0
    BY <1>1, <1>3
  <2>2. QED
    BY <1>7, <2>1 DEF Fits
<1>9. Cells(globalLog) \in Seq(Event) /\ Len(Cells(globalLog)) = 0
  BY <1>4, <1>7, <1>8, SliceCells DEF Cells
<1>10. \A s \in Stream : streams[s] = NoEntry /\ streams[s].events = Nil
  BY <1>1, <1>5
<1>11. \A r \in Reader : iter[r] = NoIterator /\ iter[r].events = Nil
  BY <1>1 DEF NoIterator
<1>12. Shape
  BY <1>1, <1>4, <1>5, <1>6, <1>7, <1>8, <1>10, <1>11, NoIteratorSound DEF Shape, ShapeIn
<1>13. Apart
  BY <1>6, <1>7, <1>10, <1>11 DEF Apart, ApartIn
<1>14. (\A s \in Stream : Held[s] = <<>>) /\ (\A r \in Reader : Read[r] = <<>>)
  BY <1>6, <1>10, <1>11 DEF Held, Read, Cells
<1>15. EventsOf(<<>>) = {} /\ EventsOf(Cells(globalLog)) = {}
  BY <1>9 DEF EventsOf
<1>16. Recorded
  <2>1. Same(Cells(globalLog), Held)
    BY <1>14, <1>15 DEF Same
  <2>2. Ordered(Cells(globalLog)) /\ Below(Cells(globalLog), counter)
    BY <1>9 DEF Ordered, Below
  <2>3. \A s \in Stream : streams[s] = NoEntry /\ Versioned(Held[s], s, streams[s].first)
    BY <1>10, <1>14 DEF Versioned
  <2>4. counter \in 0 .. MaxPosition /\ yielded \in 0 .. counter
    BY <1>1, StoreBounds
  <2>5. QED
    BY <2>1, <2>2, <2>3, <2>4 DEF Recorded, RecordedIn
<1>17. Reading
  <2>1. \A r \in Reader : SoundIterator(iter[r]) /\ Below(Read[r], counter)
    BY <1>11, <1>14, NoIteratorSound DEF Below
  <2>2. QED
    BY <2>1 DEF Reading, ReadingIn
<1>18. QED
  BY <1>12, <1>13, <1>16, <1>17 DEF StoreInv

\* A refused append writes like a failed one of no events.
LEMMA RefusedKeeps ==
  ASSUME StoreInv, NEW s \in Stream, NEW expect, AppendRefused(s, expect)
  PROVE  StoreInv' /\ MarkEffect(s, 0)
<1>1. counter \in Nat /\ counter <= MaxPosition
  BY LogFacts DEF StoreInv
<1>2. counter + 0 <= MaxPosition /\ counter' = counter + 0 /\ yielded' = yielded
      /\ Becomes(array, [streams EXCEPT ![s] = Entry(s)], globalLog, iter)
  BY <1>1 DEF AppendRefused
<1>3. QED
  BY <1>2, MarkKeeps

LEMMA FailsKeeps ==
  ASSUME StoreInv, NEW s \in Stream, NEW n \in Nat, NEW expect, AppendFails(s, n, expect)
  PROVE  StoreInv' /\ MarkEffect(s, n)
BY MarkKeeps DEF AppendFails

\* What a step of the store is, each with what it changes.
Appends == \E s \in Stream : \E n \in 0 .. MaxBatch : AppendEffect(s, n)
Marks   == \E s \in Stream : \E n \in 0 .. MaxBatch : MarkEffect(s, n)
Deletes ==
  \E s \in Stream :
    /\ DropEffect(s, Infinite)
    /\ Written(streams[s]) /\ streams' = [streams EXCEPT ![s] = NoEntry]
    /\ \A e \in EventsOf(Cells(globalLog)) : Dropped(e, s, Infinite) <=> e.stream = s
Truncates ==
  \E s \in Stream : \E v \in 1 .. MaxPosition :
    /\ DropEffect(s, CutOf(s, v))
    /\ Written(streams[s]) /\ Written(streams'[s])
    /\ TipOf(streams'[s]) = TipOf(streams[s])
    /\ CutOf(s, v) \in 1 .. TipOf(streams[s])
OpensStream ==
  \E r \in Reader, s \in Stream, after \in 0 .. MaxPosition, count \in 0 .. MaxCount, reverse \in BOOLEAN :
    /\ Written(streams[s])
    /\ IterEffect(r, StreamIterator(s, after, count, reverse), Held[s])
OpensAll ==
  \E r \in Reader, after \in 0 .. MaxPosition, count \in 0 .. MaxCount :
    /\ IterEffect(r, GlobalIterator(Captured(after).slice, count), Above(after))
    /\ Captured(after).slice.len = Len(Above(after))
Advances ==
  \E r \in Reader : iter[r].open /\ ~Exhausted(iter[r]) /\ AdvanceEffect(r)
Closes ==
  \E r \in Reader : IterEffect(r, NoIterator, <<>>)

Step ==
  \/ Appends \/ Marks \/ Deletes \/ Truncates
  \/ OpensStream \/ OpensAll \/ Advances \/ Closes

LEMMA WritesKeep ==
  ASSUME StoreInv, NEW s \in Stream, Writes(s)
  PROVE  StoreInv' /\ Step
<1>1. 0 .. MaxBatch \subseteq Nat /\ 1 .. MaxBatch \subseteq 0 .. MaxBatch /\ 0 \in 0 .. MaxBatch
  BY StoreBounds
<1>2. ASSUME NEW n \in 0 .. MaxBatch, NEW expect \in Expectation, AppendStream(s, n, expect)
      PROVE  StoreInv' /\ Appends
  BY <1>1, <1>2, AppendKeeps DEF Appends
<1>3. ASSUME NEW expect \in Expectation, AppendRefused(s, expect)
      PROVE  StoreInv' /\ Marks
  BY <1>1, <1>3, RefusedKeeps DEF Marks
<1>4. ASSUME NEW n \in 1 .. MaxBatch, NEW expect \in Expectation, AppendFails(s, n, expect)
      PROVE  StoreInv' /\ Marks
  BY <1>1, <1>4, FailsKeeps DEF Marks
<1>5. ASSUME DeleteStream(s)
      PROVE  StoreInv' /\ Deletes
  BY <1>5, DeleteKeeps DEF Deletes
<1>6. ASSUME NEW v \in 1 .. MaxPosition, TruncateStream(s, v)
      PROVE  StoreInv' /\ Truncates
  BY <1>6, TruncateKeeps DEF Truncates
<1>7. QED
  BY <1>2, <1>3, <1>4, <1>5, <1>6 DEF Writes, Step

LEMMA ReadsKeep ==
  ASSUME StoreInv, NEW r \in Reader, Reads(r)
  PROVE  StoreInv' /\ Step
<1>1. 0 .. MaxPosition \subseteq Nat /\ 0 .. MaxCount \subseteq Nat
  BY StoreBounds
<1>2. ASSUME NEW s \in Stream, NEW after \in 0 .. MaxPosition, NEW count \in 0 .. MaxCount,
             NEW reverse \in BOOLEAN, ReadStream(r, s, after, count, reverse)
      PROVE  StoreInv' /\ OpensStream
  <2>1. Written(streams[s])
    BY <1>2 DEF ReadStream
  <2>2. StoreInv' /\ IterEffect(r, StreamIterator(s, after, count, reverse), Held[s])
    BY <1>1, <1>2, ReadStreamKeeps
  <2>3. QED
    BY <2>1, <2>2 DEF OpensStream
<1>3. ASSUME NEW after \in 0 .. MaxPosition, NEW count \in 0 .. MaxCount, ReadAll(r, after, count)
      PROVE  StoreInv' /\ OpensAll
  BY <1>1, <1>3, ReadAllKeeps DEF OpensAll
<1>4. ASSUME NextEvent(r)
      PROVE  StoreInv' /\ Advances
  BY <1>4, NextKeeps DEF Advances, NextEvent
<1>5. ASSUME Close(r)
      PROVE  StoreInv' /\ Closes
  BY <1>5, CloseKeeps DEF Closes
<1>6. QED
  BY <1>2, <1>3, <1>4, <1>5 DEF Reads, Step

LEMMA StoreNext ==
  ASSUME StoreInv, Next
  PROVE  StoreInv' /\ Step
BY WritesKeep, ReadsKeep DEF Next

LEMMA StoreStutter ==
  ASSUME StoreInv, UNCHANGED vars
  PROVE  StoreInv'
<1>1. /\ counter' = counter /\ streams' = streams /\ globalLog' = globalLog /\ iter' = iter
      /\ array' = array /\ yielded' = yielded
  BY DEF vars
<1>2. Held' = Held /\ Read' = Read /\ Cells(globalLog)' = Cells(globalLog)
  BY <1>1 DEF Held, Read, Cells
<1>3. QED
  BY <1>1, <1>2 DEF StoreInv, Shape, Apart, Recorded, Reading

\* Slices that share arrays never overwrite what another holds, and the streams and
\* the global log record the same events, behind every step of the store.
THEOREM StoreInvariant == Spec => []StoreInv
<1>1. Init => StoreInv
  BY StoreInit
<1>2. StoreInv /\ [Next]_vars => StoreInv'
  BY StoreNext, StoreStutter
<1>3. QED
  BY <1>1, <1>2, PTL DEF Spec

\* What the properties call logged is what the log's cells hold.
LEMMA LoggedIsLog ==
  ASSUME StoreInv
  PROVE  Logged = EventsOf(Cells(globalLog))
<1>1. Len(Cells(globalLog)) = globalLog.len
  BY LogFacts DEF StoreInv
<1>2. QED
  BY <1>1 DEF Logged, EventsOf

LEMMA InvariantMatches ==
  ASSUME StoreInv
  PROVE  GlobalMatchesStreams
<1>1. Shape /\ Recorded /\ RecordedIn(counter, streams, Held, Cells(globalLog))
  BY DEF StoreInv, Recorded
<1>2. Len(Cells(globalLog)) = globalLog.len /\ Logged = EventsOf(Cells(globalLog))
  BY <1>1, LogFacts, LoggedIsLog
<1>3. \A s \in Stream : /\ Len(Held[s]) = streams[s].events.len
                        /\ Held[s] = Cells(streams[s].events)
  BY <1>1, StreamFacts DEF Held
<1>4. \A i, j \in 1 .. globalLog.len :
        i < j => Cells(globalLog)[i].position < Cells(globalLog)[j].position
  BY <1>1, <1>2 DEF RecordedIn, Ordered
<1>5. ASSUME NEW s \in Stream
      PROVE  {e \in Logged : e.stream = s} =
               {Cells(streams[s].events)[i] : i \in 1 .. streams[s].events.len}
  <2>1. {e \in Logged : e.stream = s} = EventsOf(Held[s])
    BY <1>1, <1>2 DEF RecordedIn, Same
  <2>2. QED
    BY <1>3, <2>1 DEF EventsOf
<1>6. ASSUME NEW s \in Stream, NEW i \in 1 .. streams[s].events.len
      PROVE  Cells(streams[s].events)[i].version = streams[s].first + i - 1
  BY <1>1, <1>3 DEF RecordedIn, Versioned
<1>7. QED
  BY <1>4, <1>5, <1>6 DEF GlobalMatchesStreams

\* The two records of a commit never part: each stream holds its versions without a
\* gap, and the global log the events of all streams in position order.
THEOREM StreamsMatchLog == Spec => []GlobalMatchesStreams
BY StoreInvariant, InvariantMatches, PTL

LEMMA NewAboveYielded ==
  ASSUME StoreInv, [Next]_vars
  PROVE  \A e \in Logged' \ Logged : e.position > yielded
<1>1. StoreInv'
  BY StoreNext, StoreStutter
<1>2. Logged = EventsOf(Cells(globalLog)) /\ Logged' = EventsOf(Cells(globalLog)')
  <2>1. Logged = EventsOf(Cells(globalLog))
    BY LoggedIsLog
  <2>2. Len(Cells(globalLog))' = globalLog'.len
    <3>1. array' \in Memory /\ Fits(array', globalLog')
      BY <1>1 DEF StoreInv, Shape, ShapeIn
    <3>2. Len(CellsIn(array', globalLog')) = globalLog'.len
      BY <3>1, SliceCells
    <3>3. QED
      BY <3>2 DEF Cells
  <2>3. Logged' = EventsOf(Cells(globalLog)')
    BY <2>2 DEF Logged, EventsOf
  <2>4. QED
    BY <2>1, <2>3
<1>3. CASE Appends
  <2>1. PICK s \in Stream, n \in 0 .. MaxBatch : AppendEffect(s, n)
    BY <1>3 DEF Appends
  <2>2. /\ Shape /\ Recorded /\ n \in Nat /\ Cells(globalLog) \in Seq(Event)
        /\ yielded \in 0 .. counter /\ counter \in Nat
    BY LogFacts, StoreBounds DEF StoreInv
  <2>3. /\ NewEvents(s, n) \in Seq(Event) /\ Len(NewEvents(s, n)) = n
        /\ \A i \in 1 .. n : NewEvents(s, n)[i].position = counter + i
    <3>1. /\ NewEvents(s, n) \in Seq(Event) /\ Len(NewEvents(s, n)) = n
          /\ \A i \in 1 .. n : NewEvents(s, n)[i] = [position |-> counter + i, stream |-> s,
                                                     version |-> TipOf(Entry(s)) + i]
      BY <2>2, NewEventsType
    <3>2. QED
      BY <3>1
  <2>4. EventsOf(Cells(globalLog)') = EventsOf(Cells(globalLog)) \cup EventsOf(NewEvents(s, n))
    BY <2>1, <2>2, <2>3, EventsOfJoined DEF AppendEffect
  <2>5. \A e \in EventsOf(NewEvents(s, n)) : e.position > yielded
    BY <2>2, <2>3 DEF EventsOf
  <2>6. QED
    BY <1>2, <2>4, <2>5
<1>4. CASE Deletes \/ Truncates
  <2>1. PICK s \in Stream : \E v : DropEffect(s, v)
    BY <1>4 DEF Deletes, Truncates
  <2>2. QED
    BY <1>2, <2>1 DEF DropEffect
<1>5. CASE Marks \/ OpensStream \/ OpensAll \/ Closes
  <2>1. Cells(globalLog)' = Cells(globalLog)
    BY <1>5 DEF Marks, MarkEffect, OpensStream, OpensAll, Closes, IterEffect
  <2>2. QED
    BY <1>2, <2>1
<1>6. CASE Advances \/ UNCHANGED vars
  <2>1. Cells(globalLog)' = Cells(globalLog)
    BY <1>6 DEF Advances, AdvanceEffect, vars, Cells
  <2>2. QED
    BY <1>2, <2>1
<1>7. QED
  BY <1>3, <1>4, <1>5, <1>6, StoreNext DEF Step

\* A position a global read has yielded is a checkpoint: no event appears at or below
\* it afterwards, because appends take positions from a counter that never goes back.
THEOREM CheckpointsSettled == Spec => YieldedIsSettled
<1>1. StoreInv /\ [Next]_vars => [\A e \in Logged' \ Logged : e.position > yielded]_vars
  BY NewAboveYielded
<1>2. QED
  BY <1>1, StoreInvariant, PTL DEF Spec, YieldedIsSettled

-----------------------------------------------------------------------------
(* Lists of events in ascending order.                                      *)

\* A list that ascends by a key has no event twice.
Ascends(q, n, key) == \A i, j \in 1 .. n : i < j => key[q[i]] < key[q[j]]

LEMMA AscendingInjective ==
  ASSUME NEW S, NEW key \in [S -> Nat], NEW n \in Nat, NEW q \in [1 .. n -> S], Ascends(q, n, key)
  PROVE  q \in Injection(1 .. n, S)
<1>1. ASSUME NEW i \in 1 .. n, NEW j \in 1 .. n, q[i] = q[j]
      PROVE  i = j
  <2>1. key[q[i]] \in Nat
    OBVIOUS
  <2>2. ~(key[q[i]] < key[q[j]]) /\ ~(key[q[j]] < key[q[i]])
    BY <1>1, <2>1
  <2>3. ~(i < j) /\ ~(j < i)
    BY <2>2 DEF Ascends
  <2>4. QED
    BY <2>3
<1>2. QED
  BY <1>1 DEF Injection, IsInjective

\* So it has as many entries as the set that it lists, and there is one only.
LEMMA AscendingCounts ==
  ASSUME NEW S, NEW key \in [S -> Nat], NEW n \in Nat, NEW q \in [1 .. n -> S], Ascends(q, n, key),
         \A e \in S : \E i \in 1 .. n : q[i] = e
  PROVE  IsFiniteSet(S) /\ Cardinality(S) = n
<1>1. q \in Bijection(1 .. n, S)
  <2>1. q \in Surjection(1 .. n, S)
    BY DEF Surjection
  <2>2. QED
    BY <2>1, AscendingInjective DEF Bijection
<1>2. IsFiniteSet(1 .. n) /\ Cardinality(1 .. n) = n
  <2>1. 1 \in Int /\ n \in Int
    OBVIOUS
  <2>2. IsFiniteSet(1 .. n) /\ Cardinality(1 .. n) = IF 1 > n THEN 0 ELSE n - 1 + 1
    BY <2>1, FS_Interval
  <2>3. QED
    BY <2>2
<1>3. ExistsBijection(1 .. n, S)
  BY <1>1 DEF ExistsBijection
<1>4. QED
  BY <1>2, <1>3, FS_Bijection

\* The first entry that differs would have to come earlier in either list.
LEMMA AscendingBefore ==
  ASSUME NEW S, NEW key \in [S -> Nat], NEW n \in Nat,
         NEW p \in [1 .. n -> S], Ascends(p, n, key),
         NEW q \in [1 .. n -> S], Ascends(q, n, key),
         \A e \in S : \E i \in 1 .. n : q[i] = e,
         NEW i \in 1 .. n, p[i] # q[i], \A j \in 1 .. i - 1 : p[j] = q[j]
  PROVE  key[q[i]] < key[p[i]]
<1>1. PICK k \in 1 .. n : q[k] = p[i]
  OBVIOUS
<1>2. ~(k < i)
  <2>1. SUFFICES ASSUME k < i PROVE FALSE
    OBVIOUS
  <2>2. k \in 1 .. i - 1
    BY <2>1
  <2>3. p[k] = p[i]
    BY <1>1, <2>2
  <2>4. key[p[k]] < key[p[i]]
    BY <2>1 DEF Ascends
  <2>5. key[p[i]] \in Nat
    OBVIOUS
  <2>6. QED
    BY <2>3, <2>4, <2>5
<1>3. i < k
  BY <1>1, <1>2
<1>4. QED
  BY <1>1, <1>3 DEF Ascends

LEMMA AscendingUnique ==
  ASSUME NEW S, NEW key \in [S -> Nat], NEW n \in Nat,
         NEW p \in [1 .. n -> S], Ascends(p, n, key), \A e \in S : \E i \in 1 .. n : p[i] = e,
         NEW q \in [1 .. n -> S], Ascends(q, n, key)
  PROVE  p = q
<1>1. \A e \in S : \E i \in 1 .. n : q[i] = e
  <2>1. IsFiniteSet(S) /\ Cardinality(S) = n
    BY AscendingCounts
  <2>2. q \in Injection(1 .. n, S)
    BY AscendingInjective
  <2>3. Cardinality(1 .. n) = n
    <3>1. 1 \in Int /\ n \in Int
      OBVIOUS
    <3>2. Cardinality(1 .. n) = IF 1 > n THEN 0 ELSE n - 1 + 1
      BY <3>1, FS_Interval
    <3>3. QED
      BY <3>2
  <2>4. q \in Surjection(1 .. n, S)
    BY <2>1, <2>2, <2>3, FS_Injection
  <2>5. QED
    BY <2>4 DEF Surjection
<1> DEFINE T == {i \in 1 .. n : p[i] # q[i]}
<1>2. SUFFICES ASSUME T # {} PROVE FALSE
  <2>1. \A i \in 1 .. n : p[i] = q[i]
    BY <1>2
  <2>2. QED
    BY <2>1
<1>3. T \in SUBSET Nat
  OBVIOUS
<1>4. PICK i \in T : \A m \in T : i <= m
  <2> HIDE DEF T
  <2>1. QED
    BY <1>2, <1>3, LeastNatural
<1>5. i \in 1 .. n /\ p[i] # q[i] /\ \A j \in 1 .. i - 1 : p[j] = q[j]
  <2>1. i \in 1 .. n /\ p[i] # q[i]
    OBVIOUS
  <2>2. ASSUME NEW j \in 1 .. i - 1
        PROVE  p[j] = q[j]
    <3>1. j \in 1 .. n /\ ~(i <= j)
      BY <2>1
    <3>2. j \notin T
      BY <1>4, <3>1
    <3>3. QED
      BY <3>1, <3>2
  <2>3. QED
    BY <2>1, <2>2
<1> HIDE DEF T
<1>6. key[q[i]] < key[p[i]]
  BY <1>1, <1>5, AscendingBefore
<1>7. key[p[i]] < key[q[i]]
  <2>1. \A j \in 1 .. i - 1 : q[j] = p[j]
    BY <1>5
  <2>2. QED
    BY <1>5, <2>1, AscendingBefore
<1>8. PICK a \in Nat, b \in Nat : a = key[p[i]] /\ b = key[q[i]]
  BY <1>5
<1>9. a < b /\ b < a
  BY <1>6, <1>7, <1>8
<1>10. QED
  BY <1>9

\* The event log's lists are the ones that the slices hold.
Lists(q, S) == q \in Seq(Event) /\ EventsOf(q) = S

LEMMA SameCardinality ==
  ASSUME NEW S
  PROVE  Log!Cardinality(S) = Cardinality(S)
BY DEF Log!Cardinality, Cardinality

LEMMA ListedByPosition ==
  ASSUME NEW S, NEW q, Lists(q, S), Ordered(q)
  PROVE  Log!ByPosition(S) = q /\ IsFiniteSet(S) /\ Cardinality(S) = Len(q)
<1> DEFINE n == Len(q)
           key == [e \in S |-> e.position]
           Fit(z) == \A i, j \in DOMAIN z : i < j => z[i].position < z[j].position
<1>1. n \in Nat /\ q \in [1 .. n -> S] /\ \A e \in S : \E i \in 1 .. n : q[i] = e
  <2>1. n \in Nat /\ q \in [1 .. n -> Event]
    BY LenProperties DEF Lists
  <2>2. QED
    BY <2>1 DEF Lists, EventsOf
<1>2. key \in [S -> Nat]
  <2>1. \A e \in S : e \in Event
    BY LenProperties DEF Lists, EventsOf
  <2>2. QED
    BY <2>1 DEF Event
<1>3. \A z \in [1 .. n -> S] : Fit(z) <=> Ascends(z, n, key)
  BY DEF Ascends
<1>4. Fit(q)
  BY <1>1 DEF Ordered
<1> HIDE DEF n, key, Fit
<1>5. IsFiniteSet(S) /\ Cardinality(S) = n
  BY <1>1, <1>2, <1>3, <1>4, AscendingCounts
<1>6. Log!ByPosition(S) = CHOOSE z \in [1 .. n -> S] : Fit(z)
  BY <1>5, SameCardinality DEF Log!ByPosition, Fit
<1>7. PICK z : z = Log!ByPosition(S)
  OBVIOUS
<1>8. z \in [1 .. n -> S] /\ Fit(z)
  BY <1>1, <1>4, <1>6, <1>7
<1>9. z = q
  BY <1>1, <1>2, <1>3, <1>4, <1>8, AscendingUnique
<1>10. QED
  BY <1>5, <1>7, <1>9 DEF n

Rising(q) == \A i, j \in 1 .. Len(q) : i < j => q[i].version < q[j].version

LEMMA ListedByVersion ==
  ASSUME NEW S, NEW q, Lists(q, S), Rising(q)
  PROVE  Log!ByVersion(S) = q /\ IsFiniteSet(S) /\ Cardinality(S) = Len(q)
<1> DEFINE n == Len(q)
           key == [e \in S |-> e.version]
           Fit(z) == \A i, j \in DOMAIN z : i < j => z[i].version < z[j].version
<1>1. n \in Nat /\ q \in [1 .. n -> S] /\ \A e \in S : \E i \in 1 .. n : q[i] = e
  <2>1. n \in Nat /\ q \in [1 .. n -> Event]
    BY LenProperties DEF Lists
  <2>2. QED
    BY <2>1 DEF Lists, EventsOf
<1>2. key \in [S -> Nat]
  <2>1. \A e \in S : e \in Event
    BY LenProperties DEF Lists, EventsOf
  <2>2. QED
    BY <2>1 DEF Event
<1>3. \A z \in [1 .. n -> S] : Fit(z) <=> Ascends(z, n, key)
  BY DEF Ascends
<1>4. Fit(q)
  BY <1>1 DEF Rising
<1> HIDE DEF n, key, Fit
<1>5. IsFiniteSet(S) /\ Cardinality(S) = n
  BY <1>1, <1>2, <1>3, <1>4, AscendingCounts
<1>6. Log!ByVersion(S) = CHOOSE z \in [1 .. n -> S] : Fit(z)
  BY <1>5, SameCardinality DEF Log!ByVersion, Fit
<1>7. PICK z : z = Log!ByVersion(S)
  OBVIOUS
<1>8. z \in [1 .. n -> S] /\ Fit(z)
  BY <1>1, <1>4, <1>6, <1>7
<1>9. z = q
  BY <1>1, <1>2, <1>3, <1>4, <1>8, AscendingUnique
<1>10. QED
  BY <1>5, <1>7, <1>9 DEF n

\* The b events of a stream behind its first a, and a list of just these.
CellSegment(S, cells, first, a, b) ==
  S = {e \in EventsOf(cells) : e.version >= first + a /\ e.version < first + a + b}
HoldsSegment(q, cells, a, b) ==
  q \in Seq(Event) /\ Len(q) = b /\ \A i \in 1 .. b : q[i] = cells[a + i]

\* The events of a stream between two versions are a segment of what it holds.
LEMMA SegmentByVersion ==
  ASSUME NEW cells \in Seq(Event), NEW s, NEW first \in Nat, Versioned(cells, s, first),
         NEW a \in Nat, NEW b \in Nat, a + b <= Len(cells),
         NEW S, CellSegment(S, cells, first, a, b)
  PROVE  /\ HoldsSegment(Log!ByVersion(S), cells, a, b)
         /\ IsFiniteSet(S) /\ Cardinality(S) = b
<1> USE DEF CellSegment, HoldsSegment
<1>1. PICK q : q = SubSeq(cells, a + 1, a + b)
  OBVIOUS
<1>2. q \in Seq(Event) /\ Len(q) = b /\ \A i \in 1 .. b : q[i] = cells[a + i]
  BY <1>1, CutProperties
<1>3. Len(cells) \in Nat
  BY LenProperties
<1>4. \A i \in 1 .. Len(cells) : cells[i].version = first + i - 1
  BY DEF Versioned
<1>5. ASSUME NEW i \in 1 .. b
      PROVE  a + i \in 1 .. Len(cells) /\ q[i] = cells[a + i] /\ q[i].version = first + (a + i) - 1
  <2>1. a + i \in 1 .. Len(cells)
    BY <1>3
  <2>2. QED
    BY <1>2, <1>4, <2>1
<1>6. Rising(q)
  <2>1. ASSUME NEW i \in 1 .. b, NEW j \in 1 .. b, i < j
        PROVE  q[i].version < q[j].version
    <3>1. q[i].version = first + (a + i) - 1 /\ q[j].version = first + (a + j) - 1
      BY <1>5
    <3>2. first + (a + i) - 1 < first + (a + j) - 1
      BY <2>1
    <3>3. QED
      BY <3>1, <3>2
  <2>2. QED
    BY <1>2, <2>1 DEF Rising
<1>7. EventsOf(q) = S
  <2>1. ASSUME NEW i \in 1 .. b
        PROVE  q[i] \in S
    <3>1. cells[a + i] \in EventsOf(cells)
      BY <1>5 DEF EventsOf
    <3>2. first + (a + i) - 1 >= first + a /\ first + (a + i) - 1 < first + a + b
      OBVIOUS
    <3>3. q[i] \in EventsOf(cells) /\ q[i].version >= first + a /\ q[i].version < first + a + b
      BY <1>5, <3>1, <3>2
    <3>4. QED
      BY <3>3
  <2>2. ASSUME NEW e \in S
        PROVE  \E i \in 1 .. b : q[i] = e
    <3>1. PICK k \in 1 .. Len(cells) : cells[k] = e
      BY DEF EventsOf
    <3>2. first + k - 1 >= first + a /\ first + k - 1 < first + a + b
      BY <1>4, <3>1
    <3>3. k - a \in 1 .. b /\ a + (k - a) = k
      BY <1>3, <3>2
    <3>4. q[k - a] = cells[a + (k - a)]
      BY <1>2, <3>3
    <3>5. q[k - a] = e
      BY <3>1, <3>3, <3>4
    <3>6. QED
      BY <3>3, <3>5
  <2>3. EventsOf(q) = {q[i] : i \in 1 .. b}
    BY <1>2 DEF EventsOf
  <2>4. QED
    BY <2>1, <2>2, <2>3
<1>8. Log!ByVersion(S) = q /\ IsFiniteSet(S) /\ Cardinality(S) = Len(q)
  BY <1>2, <1>6, <1>7, ListedByVersion DEF Lists
<1>9. QED
  BY <1>2, <1>8

\* A count cuts a list short.
Cut(length, count) == IF count > 0 /\ count < length THEN count ELSE length

LEMMA CountedList ==
  ASSUME NEW q \in Seq(Event), NEW count \in Nat
  PROVE  /\ Log!Counted(q, count) \in Seq(Event)
         /\ Len(Log!Counted(q, count)) = Cut(Len(q), count)
         /\ \A i \in 1 .. Cut(Len(q), count) : Log!Counted(q, count)[i] = q[i]
<1>1. Len(q) \in Nat
  BY LenProperties
<1>2. CASE count > 0 /\ count < Len(q)
  <2>1. 0 + count <= Len(q)
    BY <1>1, <1>2
  <2>2. 0 \in Nat
    OBVIOUS
  <2>3. /\ SubSeq(q, 0 + 1, 0 + count) \in Seq(Event) /\ Len(SubSeq(q, 0 + 1, 0 + count)) = count
        /\ \A i \in 1 .. count : SubSeq(q, 0 + 1, 0 + count)[i] = q[0 + i]
    BY <2>1, <2>2, CutProperties
  <2>4. 0 + 1 = 1 /\ 0 + count = count /\ \A i \in 1 .. count : 0 + i = i
    OBVIOUS
  <2>5. Log!Counted(q, count) = SubSeq(q, 1, count) /\ Cut(Len(q), count) = count
    BY <1>2 DEF Log!Counted, Cut
  <2>6. QED
    BY <2>3, <2>4, <2>5
<1>3. CASE ~(count > 0 /\ count < Len(q))
  BY <1>3 DEF Log!Counted, Cut
<1>4. QED
  BY <1>2, <1>3

-----------------------------------------------------------------------------
(* What an iterator still has to yield.                                     *)

RemainingOf(it, cells) ==
  LET path == IF it.reverse THEN Reverse(SubSeq(cells, 1, it.cursor + 1))
              ELSE SubSeq(cells, it.cursor + 1, Len(cells))
  IN  IF it.limit = 0 THEN path
      ELSE SubSeq(path, 1, Min({Len(path), it.limit - it.retrieved}))

Way(it) ==
  IF it.reverse THEN IF it.cursor < 0 THEN 0 ELSE it.cursor + 1
  ELSE IF it.cursor < it.events.len THEN it.events.len - it.cursor ELSE 0
Left(it) ==
  IF it.limit > 0 /\ it.limit - it.retrieved < Way(it) THEN it.limit - it.retrieved ELSE Way(it)
Ahead(it, i) == IF it.reverse THEN it.cursor + 2 - i ELSE it.cursor + i

\* A list of n cells, the i-th of them the one i ahead of the cursor.
RestOf(q, it, cells) ==
  /\ q \in Seq(Event) /\ Len(q) = Left(it)
  /\ \A i \in 1 .. Left(it) : Ahead(it, i) \in 1 .. Len(cells) /\ q[i] = cells[Ahead(it, i)]

LEMMA LeastOfTwo ==
  ASSUME NEW a \in Nat, NEW b \in Nat
  PROVE  Min({a, b}) = IF b < a THEN b ELSE a
<1> DEFINE m == IF b < a THEN b ELSE a
           S == {a, b}
<1>1. m \in S /\ \A y \in S : m <= y
  OBVIOUS
<1>2. \A x \in S : (\A y \in S : x <= y) => x = m
  BY <1>1
<1>3. Min(S) = CHOOSE x \in S : \A y \in S : x <= y
  BY DEF Min
<1> HIDE DEF S, m
<1>4. QED
  BY <1>1, <1>2, <1>3 DEF S, m

LEMMA RemainingShape ==
  ASSUME NEW it \in Iterator, SoundIterator(it), NEW cells \in Seq(Event), Len(cells) = it.events.len
  PROVE  RestOf(RemainingOf(it, cells), it, cells) /\ Left(it) \in Nat
<1> DEFINE path == IF it.reverse THEN Reverse(SubSeq(cells, 1, it.cursor + 1))
                   ELSE SubSeq(cells, it.cursor + 1, Len(cells))
           n == Way(it)
<1>1. /\ it.cursor \in Int /\ it.retrieved \in Nat /\ it.limit \in Nat /\ it.reverse \in BOOLEAN
      /\ Len(cells) \in Nat /\ it.events.len \in Nat
      /\ ~it.reverse => it.cursor >= 0
      /\ it.reverse => it.cursor < it.events.len
      /\ it.limit > 0 => it.retrieved <= it.limit
  BY LenProperties DEF Iterator, SoundIterator
<1>2. n \in Nat
  BY <1>1 DEF Way
<1>3. \A i \in 1 .. n : Ahead(it, i) \in 1 .. Len(cells)
  BY <1>1 DEF Way, Ahead
<1>4. \A i \in 1 .. Len(cells) : cells[i] \in Event
  BY LenProperties
<1>5. /\ path \in Seq(Event) /\ Len(path) = n
      /\ \A i \in 1 .. n : path[i] = cells[Ahead(it, i)]
  <2>1. CASE it.reverse
    <3> DEFINE c == it.cursor + 1
               front == SubSeq(cells, 1, c)
    <3>1. c \in Int /\ 1 \in Int /\ c <= Len(cells) /\ n = IF 1 <= c THEN c ELSE 0
      BY <1>1, <2>1 DEF Way
    <3>2. \A i \in 1 .. c : cells[i] \in Event
      BY <1>1, <1>4, <3>1
    <3>3. \A i \in 1 .. n : Ahead(it, i) = (c - i) + 1
      BY <1>1, <2>1 DEF Ahead
    <3> HIDE DEF c, n
    <3>4. /\ front \in Seq(Event)
          /\ Len(front) = IF 1 <= c THEN c - 1 + 1 ELSE 0
          /\ \A i \in 1 .. c - 1 + 1 : front[i] = cells[1 + i - 1]
      BY <3>1, <3>2, SubSeqProperties
    <3>5. Len(front) = n
      BY <3>1, <3>4
    <3>6. \A i \in 1 .. n : front[i] = cells[i]
      BY <3>1, <3>4
    <3> HIDE DEF front
    <3>7. path = [i \in 1 .. n |-> front[(n - i) + 1]]
      BY <2>1, <3>5 DEF Reverse, front, c
    <3>8. ASSUME NEW i \in 1 .. n
          PROVE  (n - i) + 1 \in 1 .. n /\ front[(n - i) + 1] = cells[(c - i) + 1] /\ front[(n - i) + 1] \in Event
      <4>1. (n - i) + 1 \in 1 .. n /\ n = c
        BY <1>2, <3>1
      <4>2. front[(n - i) + 1] \in Event
        BY <3>4, <3>5, <4>1, LenProperties
      <4>3. QED
        BY <3>6, <4>1, <4>2
    <3> HIDE DEF path
    <3>9. path \in [1 .. n -> Event]
      BY <3>7, <3>8
    <3>10. path \in Seq(Event) /\ Len(path) = n
      <4>1. path \in Seq(Event)
        BY <1>2, <3>9, SeqDef DEF n
      <4>2. QED
        BY <1>2, <3>9, <4>1, LenProperties DEF n
    <3>11. QED
      BY <3>3, <3>7, <3>8, <3>10
  <2>2. CASE ~it.reverse
    <3> DEFINE c == it.cursor
               l == Len(cells)
    <3>1. c \in Nat /\ l \in Nat /\ c + 1 \in Int /\ n = IF c + 1 <= l THEN l - (c + 1) + 1 ELSE 0
      BY <1>1, <2>2 DEF Way
    <3>2. \A i \in c + 1 .. l : cells[i] \in Event
      BY <1>4, <3>1
    <3>3. \A i \in 1 .. n : Ahead(it, i) = c + i
      BY <2>2 DEF Ahead
    <3>4. path = SubSeq(cells, c + 1, l)
      BY <2>2
    <3> HIDE DEF c, l, n, path
    <3>5. /\ path \in Seq(Event)
          /\ Len(path) = IF c + 1 <= l THEN l - (c + 1) + 1 ELSE 0
          /\ \A i \in 1 .. l - (c + 1) + 1 : path[i] = cells[c + 1 + i - 1]
      BY <3>1, <3>2, <3>4, SubSeqProperties
    <3>6. ASSUME NEW i \in 1 .. n
          PROVE  path[i] = cells[c + i]
      <4>1. i \in 1 .. l - (c + 1) + 1 /\ c + 1 + i - 1 = c + i
        BY <3>1
      <4>2. QED
        BY <3>5, <4>1
    <3>7. QED
      BY <3>1, <3>3, <3>5, <3>6
  <2>3. QED
    BY <1>1, <2>1, <2>2
<1> HIDE DEF path
<1>6. CASE it.limit = 0
  <2>1. RemainingOf(it, cells) = path
    BY <1>6 DEF RemainingOf, path
  <2>2. Left(it) = n
    BY <1>6 DEF Left
  <2>3. QED
    BY <1>2, <1>3, <1>5, <2>1, <2>2 DEF RestOf
<1>7. CASE it.limit # 0
  <2> DEFINE k == it.limit - it.retrieved
             m == IF k < n THEN k ELSE n
  <2>1. k \in Nat /\ m \in Nat /\ m <= n /\ Left(it) = m
    BY <1>1, <1>2, <1>7 DEF Left
  <2>2. RemainingOf(it, cells) = SubSeq(path, 1, Min({n, k}))
    BY <1>5, <1>7 DEF RemainingOf, path
  <2>3. Min({n, k}) = m
    BY <1>2, <2>1, LeastOfTwo
  <2> HIDE DEF n, k, m
  <2>4. /\ SubSeq(path, 0 + 1, 0 + m) \in Seq(Event) /\ Len(SubSeq(path, 0 + 1, 0 + m)) = m
        /\ \A i \in 1 .. m : SubSeq(path, 0 + 1, 0 + m)[i] = path[0 + i]
    <3>1. 0 + m <= Len(path) /\ 0 \in Nat
      BY <1>2, <1>5, <2>1
    <3>2. QED
      BY <1>5, <2>1, <3>1, CutProperties
  <2>5. 0 + 1 = 1 /\ 0 + m = m /\ \A i \in 1 .. m : 0 + i = i /\ i \in 1 .. n
    BY <1>2, <2>1
  <2>6. /\ RemainingOf(it, cells) \in Seq(Event) /\ Len(RemainingOf(it, cells)) = m
        /\ \A i \in 1 .. m : RemainingOf(it, cells)[i] = path[i]
    BY <2>2, <2>3, <2>4, <2>5
  <2>7. QED
    BY <1>3, <1>5, <2>1, <2>5, <2>6 DEF RestOf
<1>8. QED
  BY <1>6, <1>7

\* Two lists of what is left are the same.
LEMMA RestUnique ==
  ASSUME NEW it, NEW cells, NEW p, RestOf(p, it, cells), NEW q, RestOf(q, it, cells)
  PROVE  p = q
<1>1. p \in Seq(Event) /\ q \in Seq(Event) /\ Len(p) = Len(q)
  BY DEF RestOf
<1>2. \A i \in 1 .. Len(p) : p[i] = q[i]
  BY DEF RestOf
<1>3. QED
  BY <1>1, <1>2, SeqEqual

\* Yielding an event leaves the tail.
LEMMA RemainingAdvanced ==
  ASSUME NEW it \in Iterator, SoundIterator(it), ~Exhausted(it), it.open,
         NEW cells \in Seq(Event), Len(cells) = it.events.len
  PROVE  /\ RemainingOf(it, cells) # <<>>
         /\ RemainingOf(Advanced(it), cells) = Tail(RemainingOf(it, cells))
<1>1. PICK next : next = Advanced(it)
  OBVIOUS
<1>2. it.events.len \in Nat
  BY LenProperties
<1>3. /\ next \in Iterator /\ SoundIterator(next) /\ next.events = it.events
      /\ next.reverse = it.reverse /\ next.limit = it.limit
      /\ next.cursor = (IF it.reverse THEN it.cursor - 1 ELSE it.cursor + 1)
      /\ next.retrieved = it.retrieved + 1
      /\ it.cursor \in 0 .. it.events.len - 1
  BY <1>1, <1>2, AdvancedType
<1>4. PICK q : q = RemainingOf(it, cells)
  OBVIOUS
<1>5. RestOf(q, it, cells) /\ Left(it) \in Nat
  BY <1>4, RemainingShape
<1>6. PICK p : p = RemainingOf(next, cells)
  OBVIOUS
<1>7. RestOf(p, next, cells) /\ Left(next) \in Nat
  <2>1. Len(cells) = next.events.len
    BY <1>3
  <2>2. QED
    BY <1>3, <1>6, <2>1, RemainingShape
<1>8. /\ it.cursor \in Int /\ it.retrieved \in Nat /\ it.limit \in Nat /\ it.reverse \in BOOLEAN
      /\ it.limit > 0 => it.retrieved < it.limit
  BY DEF Iterator, Exhausted
<1>9. Way(it) = Way(next) + 1 /\ Way(next) \in Nat
  BY <1>2, <1>3, <1>8 DEF Way
<1>10. Left(it) = Left(next) + 1
  <2>1. it.limit - it.retrieved = (next.limit - next.retrieved) + 1
    BY <1>3, <1>8
  <2>2. (next.limit - next.retrieved) \in Int
    BY <1>3, <1>8
  <2>3. it.limit - it.retrieved < Way(it) <=> next.limit - next.retrieved < Way(next)
    BY <1>9, <2>1, <2>2
  <2>4. QED
    BY <1>3, <1>9, <2>1, <2>3 DEF Left
<1>11. q # <<>>
  <2>1. Len(q) # 0
    BY <1>5, <1>7, <1>10 DEF RestOf
  <2>2. QED
    BY <2>1, EmptySeq
<1>12. /\ Tail(q) \in Seq(Event) /\ Len(Tail(q)) = Left(next)
       /\ \A i \in 1 .. Left(next) : Tail(q)[i] = q[i + 1]
  <2>1. q \in Seq(Event) /\ Len(q) = Left(next) + 1
    BY <1>5, <1>10 DEF RestOf
  <2>2. /\ Tail(q) \in Seq(Event) /\ Len(Tail(q)) = Len(q) - 1
        /\ \A i \in 1 .. Len(Tail(q)) : Tail(q)[i] = q[i + 1]
    BY <1>11, <2>1, HeadTailProperties
  <2>3. Len(q) - 1 = Left(next)
    BY <1>7, <2>1
  <2>4. QED
    BY <2>2, <2>3
<1>13. RestOf(Tail(q), next, cells)
  <2>1. ASSUME NEW i \in 1 .. Left(next)
        PROVE  Ahead(next, i) \in 1 .. Len(cells) /\ Tail(q)[i] = cells[Ahead(next, i)]
    <3>1. i + 1 \in 1 .. Left(it)
      BY <1>7, <1>10
    <3>2. Ahead(it, i + 1) = Ahead(next, i)
      <4>1. i \in Int
        BY <1>7
      <4>2. CASE it.reverse
        <5>1. Ahead(it, i + 1) = it.cursor + 2 - (i + 1)
          BY <4>2 DEF Ahead
        <5>2. Ahead(next, i) = next.cursor + 2 - i /\ next.cursor = it.cursor - 1
          BY <1>3, <4>2 DEF Ahead
        <5>3. PICK c \in Int : c = it.cursor
          BY <1>8
        <5>4. c + 2 - (i + 1) = (c - 1) + 2 - i
          BY <4>1
        <5>5. QED
          BY <5>1, <5>2, <5>3, <5>4
      <4>3. CASE ~it.reverse
        <5>1. Ahead(it, i + 1) = it.cursor + (i + 1)
          BY <4>3 DEF Ahead
        <5>2. Ahead(next, i) = next.cursor + i /\ next.cursor = it.cursor + 1
          BY <1>3, <4>3 DEF Ahead
        <5>3. PICK c \in Int : c = it.cursor
          BY <1>8
        <5>4. c + (i + 1) = (c + 1) + i
          BY <4>1
        <5>5. QED
          BY <5>1, <5>2, <5>3, <5>4
      <4>4. QED
        BY <1>8, <4>2, <4>3
    <3>3. Ahead(it, i + 1) \in 1 .. Len(cells) /\ q[i + 1] = cells[Ahead(it, i + 1)]
      BY <1>5, <3>1 DEF RestOf
    <3>4. QED
      BY <1>12, <3>2, <3>3
  <2>2. QED
    BY <1>12, <2>1 DEF RestOf
<1>14. p = Tail(q)
  BY <1>7, <1>13, RestUnique
<1>15. QED
  BY <1>1, <1>4, <1>6, <1>11, <1>14

-----------------------------------------------------------------------------
(* The store as an event log.                                               *)

ValueOf(entry) == IF Written(entry) THEN TipOf(entry) ELSE 0
TipMap == [s \in Stream |-> ValueOf(streams[s])]
LogTips == [s \in Stream |-> IF Written(streams[s]) THEN TipOf(streams[s]) ELSE 0]

ViewOf(it, cells) == [open |-> it.open, rest |-> IF it.open THEN RemainingOf(it, cells) ELSE <<>>]
ReadingMap == [r \in Reader |-> ViewOf(iter[r], Read[r])]
LogReading == [r \in Reader |-> [open |-> iter[r].open,
                                 rest |-> IF iter[r].open THEN Remaining(iter[r]) ELSE <<>>]]

\* The expressions that the refinement mapping names.
LEMMA Mapped == TipMap = LogTips /\ ReadingMap = LogReading
<1>1. TipMap = LogTips
  BY DEF TipMap, ValueOf, LogTips
<1>2. ASSUME NEW r \in Reader
      PROVE  Remaining(iter[r]) = RemainingOf(iter[r], Read[r])
  BY DEF Remaining, RemainingOf, Read
<1>3. QED
  BY <1>1, <1>2 DEF ReadingMap, ViewOf, LogReading

LEMMA MappedNext ==
  /\ TipMap' = [s \in Stream |-> ValueOf(streams'[s])] /\ TipMap' = LogTips'
  /\ ReadingMap' = [r \in Reader |-> ViewOf(iter'[r], Read'[r])] /\ ReadingMap' = LogReading'
<1>1. TipMap' = [s \in Stream |-> ValueOf(streams'[s])] /\ TipMap' = LogTips'
  BY DEF TipMap, ValueOf, LogTips
<1>2. ReadingMap' = [r \in Reader |-> ViewOf(iter'[r], Read'[r])]
  BY DEF ReadingMap
<1>3. ASSUME NEW r \in Reader
      PROVE  Remaining(iter[r])' = RemainingOf(iter'[r], Read'[r])
  BY DEF Remaining, RemainingOf, Read
<1>4. QED
  BY <1>1, <1>2, <1>3 DEF ViewOf, LogReading

\* The value of an entry that counts its events from first.
LEMMA ValueOfEntry ==
  ASSUME NEW entry, entry.first \in Nat, entry.first >= 1, entry.events.len \in Nat
  PROVE  ValueOf(entry) = entry.first + entry.events.len - 1
<1>1. entry # NoEntry
  BY DEF NoEntry
<1>2. CASE Written(entry)
  BY <1>2 DEF ValueOf, TipOf
<1>3. CASE ~Written(entry)
  <2>1. entry.events.len = 0 /\ entry.first = 1
    BY <1>1, <1>3 DEF Written
  <2>2. ValueOf(entry) = 0
    BY <1>3 DEF ValueOf
  <2>3. QED
    BY <2>1, <2>2
<1>4. QED
  BY <1>2, <1>3

LEMMA TipMapFacts ==
  ASSUME StoreInv, NEW s \in Stream
  PROVE  /\ TipMap[s] = TipOf(Entry(s)) /\ TipMap[s] \in 0 .. counter
         /\ TipMap[s] = ValueOf(streams[s])
         /\ Written(streams[s]) => TipMap[s] > 0
         /\ ValueOf(Entry(s)) = TipMap[s]
<1>1. Shape /\ Recorded
  BY DEF StoreInv
<1>2. /\ Entry(s) \in Entries /\ Entry(s).first >= 1 /\ Entry(s).events = streams[s].events
      /\ TipOf(Entry(s)) \in 0 .. counter
      /\ TipOf(Entry(s)) = Entry(s).first + streams[s].events.len - 1
      /\ Written(streams[s]) => Entry(s) = streams[s]
  BY <1>1, StreamFacts
<1>3. Entry(s).first \in Nat /\ Entry(s).events.len \in Nat
  BY <1>2 DEF Entries, Slice
<1>4. ValueOf(Entry(s)) = TipOf(Entry(s))
  BY <1>2, <1>3, ValueOfEntry
<1>5. ValueOf(streams[s]) = TipOf(Entry(s))
  <2>1. CASE streams[s] = NoEntry
    <3>1. ~Written(streams[s])
      BY <2>1 DEF Written
    <3>2. Entry(s) = NewEntry /\ TipOf(NewEntry) = 0
      BY <2>1 DEF Entry, TipOf, NewEntry, Nil
    <3>3. QED
      BY <3>1, <3>2 DEF ValueOf
  <2>2. CASE streams[s] # NoEntry
    BY <1>4, <2>2 DEF Entry
  <2>3. QED
    BY <2>1, <2>2
<1>6. Written(streams[s]) => TipOf(Entry(s)) > 0
  <2>1. SUFFICES ASSUME Written(streams[s]) PROVE TipOf(Entry(s)) > 0
    OBVIOUS
  <2>2. ~(Entry(s).events.len = 0 /\ Entry(s).first = 1)
    BY <1>2, <2>1 DEF Written
  <2>3. QED
    BY <1>2, <1>3, <2>2
<1>7. TipMap[s] = ValueOf(streams[s])
  BY DEF TipMap
<1>8. QED
  BY <1>2, <1>4, <1>5, <1>6, <1>7

\* The committed events.
LEMMA CommittedFacts ==
  ASSUME StoreInv
  PROVE  /\ Logged = EventsOf(Cells(globalLog))
         /\ IsFiniteSet(Logged) /\ Cardinality(Logged) = globalLog.len
         /\ \A e \in Logged : e \in Event /\ e.position \in 1 .. counter
         /\ \A s \in Stream : {e \in Logged : e.stream = s} = EventsOf(Held[s])
<1>1. Shape /\ Recorded /\ RecordedIn(counter, streams, Held, Cells(globalLog))
  BY DEF StoreInv, Recorded
<1>2. Cells(globalLog) \in Seq(Event) /\ Len(Cells(globalLog)) = globalLog.len
  BY <1>1, LogFacts
<1>3. Logged = EventsOf(Cells(globalLog))
  BY LoggedIsLog
<1>4. IsFiniteSet(Logged) /\ Cardinality(Logged) = globalLog.len
  BY <1>1, <1>2, <1>3, ListedByPosition DEF RecordedIn, Lists
<1>5. \A e \in Logged : e \in Event /\ e.position \in 1 .. counter
  <2>1. \A i \in 1 .. Len(Cells(globalLog)) : Cells(globalLog)[i] \in Event
    BY <1>2, LenProperties
  <2>2. QED
    BY <1>1, <1>3, <2>1 DEF EventsOf, RecordedIn, Below
<1>6. \A s \in Stream : {e \in Logged : e.stream = s} = EventsOf(Held[s])
  BY <1>1, <1>3 DEF RecordedIn, Same
<1>7. QED
  BY <1>3, <1>4, <1>5, <1>6

\* And the ones behind a step.
LEMMA CommittedNext ==
  ASSUME StoreInv'
  PROVE  Logged' = EventsOf(Cells(globalLog)')
<1>1. array' \in Memory /\ Fits(array', globalLog')
  BY DEF StoreInv, Shape, ShapeIn
<1>2. Len(CellsIn(array', globalLog')) = globalLog'.len
  BY <1>1, SliceCells
<1>3. QED
  BY <1>2 DEF Logged, EventsOf, Cells

\* The readers see nothing of what writers do.
LEMMA ReadersUnmoved ==
  ASSUME iter' = iter, Read' = Read
  PROVE  ReadingMap' = ReadingMap
BY MappedNext DEF ReadingMap

-----------------------------------------------------------------------------
(* The steps of the event log: those that write.                            *)

\* A commit, said of the mapped state.
LEMMA IsCommit ==
  ASSUME NEW s \in Stream, NEW N, NEW n \in Nat,
         Logged' = Logged \cup N, N \cap Logged = {}, Cardinality(N) = n,
         \A e \in N : e.stream = s /\ e.position \in counter + 1 .. counter',
         {e.version : e \in N} = TipMap[s] + 1 .. TipMap[s] + n,
         \A d, e \in N : d.version < e.version <=> d.position < e.position,
         TipMap' = [TipMap EXCEPT ![s] = @ + n],
         counter' >= counter,
         ReadingMap' = ReadingMap
  PROVE  Log!Commit(s)
<1>1. N = Logged' \ Logged /\ Logged \subseteq Logged'
  OBVIOUS
<1>2. Log!Cardinality(N) = n
  BY SameCardinality
<1>3. \A e \in N : e.stream = s /\ e.position \in counter + 1 .. counter'
  OBVIOUS
<1>4. /\ {e.version : e \in N} = LogTips[s] + 1 .. LogTips[s] + n
      /\ LogTips' = [LogTips EXCEPT ![s] = @ + n]
      /\ LogReading' = LogReading
  BY Mapped, MappedNext
<1>5. QED
  BY <1>1, <1>2, <1>3, <1>4 DEF Log!Commit, LogTips, LogReading

LEMMA AppendCommits ==
  ASSUME StoreInv, StoreInv', NEW s \in Stream, NEW n \in Nat, AppendEffect(s, n)
  PROVE  Log!Commit(s)
<1> DEFINE new == NewEvents(s, n)
           tip == TipOf(Entry(s))
           N == EventsOf(new)
<1>1. Shape /\ Recorded /\ counter \in Nat
  BY LogFacts DEF StoreInv
<1>2. /\ new \in Seq(Event) /\ Len(new) = n
      /\ \A i \in 1 .. n : new[i] = [position |-> counter + i, stream |-> s, version |-> tip + i]
  BY <1>1, NewEventsType
<1>3. tip \in Nat /\ tip = TipMap[s] /\ TipMap[s] = ValueOf(streams[s]) /\ ValueOf(Entry(s)) = tip
  BY <1>1, TipMapFacts
<1> HIDE DEF new, tip
<1>4. Logged' = Logged \cup N
  <2>1. Logged = EventsOf(Cells(globalLog)) /\ Logged' = EventsOf(Cells(globalLog)') /\ Cells(globalLog) \in Seq(Event)
    BY <1>1, CommittedFacts, CommittedNext, LogFacts
  <2>2. Cells(globalLog)' = Cells(globalLog) \o new
    BY DEF AppendEffect, new
  <2>3. QED
    BY <1>2, <2>1, <2>2, EventsOfJoined
<1>5. N = {new[i] : i \in 1 .. n}
  BY <1>2 DEF EventsOf
<1>6. N \cap Logged = {}
  <2>1. \A e \in Logged : e.position <= counter
    BY CommittedFacts
  <2>2. \A e \in N : ~(e.position <= counter)
    BY <1>1, <1>2, <1>5
  <2>3. QED
    BY <2>1, <2>2
<1>7. Cardinality(N) = n
  <2>1. Ordered(new)
    <3>1. ASSUME NEW i \in 1 .. n, NEW j \in 1 .. n, i < j
          PROVE  new[i].position < new[j].position
      BY <1>1, <1>2, <3>1
    <3>2. QED
      BY <1>2, <3>1 DEF Ordered
  <2>2. QED
    BY <1>2, <2>1, ListedByPosition DEF Lists
<1>8. counter' = counter + n
  BY DEF AppendEffect
<1>9. \A e \in N : e.stream = s /\ e.position \in counter + 1 .. counter'
  BY <1>1, <1>2, <1>5, <1>8
<1>10. {e.version : e \in N} = TipMap[s] + 1 .. TipMap[s] + n
  <2>1. \A e \in N : e.version \in tip + 1 .. tip + n
    BY <1>2, <1>3, <1>5
  <2>2. ASSUME NEW v \in tip + 1 .. tip + n
        PROVE  \E e \in N : e.version = v
    <3>1. v - tip \in 1 .. n /\ tip + (v - tip) = v
      BY <1>3
    <3>2. new[v - tip].version = v
      BY <1>2, <3>1
    <3>3. QED
      BY <1>5, <3>1, <3>2
  <2>3. {e.version : e \in N} = tip + 1 .. tip + n
    BY <2>1, <2>2
  <2>4. QED
    BY <1>3, <2>3
<1>11. ASSUME NEW d \in N, NEW e \in N
       PROVE  d.version < e.version <=> d.position < e.position
  <2>1. PICK i \in 1 .. n, j \in 1 .. n : d = new[i] /\ e = new[j]
    BY <1>5
  <2>2. d.version = tip + i /\ e.version = tip + j /\ d.position = counter + i /\ e.position = counter + j
    BY <1>2, <2>1
  <2>3. tip + i < tip + j <=> counter + i < counter + j
    BY <1>1, <1>3
  <2>4. QED
    BY <2>2, <2>3
<1>12. TipMap' = [TipMap EXCEPT ![s] = @ + n]
  <2>1. ValueOf(streams'[s]) = tip + n
    <3>1. /\ Entry(s).first \in Nat /\ Entry(s).first >= 1 /\ streams[s].events.len \in Nat
          /\ tip = Entry(s).first + streams[s].events.len - 1
      BY <1>1, StreamFacts DEF Entries, Shape, ShapeIn, Slice, Fits, tip
    <3>2. streams'[s].first = Entry(s).first /\ streams'[s].events.len = streams[s].events.len + n
      BY DEF AppendEffect
    <3>3. ValueOf(streams'[s]) = Entry(s).first + (streams[s].events.len + n) - 1
      BY <3>1, <3>2, ValueOfEntry
    <3>4. QED
      BY <3>1, <3>3
  <2>2. \A t \in Stream \ {s} : streams'[t] = streams[t]
    BY DEF AppendEffect
  <2>3. TipMap' = [t \in Stream |-> ValueOf(streams'[t])]
    BY MappedNext
  <2>4. QED
    BY <1>3, <2>1, <2>2, <2>3 DEF TipMap
<1>13. ReadingMap' = ReadingMap
  BY ReadersUnmoved DEF AppendEffect
<1>14. counter' >= counter
  BY <1>1, <1>8
<1> HIDE DEF N
<1>15. QED
  BY <1>4, <1>6, <1>7, <1>9, <1>10, <1>11, <1>12, <1>13, <1>14, IsCommit

LEMMA MarkCommits ==
  ASSUME StoreInv, StoreInv', NEW s \in Stream, NEW n \in Nat, MarkEffect(s, n)
  PROVE  Log!Commit(s)
<1>1. Shape /\ Recorded /\ counter \in Nat /\ counter' = counter + n
  BY LogFacts DEF StoreInv, MarkEffect
<1>2. Logged' = Logged
  BY CommittedFacts, CommittedNext DEF MarkEffect
<1>3. ReadingMap' = ReadingMap
  BY ReadersUnmoved DEF MarkEffect
<1>4. TipMap[s] \in Nat /\ TipMap[s] = ValueOf(streams[s]) /\ ValueOf(Entry(s)) = TipMap[s]
  BY <1>1, TipMapFacts
<1>5. TipMap' = TipMap
  <2>1. streams' = [streams EXCEPT ![s] = Entry(s)] /\ streams \in [Stream -> Entries]
    BY <1>1 DEF MarkEffect, Shape, ShapeIn
  <2>2. \A t \in Stream : ValueOf(streams'[t]) = ValueOf(streams[t])
    BY <1>4, <2>1
  <2>3. QED
    BY <2>2, MappedNext DEF TipMap
<1>6. TipMap' = [TipMap EXCEPT ![s] = @ + 0]
  BY <1>4, <1>5 DEF TipMap
<1>7. Cardinality({}) = 0
  BY FS_EmptySet
<1>8. {e.version : e \in {}} = TipMap[s] + 1 .. TipMap[s] + 0
  BY <1>4
<1>9. counter' >= counter
  BY <1>1
<1>10. PICK N : N = {}
  OBVIOUS
<1>11. /\ Logged' = Logged \cup N /\ N \cap Logged = {} /\ Cardinality(N) = 0
       /\ \A e \in N : e.stream = s /\ e.position \in counter + 1 .. counter'
       /\ {e.version : e \in N} = TipMap[s] + 1 .. TipMap[s] + 0
       /\ \A d, e \in N : d.version < e.version <=> d.position < e.position
  BY <1>2, <1>7, <1>8, <1>10
<1>12. 0 \in Nat
  OBVIOUS
<1>13. QED
  BY <1>3, <1>6, <1>9, <1>11, <1>12, IsCommit

LEMMA IsDelete ==
  ASSUME NEW s \in Stream, TipMap[s] > 0, Logged' = {e \in Logged : e.stream # s},
         TipMap' = [TipMap EXCEPT ![s] = 0], counter' = counter, ReadingMap' = ReadingMap
  PROVE  Log!Delete(s)
<1>1. LogTips[s] > 0 /\ LogTips' = [LogTips EXCEPT ![s] = 0] /\ LogReading' = LogReading
  BY Mapped, MappedNext
<1>2. QED
  BY <1>1 DEF Log!Delete, LogTips, LogReading

LEMMA DeleteDeletes ==
  ASSUME StoreInv, StoreInv', NEW s \in Stream, DropEffect(s, Infinite), Written(streams[s]),
         streams' = [streams EXCEPT ![s] = NoEntry],
         \A e \in EventsOf(Cells(globalLog)) : Dropped(e, s, Infinite) <=> e.stream = s
  PROVE  Log!Delete(s)
<1>1. Logged = EventsOf(Cells(globalLog)) /\ Logged' = EventsOf(Cells(globalLog)')
  BY CommittedFacts, CommittedNext
<1>2. Logged' = {e \in Logged : e.stream # s}
  BY <1>1 DEF DropEffect
<1>3. TipMap[s] > 0
  BY TipMapFacts
<1>4. TipMap' = [TipMap EXCEPT ![s] = 0]
  <2>1. streams \in [Stream -> Entries]
    BY DEF StoreInv, Shape, ShapeIn
  <2>2. streams'[s] = NoEntry /\ \A t \in Stream \ {s} : streams'[t] = streams[t]
    BY <2>1
  <2>3. ValueOf(NoEntry) = 0
    BY DEF ValueOf, Written
  <2>4. TipMap' = [t \in Stream |-> ValueOf(streams'[t])]
    BY MappedNext
  <2>5. TipMap = [t \in Stream |-> ValueOf(streams[t])]
    BY DEF TipMap
  <2>6. [t \in Stream |-> ValueOf(streams'[t])] = [[t \in Stream |-> ValueOf(streams[t])] EXCEPT ![s] = 0]
    <3>1. \A t \in Stream : ValueOf(streams'[t]) = IF t = s THEN 0 ELSE ValueOf(streams[t])
      BY <2>2, <2>3
    <3>2. [[t \in Stream |-> ValueOf(streams[t])] EXCEPT ![s] = 0]
            = [t \in Stream |-> IF t = s THEN 0 ELSE ValueOf(streams[t])]
      OBVIOUS
    <3>3. QED
      BY <3>1, <3>2
  <2>7. QED
    BY <2>4, <2>5, <2>6
<1>5. ReadingMap' = ReadingMap /\ counter' = counter
  BY ReadersUnmoved DEF DropEffect
<1>6. QED
  BY <1>2, <1>3, <1>4, <1>5, IsDelete

LEMMA IsTruncate ==
  ASSUME NEW s \in Stream, NEW v \in 1 .. TipMap[s],
         Logged' = {e \in Logged : e.stream # s \/ e.version > v},
         TipMap' = TipMap, counter' = counter, ReadingMap' = ReadingMap
  PROVE  Log!Truncate(s, v)
<1>1. LogTips' = LogTips /\ LogReading' = LogReading
  BY Mapped, MappedNext
<1>2. QED
  BY <1>1 DEF Log!Truncate, LogTips, LogReading

LEMMA TruncateTruncates ==
  ASSUME StoreInv, StoreInv', NEW s \in Stream, NEW v, DropEffect(s, v),
         Written(streams[s]), Written(streams'[s]), TipOf(streams'[s]) = TipOf(streams[s]),
         v \in 1 .. TipOf(streams[s])
  PROVE  Log!Truncate(s, v) /\ v \in 1 .. TipMap[s]
<1>1. Logged = EventsOf(Cells(globalLog)) /\ Logged' = EventsOf(Cells(globalLog)')
  BY CommittedFacts, CommittedNext
<1>2. Logged' = {e \in Logged : e.stream # s \/ e.version > v}
  <2>1. \A e \in Logged : e.version \in Nat
    BY CommittedFacts DEF Event
  <2>2. TipOf(streams[s]) \in Nat
    BY TipMapFacts DEF ValueOf
  <2>3. v \in Nat
    BY <2>2
  <2>4. \A e \in Logged : ~Dropped(e, s, v) <=> e.stream # s \/ e.version > v
    BY <2>1, <2>3 DEF Dropped
  <2>5. QED
    BY <1>1, <2>4 DEF DropEffect
<1>3. TipMap[s] = TipOf(streams[s])
  BY DEF TipMap, ValueOf
<1>4. TipMap' = TipMap
  <2>1. \A t \in Stream \ {s} : streams'[t] = streams[t]
    BY DEF DropEffect
  <2>2. ValueOf(streams'[s]) = ValueOf(streams[s])
    BY DEF ValueOf
  <2>3. QED
    BY <2>1, <2>2, MappedNext DEF TipMap
<1>5. ReadingMap' = ReadingMap /\ counter' = counter
  BY ReadersUnmoved DEF DropEffect
<1>6. QED
  BY <1>2, <1>3, <1>4, <1>5, IsTruncate

-----------------------------------------------------------------------------
(* Those that read.                                                         *)

IterMapped(r, view) ==
  /\ Logged' = Logged /\ TipMap' = TipMap /\ counter' = counter
  /\ ReadingMap' = [ReadingMap EXCEPT ![r] = view]

LEMMA IteratorMapped ==
  ASSUME StoreInv, StoreInv', NEW r \in Reader, NEW it, NEW cells, IterEffect(r, it, cells)
  PROVE  IterMapped(r, ViewOf(it, cells))
<1>1. Logged' = Logged
  BY CommittedFacts, CommittedNext DEF IterEffect
<1>2. TipMap' = TipMap
  BY MappedNext DEF TipMap, IterEffect
<1>3. iter'[r] = it /\ \A q \in Reader \ {r} : iter'[q] = iter[q]
  BY DEF IterEffect, StoreInv, Shape, ShapeIn
<1>4. Read'[r] = cells /\ \A q \in Reader \ {r} : Read'[q] = Read[q]
  BY DEF IterEffect
<1>5. \A q \in Reader : ViewOf(iter'[q], Read'[q]) = IF q = r THEN ViewOf(it, cells) ELSE ViewOf(iter[q], Read[q])
  BY <1>3, <1>4
<1>6. ReadingMap' = [q \in Reader |-> ViewOf(iter'[q], Read'[q])]
  BY MappedNext
<1>7. ReadingMap = [q \in Reader |-> ViewOf(iter[q], Read[q])]
  BY DEF ReadingMap
<1>8. [[q \in Reader |-> ViewOf(iter[q], Read[q])] EXCEPT ![r] = ViewOf(it, cells)]
        = [q \in Reader |-> IF q = r THEN ViewOf(it, cells) ELSE ViewOf(iter[q], Read[q])]
  OBVIOUS
<1>9. ReadingMap' = [ReadingMap EXCEPT ![r] = ViewOf(it, cells)]
  BY <1>5, <1>6, <1>7, <1>8
<1>10. QED
  BY <1>1, <1>2, <1>9 DEF IterMapped, IterEffect

\* A close, and the three ways to open, said of the mapped state.
LEMMA IsClose ==
  ASSUME NEW r \in Reader, IterMapped(r, [open |-> FALSE, rest |-> <<>>])
  PROVE  Log!Close(r)
<1>1. /\ LogReading' = [LogReading EXCEPT ![r] = Log!Closed]
      /\ Logged' = Logged /\ LogTips' = LogTips /\ counter' = counter
  BY Mapped, MappedNext DEF IterMapped, Log!Closed
<1>2. QED
  BY <1>1 DEF Log!Close, LogTips, LogReading

LEMMA IsOpenGlobal ==
  ASSUME NEW r \in Reader, NEW rest, IterMapped(r, [open |-> TRUE, rest |-> rest]),
         NEW after \in 0 .. counter, NEW count \in 0 .. Cardinality(Logged),
         rest = Log!Counted(Log!ByPosition({e \in Logged : e.position > after}), count)
  PROVE  Log!Open(r)
<1>1. rest = Log!GlobalResult(after, count)
  BY DEF Log!GlobalResult
<1>2. count \in Log!Count
  BY SameCardinality DEF Log!Count
<1>3. LogReading' = [LogReading EXCEPT ![r] = Log!Opened(Log!GlobalResult(after, count))]
  BY <1>1, Mapped, MappedNext DEF IterMapped, Log!Opened
<1>4. \E a \in 0 .. counter, c \in Log!Count :
        LogReading' = [LogReading EXCEPT ![r] = Log!Opened(Log!GlobalResult(a, c))]
  BY <1>2, <1>3
<1>5. Logged' = Logged /\ LogTips' = LogTips /\ counter' = counter
  BY Mapped, MappedNext DEF IterMapped
<1>6. QED
  BY <1>4, <1>5 DEF Log!Open, LogTips, LogReading

LEMMA IsOpenStream ==
  ASSUME NEW r \in Reader, NEW rest, IterMapped(r, [open |-> TRUE, rest |-> rest]),
         NEW s \in Stream, TipMap[s] > 0,
         NEW after \in 0 .. TipMap[s], NEW count \in 0 .. Cardinality(Logged),
         \/ rest = Log!Counted(Log!ByVersion({e \in Logged : e.stream = s /\ e.version > after}), count)
         \/ rest = Log!Counted(Log!Reverse(Log!ByVersion(
                     {e \in Logged : e.stream = s /\ (after = 0 \/ e.version <= after)})), count)
  PROVE  Log!Open(r)
<1>1. rest = Log!ForwardResult(s, after, count) \/ rest = Log!ReverseResult(s, after, count)
  BY DEF Log!ForwardResult, Log!ReverseResult
<1>2. count \in Log!Count
  BY SameCardinality DEF Log!Count
<1>3. \/ LogReading' = [LogReading EXCEPT ![r] = Log!Opened(Log!ForwardResult(s, after, count))]
      \/ LogReading' = [LogReading EXCEPT ![r] = Log!Opened(Log!ReverseResult(s, after, count))]
  BY <1>1, Mapped, MappedNext DEF IterMapped, Log!Opened
<1>4. \E t \in {t \in Stream : LogTips[t] > 0}, c \in Log!Count :
        \E a \in 0 .. LogTips[t] :
          \/ LogReading' = [LogReading EXCEPT ![r] = Log!Opened(Log!ForwardResult(t, a, c))]
          \/ LogReading' = [LogReading EXCEPT ![r] = Log!Opened(Log!ReverseResult(t, a, c))]
  <2>1. LogTips[s] > 0 /\ after \in 0 .. LogTips[s]
    BY Mapped
  <2>2. QED
    BY <1>2, <1>3, <2>1
<1>5. Logged' = Logged /\ LogTips' = LogTips /\ counter' = counter
  BY Mapped, MappedNext DEF IterMapped
<1>6. QED
  BY <1>4, <1>5 DEF Log!Open, LogTips, LogReading

LEMMA IsYield ==
  ASSUME NEW r \in Reader, Logged' = Logged, TipMap' = TipMap, counter' = counter,
         ReadingMap[r].rest # <<>>,
         ReadingMap' = [ReadingMap EXCEPT ![r].rest = Tail(@)]
  PROVE  Log!Yield(r)
<1>1. /\ LogReading[r].rest # <<>> /\ LogReading' = [LogReading EXCEPT ![r].rest = Tail(@)]
      /\ LogTips' = LogTips
  BY Mapped, MappedNext
<1>2. QED
  BY <1>1 DEF Log!Yield, LogTips, LogReading

LEMMA CloseCloses ==
  ASSUME StoreInv, StoreInv', NEW r \in Reader, IterEffect(r, NoIterator, <<>>)
  PROVE  Log!Close(r)
<1>1. ViewOf(NoIterator, <<>>) = [open |-> FALSE, rest |-> <<>>]
  BY DEF ViewOf, NoIterator
<1>2. QED
  BY <1>1, IteratorMapped, IsClose

LEMMA AdvanceYields ==
  ASSUME StoreInv, StoreInv', NEW r \in Reader, iter[r].open, ~Exhausted(iter[r]), AdvanceEffect(r)
  PROVE  Log!Yield(r)
<1>1. Shape /\ Reading /\ Recorded
  BY DEF StoreInv
<1>2. /\ iter[r] \in Iterator /\ SoundIterator(iter[r]) /\ Read[r] \in Seq(Event)
      /\ Len(Read[r]) = iter[r].events.len /\ iter[r].events.len \in Nat
  BY <1>1, ReaderFacts
<1>3. Logged' = Logged /\ TipMap' = TipMap /\ counter' = counter
  <2>1. Cells(globalLog)' = Cells(globalLog)
    BY DEF AdvanceEffect, Cells
  <2>2. Logged' = Logged
    BY <2>1, CommittedFacts, CommittedNext
  <2>3. TipMap' = TipMap
    BY MappedNext DEF TipMap, AdvanceEffect
  <2>4. QED
    BY <2>2, <2>3 DEF AdvanceEffect
<1>4. PICK rest : rest = RemainingOf(iter[r], Read[r])
  OBVIOUS
<1>5. rest # <<>> /\ RemainingOf(Advanced(iter[r]), Read[r]) = Tail(rest)
  BY <1>2, <1>4, RemainingAdvanced
<1>6. Advanced(iter[r]).open
  BY <1>2, AdvancedType
<1>7. ViewOf(iter[r], Read[r]) = [open |-> TRUE, rest |-> rest]
  <2>1. iter[r].open = TRUE
    BY <1>2 DEF Iterator
  <2>2. QED
    BY <1>4, <2>1 DEF ViewOf
<1>8. ViewOf(Advanced(iter[r]), Read[r]) = [open |-> TRUE, rest |-> Tail(rest)]
  <2>1. Advanced(iter[r]).open = TRUE
    BY <1>2, <1>6, AdvancedType DEF Iterator
  <2>2. QED
    BY <1>5, <2>1 DEF ViewOf
<1>9. iter'[r] = Advanced(iter[r]) /\ Read' = Read /\ \A q \in Reader \ {r} : iter'[q] = iter[q]
  BY <1>1 DEF AdvanceEffect, Shape, ShapeIn
<1>10. \A q \in Reader : ViewOf(iter'[q], Read'[q]) = IF q = r THEN [open |-> TRUE, rest |-> Tail(rest)]
                                                      ELSE ViewOf(iter[q], Read[q])
  BY <1>8, <1>9
<1>11. ReadingMap' = [q \in Reader |-> ViewOf(iter'[q], Read'[q])]
  BY MappedNext
<1>12. PICK m : m = ReadingMap
  OBVIOUS
<1>13. m = [q \in Reader |-> ViewOf(iter[q], Read[q])]
  BY <1>12 DEF ReadingMap
<1>14. m[r] = [open |-> TRUE, rest |-> rest]
  BY <1>7, <1>13
<1>15. [m EXCEPT ![r].rest = Tail(@)] = [m EXCEPT ![r] = [open |-> TRUE, rest |-> Tail(rest)]]
  <2>1. [m[r] EXCEPT !.rest = Tail(@)] = [open |-> TRUE, rest |-> Tail(rest)]
    <3>1. m[r].rest = rest
      BY <1>14
    <3>2. PICK o, t : o = TRUE /\ t = Tail(rest)
      OBVIOUS
    <3>3. PICK x : x = [open |-> o, rest |-> rest]
      OBVIOUS
    <3>4. [x EXCEPT !.rest = t] = [open |-> o, rest |-> t]
      BY <3>3
    <3>5. m[r] = x
      BY <1>14, <3>2, <3>3
    <3>6. QED
      BY <3>1, <3>2, <3>4, <3>5
  <2>2. QED
    BY <2>1
<1>16. [m EXCEPT ![r] = [open |-> TRUE, rest |-> Tail(rest)]] =
         [q \in Reader |-> IF q = r THEN [open |-> TRUE, rest |-> Tail(rest)] ELSE ViewOf(iter[q], Read[q])]
  BY <1>13
<1>17. ReadingMap' = [ReadingMap EXCEPT ![r].rest = Tail(@)]
  BY <1>10, <1>11, <1>12, <1>15, <1>16
<1>18. ReadingMap[r].rest # <<>>
  BY <1>5, <1>12, <1>14
<1>19. QED
  BY <1>3, <1>17, <1>18, IsYield

\* Options above what is there mean the same as the highest that is.
Clipped(k, n) == IF k <= n THEN k ELSE n

LEMMA ClippedCut ==
  ASSUME NEW length \in Nat, NEW n \in Nat, length <= n, NEW count \in Nat
  PROVE  /\ Clipped(count, n) \in 0 .. n
         /\ Cut(length, Clipped(count, n)) = Cut(length, count)
BY DEF Clipped, Cut

\* A fresh iterator over n events has as many left as its count allows.
LEMMA FreshLeft ==
  ASSUME NEW it, NEW n \in Nat, NEW count \in Nat,
         it.limit = count, it.retrieved = 0, Way(it) = n
  PROVE  Left(it) = Cut(n, count)
BY DEF Left, Cut

LEMMA OpensAllOpens ==
  ASSUME StoreInv, StoreInv', NEW r \in Reader, NEW after \in Nat, NEW count \in Nat,
         IterEffect(r, GlobalIterator(Captured(after).slice, count), Above(after)),
         Captured(after).slice.len = Len(Above(after))
  PROVE  Log!Open(r)
<1>1. /\ Shape /\ Recorded /\ counter \in Nat /\ globalLog.len \in Nat
      /\ Cells(globalLog) \in Seq(Event) /\ Len(Cells(globalLog)) = globalLog.len
      /\ Ordered(Cells(globalLog))
  BY LogFacts DEF StoreInv, Recorded, RecordedIn
<1> DEFINE log == Cells(globalLog)
           q == Above(after)
           start == Start(after)
           n == globalLog.len
<1>2. /\ q \in Seq(Event) /\ Len(q) = n - start /\ start \in 0 .. n
      /\ \A i \in 1 .. n - start : q[i] = log[start + i]
      /\ \A i \in 1 .. n : i <= start <=> log[i].position <= after
  BY <1>1, StartProperties, AboveProperties
<1>3. /\ Logged = EventsOf(log) /\ Cardinality(Logged) = n
      /\ \A e \in Logged : e \in Event /\ e.position \in 1 .. counter
  BY <1>1, CommittedFacts
<1>4. PICK it : it = GlobalIterator(Captured(after).slice, count)
  OBVIOUS
<1>5. /\ it.open = TRUE /\ it.reverse = FALSE /\ it.cursor = 0 /\ it.limit = count /\ it.retrieved = 0
      /\ it.events.len = Len(q)
  BY <1>4 DEF GlobalIterator, NoIterator
<1>6. it \in Iterator /\ SoundIterator(it) /\ IterEffect(r, it, q)
  BY <1>4 DEF IterEffect
<1> HIDE DEF log, q, start, n
<1>7. \A i \in 1 .. n : log[i] \in Event /\ log[i].position \in Nat
  <2>1. \A i \in 1 .. n : log[i] \in Event
    BY <1>1, LenProperties DEF log, n
  <2>2. QED
    BY <2>1 DEF Event
<1>8. Ordered(q)
  <2>1. ASSUME NEW i \in 1 .. n - start, NEW j \in 1 .. n - start, i < j
        PROVE  q[i].position < q[j].position
    <3>1. start + i \in 1 .. n /\ start + j \in 1 .. n /\ start + i < start + j
      BY <1>1, <1>2, <2>1 DEF n
    <3>2. log[start + i].position < log[start + j].position
      BY <1>1, <3>1 DEF Ordered, log, n
    <3>3. QED
      BY <1>2, <3>2
  <2>2. QED
    BY <1>2, <2>1 DEF Ordered
<1>9. PICK a : a = Clipped(after, counter)
  OBVIOUS
<1>10. a \in 0 .. counter
  BY <1>1, <1>9 DEF Clipped
<1>11. PICK S : S = {e \in Logged : e.position > a}
  OBVIOUS
<1>12. EventsOf(q) = S
  <2>1. \A e \in Logged : e.position > a <=> e.position > after
    <3>1. \A k \in 1 .. counter : k > a <=> k > after
      BY <1>1, <1>9 DEF Clipped
    <3>2. QED
      BY <1>3, <3>1
  <2>2. Logged = {log[i] : i \in 1 .. n}
    BY <1>1, <1>3 DEF EventsOf, log, n
  <2>3. EventsOf(q) = {q[i] : i \in 1 .. n - start}
    BY <1>2 DEF EventsOf
  <2>4. ASSUME NEW i \in 1 .. n - start
        PROVE  q[i] \in Logged /\ q[i].position > after
    <3>1. start + i \in 1 .. n /\ ~(start + i <= start)
      BY <1>1, <1>2 DEF n
    <3>2. log[start + i].position > after
      BY <1>2, <1>7, <3>1
    <3>3. QED
      BY <1>2, <2>2, <3>1, <3>2
  <2>5. ASSUME NEW i \in 1 .. n, log[i].position > after
        PROVE  \E j \in 1 .. n - start : q[j] = log[i]
    <3>1. ~(i <= start)
      BY <1>2, <1>7, <2>5
    <3>2. i - start \in 1 .. n - start /\ start + (i - start) = i
      BY <1>1, <1>2, <3>1 DEF n
    <3>3. q[i - start] = log[start + (i - start)]
      BY <1>2, <3>2
    <3>4. q[i - start] = log[i]
      BY <3>2, <3>3
    <3>5. QED
      BY <3>2, <3>4
  <2>6. \A e \in S : \E j \in 1 .. n - start : q[j] = e
    BY <1>11, <2>1, <2>2, <2>5
  <2>7. \A j \in 1 .. n - start : q[j] \in S
    BY <1>11, <2>1, <2>4
  <2>8. QED
    BY <2>3, <2>6, <2>7
<1>13. Log!ByPosition(S) = q
  BY <1>2, <1>8, <1>12, ListedByPosition DEF Lists
<1>14. Len(q) \in Nat /\ Len(q) <= n /\ n \in Nat
  BY <1>1, <1>2 DEF n
<1>15. PICK c : c = Clipped(count, n)
  OBVIOUS
<1>16. c \in 0 .. n /\ Cut(Len(q), c) = Cut(Len(q), count)
  BY <1>14, <1>15, ClippedCut
<1>17. PICK rest : rest = Log!Counted(q, c)
  OBVIOUS
<1>18. /\ rest \in Seq(Event) /\ Len(rest) = Cut(Len(q), count)
       /\ \A i \in 1 .. Cut(Len(q), count) : rest[i] = q[i]
  <2>1. c \in Nat
    BY <1>16
  <2>2. /\ rest \in Seq(Event) /\ Len(rest) = Cut(Len(q), c)
        /\ \A i \in 1 .. Cut(Len(q), c) : rest[i] = q[i]
    BY <1>2, <1>17, <2>1, CountedList
  <2>3. QED
    BY <1>16, <2>2
<1>19. Left(it) = Cut(Len(q), count)
  <2>1. Way(it) = Len(q)
    BY <1>5, <1>14 DEF Way
  <2>2. QED
    BY <1>5, <1>14, <2>1, FreshLeft
<1>20. RestOf(rest, it, q)
  <2>1. Cut(Len(q), count) <= Len(q) /\ Cut(Len(q), count) \in Nat
    BY <1>14 DEF Cut
  <2>2. ASSUME NEW i \in 1 .. Left(it)
        PROVE  Ahead(it, i) \in 1 .. Len(q) /\ rest[i] = q[Ahead(it, i)]
    <3>1. Ahead(it, i) = i /\ i \in 1 .. Len(q)
      BY <1>5, <1>14, <1>19, <2>1 DEF Ahead
    <3>2. QED
      BY <1>18, <1>19, <3>1
  <2>3. QED
    BY <1>18, <1>19, <2>2 DEF RestOf
<1>21. RemainingOf(it, q) = rest
  <2>1. RestOf(RemainingOf(it, q), it, q)
    BY <1>2, <1>5, <1>6, RemainingShape
  <2>2. QED
    BY <1>20, <2>1, RestUnique
<1>22. IterMapped(r, ViewOf(it, q))
  BY <1>6, IteratorMapped
<1>23. ViewOf(it, q) = [open |-> TRUE, rest |-> rest]
  BY <1>5, <1>21 DEF ViewOf
<1>24. c \in 0 .. Cardinality(Logged)
  BY <1>3, <1>16 DEF n
<1>25. rest = Log!Counted(Log!ByPosition({e \in Logged : e.position > a}), c)
  BY <1>11, <1>13, <1>17
<1>26. QED
  BY <1>10, <1>22, <1>23, <1>24, <1>25, IsOpenGlobal

\* What opening a read of a stream rests on: the stream's cells, the versions
\* they carry, and the iterator that starts among them.
CellsOpened(s) ==
  /\ streams[s].first \in Nat /\ streams[s].first >= 1 /\ streams[s].events.len \in Nat
  /\ TipMap[s] \in Nat /\ TipMap[s] > 0
  /\ TipMap[s] = streams[s].first + streams[s].events.len - 1
  /\ Held[s] \in Seq(Event) /\ Len(Held[s]) = streams[s].events.len
  /\ Versioned(Held[s], s, streams[s].first)
  /\ \A i \in 1 .. streams[s].events.len : Held[s][i].version = streams[s].first + i - 1
  /\ {e \in Logged : e.stream = s} = EventsOf(Held[s])
  /\ IsFiniteSet(Logged)

IteratorOpened(r, it, s, after, count, reverse) ==
  /\ it \in Iterator /\ SoundIterator(it) /\ it.open = TRUE
  /\ it.reverse = reverse /\ it.limit = count /\ it.retrieved = 0
  /\ it.events = streams[s].events
  /\ it.cursor = IF reverse THEN ReverseCursor(streams[s], after)
                 ELSE ForwardCursor(streams[s], after)
  /\ IterMapped(r, ViewOf(it, Held[s]))

LEMMA OpenedCells ==
  ASSUME StoreInv, NEW s \in Stream, Written(streams[s])
  PROVE  CellsOpened(s)
<1>1. Shape /\ Recorded
  BY DEF StoreInv
<1>2. /\ Entry(s) = streams[s] /\ streams[s] \in Entries /\ streams[s].first >= 1
      /\ TipOf(Entry(s)) = streams[s].first + streams[s].events.len - 1
      /\ Held[s] \in Seq(Event) /\ Len(Held[s]) = streams[s].events.len
      /\ Versioned(Held[s], s, streams[s].first)
  BY <1>1, StreamFacts
<1>3. TipMap[s] = TipOf(Entry(s)) /\ TipMap[s] \in 0 .. counter /\ TipMap[s] > 0
  BY TipMapFacts
<1>4. counter \in Nat
  BY <1>1, LogFacts
<1>5. streams[s].first \in Nat /\ streams[s].events.len \in Nat
  BY <1>2 DEF Entries, Slice
<1>6. \A i \in 1 .. streams[s].events.len : Held[s][i].version = streams[s].first + i - 1
  BY <1>2 DEF Versioned
<1>7. {e \in Logged : e.stream = s} = EventsOf(Held[s]) /\ IsFiniteSet(Logged)
  BY CommittedFacts
<1>8. TipMap[s] \in Nat
  BY <1>3, <1>4
<1>9. TipMap[s] = streams[s].first + streams[s].events.len - 1
  BY <1>2, <1>3
<1>10. QED
  BY <1>2, <1>3, <1>5, <1>6, <1>7, <1>8, <1>9 DEF CellsOpened

LEMMA OpenedIterator ==
  ASSUME StoreInv, StoreInv', NEW r \in Reader, NEW s \in Stream, NEW after \in Nat, NEW count \in Nat,
         NEW reverse \in BOOLEAN, Written(streams[s]),
         NEW it, it = StreamIterator(s, after, count, reverse), IterEffect(r, it, Held[s])
  PROVE  IteratorOpened(r, it, s, after, count, reverse)
<1>1. Shape /\ Recorded
  BY DEF StoreInv
<1>2. StartsOn(it, s, after, count, reverse)
  BY CursorType
<1>3. it.open = TRUE
  BY <1>2 DEF StartsOn, Iterator
<1>4. IterMapped(r, ViewOf(it, Held[s]))
  BY IteratorMapped
<1>5. QED
  BY <1>2, <1>3, <1>4 DEF StartsOn, IteratorOpened

\* The events of a stream that a segment of its cells holds.
Segment(S, s, first, a, b) ==
  S = {e \in Logged : e.stream = s /\ e.version >= first + a /\ e.version < first + a + b}

LEMMA SegmentOfLog ==
  ASSUME NEW cells \in Seq(Event), NEW s, NEW first \in Nat, Versioned(cells, s, first),
         IsFiniteSet(Logged), {e \in Logged : e.stream = s} = EventsOf(cells),
         NEW a \in Nat, NEW b \in Nat, a + b <= Len(cells), NEW S,
         Segment(S, s, first, a, b)
  PROVE  /\ HoldsSegment(Log!ByVersion(S), cells, a, b)
         /\ b <= Cardinality(Logged) /\ Cardinality(Logged) \in Nat
<1>1. S = {e \in Logged : e.stream = s /\ e.version >= first + a /\ e.version < first + a + b}
  BY DEF Segment
<1>2. CellSegment(S, cells, first, a, b)
  <2>1. \A e : e \in EventsOf(cells) <=> e \in Logged /\ e.stream = s
    OBVIOUS
  <2>2. QED
    BY <1>1, <2>1 DEF CellSegment
<1>3. HoldsSegment(Log!ByVersion(S), cells, a, b) /\ Cardinality(S) = b
  BY <1>2, SegmentByVersion
<1>4. S \in SUBSET Logged
  BY <1>1
<1>5. Cardinality(S) <= Cardinality(Logged) /\ Cardinality(Logged) \in Nat
  BY <1>4, FS_Subset, FS_CardinalityType
<1>6. QED
  BY <1>3, <1>5

LEMMA ForwardOpens ==
  ASSUME StoreInv, StoreInv', NEW r \in Reader, NEW s \in Stream, NEW after \in Nat, NEW count \in Nat,
         Written(streams[s]), IterEffect(r, StreamIterator(s, after, count, FALSE), Held[s])
  PROVE  Log!Open(r)
<1>1. PICK it : it = StreamIterator(s, after, count, FALSE)
  OBVIOUS
<1>2. CellsOpened(s) /\ IteratorOpened(r, it, s, after, count, FALSE)
  <2>1. IterEffect(r, it, Held[s]) /\ FALSE \in BOOLEAN
    BY <1>1
  <2>2. QED
    BY <1>1, <2>1, OpenedCells, OpenedIterator
<1> DEFINE cells == Held[s]
           first == streams[s].first
           len == streams[s].events.len
           tip == TipMap[s]
<1>2a. /\ first \in Nat /\ first >= 1 /\ len \in Nat /\ tip \in Nat /\ tip > 0 /\ tip = first + len - 1
       /\ cells \in Seq(Event) /\ Len(cells) = len /\ Versioned(cells, s, first)
       /\ \A i \in 1 .. len : cells[i].version = first + i - 1
       /\ {e \in Logged : e.stream = s} = EventsOf(cells)
       /\ IsFiniteSet(Logged)
       /\ it \in Iterator /\ SoundIterator(it) /\ it.open = TRUE
       /\ it.reverse = FALSE /\ it.limit = count /\ it.retrieved = 0 /\ it.events.len = len
       /\ it.cursor = ForwardCursor(streams[s], after)
       /\ IterMapped(r, ViewOf(it, cells))
  BY <1>2 DEF CellsOpened, IteratorOpened
<1>3. it.cursor = IF after - first + 1 > 0 THEN after - first + 1 ELSE 0
  BY <1>2a DEF ForwardCursor
<1> HIDE DEF cells, first, len, tip
<1>4. PICK a : a = IF it.cursor <= len THEN it.cursor ELSE len
  OBVIOUS
<1>5. PICK b : b = len - a
  OBVIOUS
<1>6. PICK k : k = Clipped(after, tip)
  OBVIOUS
<1>7. it.cursor \in Nat /\ a \in Nat /\ b \in Nat /\ a + b = len /\ k \in 0 .. tip
  <2>1. it.cursor \in Nat
    BY <1>2a, <1>3
  <2>2. a \in Nat /\ b \in Nat /\ a + b = len
    BY <1>2a, <1>4, <1>5, <2>1
  <2>3. k \in 0 .. tip
    BY <1>2a, <1>6 DEF Clipped
  <2>4. QED
    BY <2>1, <2>2, <2>3
<1>8. \A v \in first .. first + len - 1 : v > k <=> v >= first + a /\ v < first + a + b
  BY <1>2a, <1>3, <1>4, <1>5, <1>6 DEF Clipped
<1>9. PICK S : S = {e \in Logged : e.stream = s /\ e.version > k}
  OBVIOUS
<1>10. Segment(S, s, first, a, b)
  <2>1. \A e \in {e \in Logged : e.stream = s} : e.version \in first .. first + len - 1
    <3>1. \A i \in 1 .. len : cells[i].version \in first .. first + len - 1
      BY <1>2a
    <3>2. {e \in Logged : e.stream = s} = {cells[i] : i \in 1 .. len}
      BY <1>2a DEF EventsOf
    <3>3. QED
      BY <3>1, <3>2
  <2>2. \A e \in {e \in Logged : e.stream = s} :
          e.version > k <=> e.version >= first + a /\ e.version < first + a + b
    BY <1>8, <2>1
  <2>3. QED
    BY <1>9, <2>2 DEF Segment
<1>12. PICK q : q = Log!ByVersion(S)
  OBVIOUS
<1>13. /\ q \in Seq(Event) /\ Len(q) = b /\ \A i \in 1 .. b : q[i] = cells[a + i]
       /\ b <= Cardinality(Logged) /\ Cardinality(Logged) \in Nat
  <2>1. a + b <= Len(cells)
    BY <1>2a, <1>7
  <2>2. /\ HoldsSegment(q, cells, a, b)
        /\ b <= Cardinality(Logged) /\ Cardinality(Logged) \in Nat
    BY <1>2a, <1>7, <1>10, <1>12, <2>1, SegmentOfLog
  <2>3. QED
    BY <2>2 DEF HoldsSegment
<1>14. PICK c : c = Clipped(count, Cardinality(Logged))
  OBVIOUS
<1>15. c \in 0 .. Cardinality(Logged) /\ Cut(b, c) = Cut(b, count)
  BY <1>7, <1>13, <1>14, ClippedCut
<1>16. PICK rest : rest = Log!Counted(q, c)
  OBVIOUS
<1>17. /\ rest \in Seq(Event) /\ Len(rest) = Cut(b, count)
       /\ \A i \in 1 .. Cut(b, count) : rest[i] = q[i]
  <2>1. c \in Nat
    BY <1>15
  <2>2. /\ rest \in Seq(Event) /\ Len(rest) = Cut(Len(q), c)
        /\ \A i \in 1 .. Cut(Len(q), c) : rest[i] = q[i]
    BY <1>13, <1>16, <2>1, CountedList
  <2>3. QED
    BY <1>13, <1>15, <2>2
<1>18. Left(it) = Cut(b, count)
  <2>1. Way(it) = b
    BY <1>2a, <1>4, <1>5, <1>7 DEF Way
  <2>2. QED
    BY <1>2a, <1>7, <2>1, FreshLeft
<1>19. RestOf(rest, it, cells)
  <2>1. Cut(b, count) <= b /\ Cut(b, count) \in Nat
    BY <1>7 DEF Cut
  <2>2. ASSUME NEW i \in 1 .. Left(it)
        PROVE  Ahead(it, i) \in 1 .. Len(cells) /\ rest[i] = cells[Ahead(it, i)]
    <3>1. i \in 1 .. Cut(b, count) /\ i \in 1 .. b
      BY <1>7, <1>18, <2>1
    <3>2. it.cursor = a
      BY <1>2a, <1>4, <1>5, <1>7, <3>1
    <3>3. Ahead(it, i) = a + i
      BY <1>2a, <3>2 DEF Ahead
    <3>4. a + i \in 1 .. len
      <4>1. len \in Nat
        BY <1>2a
      <4>2. QED
        BY <1>7, <3>1, <4>1
    <3>5. rest[i] = cells[a + i]
      BY <1>13, <1>17, <3>1
    <3>6. QED
      BY <1>2a, <3>3, <3>4, <3>5
  <2>3. QED
    BY <1>17, <1>18, <2>2 DEF RestOf
<1>20. RemainingOf(it, cells) = rest
  <2>1. RestOf(RemainingOf(it, cells), it, cells)
    BY <1>2a, RemainingShape
  <2>2. QED
    BY <1>19, <2>1, RestUnique
<1>21. ViewOf(it, cells) = [open |-> TRUE, rest |-> rest]
  BY <1>2a, <1>20 DEF ViewOf
<1>22. rest = Log!Counted(Log!ByVersion({e \in Logged : e.stream = s /\ e.version > k}), c)
  BY <1>9, <1>12, <1>16
<1>23. TipMap[s] > 0 /\ k \in 0 .. TipMap[s]
  BY <1>2a, <1>7 DEF tip
<1>24. IterMapped(r, [open |-> TRUE, rest |-> rest])
  BY <1>2a, <1>21
<1>25. QED
  BY <1>15, <1>22, <1>23, <1>24, IsOpenStream

LEMMA ReversedList ==
  ASSUME NEW q \in Seq(Event)
  PROVE  /\ Log!Reverse(q) \in Seq(Event) /\ Len(Log!Reverse(q)) = Len(q)
         /\ \A i \in 1 .. Len(q) : Log!Reverse(q)[i] = q[(Len(q) - i) + 1]
<1> DEFINE n == Len(q)
           p == Log!Reverse(q)
<1>1. n \in Nat /\ \A i \in 1 .. n : q[i] \in Event
  BY LenProperties
<1>2. p = [i \in 1 .. n |-> q[(n - i) + 1]]
  BY DEF Log!Reverse
<1> HIDE DEF n, p
<1>3. \A i \in 1 .. n : (n - i) + 1 \in 1 .. n
  BY <1>1
<1>4. p \in [1 .. n -> Event]
  BY <1>1, <1>2, <1>3
<1>5. p \in Seq(Event)
  BY <1>1, <1>4, SeqDef
<1>6. Len(p) = n
  BY <1>1, <1>4, <1>5, LenProperties
<1>7. QED
  BY <1>2, <1>5, <1>6 DEF n, p

LEMMA ReverseOpens ==
  ASSUME StoreInv, StoreInv', NEW r \in Reader, NEW s \in Stream, NEW after \in Nat, NEW count \in Nat,
         Written(streams[s]), IterEffect(r, StreamIterator(s, after, count, TRUE), Held[s])
  PROVE  Log!Open(r)
<1>1. PICK it : it = StreamIterator(s, after, count, TRUE)
  OBVIOUS
<1>2. CellsOpened(s) /\ IteratorOpened(r, it, s, after, count, TRUE)
  <2>1. IterEffect(r, it, Held[s]) /\ TRUE \in BOOLEAN
    BY <1>1
  <2>2. QED
    BY <1>1, <2>1, OpenedCells, OpenedIterator
<1> DEFINE cells == Held[s]
           first == streams[s].first
           len == streams[s].events.len
           tip == TipMap[s]
<1>2a. /\ first \in Nat /\ first >= 1 /\ len \in Nat /\ tip \in Nat /\ tip > 0 /\ tip = first + len - 1
       /\ cells \in Seq(Event) /\ Len(cells) = len /\ Versioned(cells, s, first)
       /\ \A i \in 1 .. len : cells[i].version = first + i - 1
       /\ {e \in Logged : e.stream = s} = EventsOf(cells)
       /\ IsFiniteSet(Logged)
       /\ it \in Iterator /\ SoundIterator(it) /\ it.open = TRUE
       /\ it.reverse = TRUE /\ it.limit = count /\ it.retrieved = 0 /\ it.events.len = len
       /\ it.cursor = ReverseCursor(streams[s], after)
       /\ IterMapped(r, ViewOf(it, cells))
  BY <1>2 DEF CellsOpened, IteratorOpened
<1>3. it.cursor = IF after > 0 /\ after - first < len THEN after - first ELSE len - 1
  BY <1>2a DEF ReverseCursor
<1> HIDE DEF cells, first, len, tip
<1>4. PICK b : b = IF it.cursor < 0 THEN 0 ELSE it.cursor + 1
  OBVIOUS
<1>5. PICK k : k = Clipped(after, tip)
  OBVIOUS
<1>6. it.cursor \in Int /\ it.cursor < len /\ b \in Nat /\ b <= len /\ k \in 0 .. tip
  BY <1>2a, <1>3, <1>4, <1>5 DEF Clipped
<1>7. \A v \in first .. first + len - 1 : (k = 0 \/ v <= k) <=> v >= first + 0 /\ v < first + 0 + b
  BY <1>2a, <1>3, <1>4, <1>5 DEF Clipped
<1>8. PICK S : S = {e \in Logged : e.stream = s /\ (k = 0 \/ e.version <= k)}
  OBVIOUS
<1>9. Segment(S, s, first, 0, b)
  <2>1. \A e \in {e \in Logged : e.stream = s} : e.version \in first .. first + len - 1
    <3>1. \A i \in 1 .. len : cells[i].version \in first .. first + len - 1
      BY <1>2a
    <3>2. {e \in Logged : e.stream = s} = {cells[i] : i \in 1 .. len}
      BY <1>2a DEF EventsOf
    <3>3. QED
      BY <3>1, <3>2
  <2>2. \A e \in {e \in Logged : e.stream = s} :
          (k = 0 \/ e.version <= k) <=> e.version >= first + 0 /\ e.version < first + 0 + b
    BY <1>7, <2>1
  <2>3. QED
    BY <1>8, <2>2 DEF Segment
<1>11. PICK q : q = Log!ByVersion(S)
  OBVIOUS
<1>12. /\ q \in Seq(Event) /\ Len(q) = b /\ \A i \in 1 .. b : q[i] = cells[0 + i]
       /\ b <= Cardinality(Logged) /\ Cardinality(Logged) \in Nat
  <2>1. 0 + b <= Len(cells) /\ 0 \in Nat
    BY <1>2a, <1>6
  <2>2. /\ HoldsSegment(q, cells, 0, b)
        /\ b <= Cardinality(Logged) /\ Cardinality(Logged) \in Nat
    BY <1>2a, <1>6, <1>9, <1>11, <2>1, SegmentOfLog
  <2>3. QED
    BY <2>2 DEF HoldsSegment
<1>13. PICK p : p = Log!Reverse(q)
  OBVIOUS
<1>14. p \in Seq(Event) /\ Len(p) = b /\ \A i \in 1 .. b : p[i] = cells[(b - i) + 1]
  <2>1. p \in Seq(Event) /\ Len(p) = b /\ \A i \in 1 .. b : p[i] = q[(b - i) + 1]
    BY <1>12, <1>13, ReversedList
  <2>2. \A i \in 1 .. b : (b - i) + 1 \in 1 .. b /\ 0 + ((b - i) + 1) = (b - i) + 1
    BY <1>6
  <2>3. \A i \in 1 .. b : q[(b - i) + 1] = cells[0 + ((b - i) + 1)]
    BY <1>12, <2>2
  <2>4. QED
    BY <2>1, <2>2, <2>3
<1>15. PICK c : c = Clipped(count, Cardinality(Logged))
  OBVIOUS
<1>16. c \in 0 .. Cardinality(Logged) /\ Cut(b, c) = Cut(b, count)
  BY <1>6, <1>12, <1>15, ClippedCut
<1>17. PICK rest : rest = Log!Counted(p, c)
  OBVIOUS
<1>18. /\ rest \in Seq(Event) /\ Len(rest) = Cut(b, count)
       /\ \A i \in 1 .. Cut(b, count) : rest[i] = p[i]
  <2>1. c \in Nat
    BY <1>16
  <2>2. /\ rest \in Seq(Event) /\ Len(rest) = Cut(Len(p), c)
        /\ \A i \in 1 .. Cut(Len(p), c) : rest[i] = p[i]
    BY <1>14, <1>17, <2>1, CountedList
  <2>3. QED
    BY <1>14, <1>16, <2>2
<1>19. Left(it) = Cut(b, count)
  <2>1. Way(it) = b
    BY <1>2a, <1>4 DEF Way
  <2>2. QED
    BY <1>2a, <1>6, <2>1, FreshLeft
<1>20. RestOf(rest, it, cells)
  <2>1. Cut(b, count) <= b /\ Cut(b, count) \in Nat
    BY <1>6 DEF Cut
  <2>2. ASSUME NEW i \in 1 .. Left(it)
        PROVE  Ahead(it, i) \in 1 .. Len(cells) /\ rest[i] = cells[Ahead(it, i)]
    <3>1. i \in 1 .. Cut(b, count) /\ i \in 1 .. b
      BY <1>6, <1>19, <2>1
    <3>2. it.cursor + 1 = b
      BY <1>4, <1>6, <3>1
    <3>3. Ahead(it, i) = (b - i) + 1
      <4>1. Ahead(it, i) = it.cursor + 2 - i
        BY <1>2a DEF Ahead
      <4>2. QED
        BY <1>6, <3>1, <3>2, <4>1
    <3>4. (b - i) + 1 \in 1 .. len
      BY <1>2a, <1>6, <3>1
    <3>5. rest[i] = cells[(b - i) + 1]
      BY <1>14, <1>18, <3>1
    <3>6. QED
      BY <1>2a, <3>3, <3>4, <3>5
  <2>3. QED
    BY <1>18, <1>19, <2>2 DEF RestOf
<1>21. RemainingOf(it, cells) = rest
  <2>1. RestOf(RemainingOf(it, cells), it, cells)
    BY <1>2a, RemainingShape
  <2>2. QED
    BY <1>20, <2>1, RestUnique
<1>22. ViewOf(it, cells) = [open |-> TRUE, rest |-> rest]
  BY <1>2a, <1>21 DEF ViewOf
<1>23. rest = Log!Counted(Log!Reverse(Log!ByVersion(
                {e \in Logged : e.stream = s /\ (k = 0 \/ e.version <= k)})), c)
  BY <1>8, <1>11, <1>13, <1>17
<1>24. TipMap[s] > 0 /\ k \in 0 .. TipMap[s]
  BY <1>2a, <1>6 DEF tip
<1>25. IterMapped(r, [open |-> TRUE, rest |-> rest])
  BY <1>2a, <1>22
<1>26. QED
  BY <1>16, <1>23, <1>24, <1>25, IsOpenStream

-----------------------------------------------------------------------------
(* The refinement.                                                          *)

LEMMA LogStarts ==
  ASSUME Init
  PROVE  Log!Init
<1>1. Logged = {}
  BY DEF Init, Logged
<1>2. LogTips = [s \in Stream |-> 0]
  BY DEF Init, LogTips, Written
<1>3. LogReading = [r \in Reader |-> Log!Closed]
  BY DEF Init, LogReading, Log!Closed, NoIterator
<1>4. counter = 0
  BY DEF Init
<1>5. QED
  BY <1>1, <1>2, <1>3, <1>4 DEF Log!Init, LogTips, LogReading

LEMMA LogStutters ==
  ASSUME UNCHANGED vars
  PROVE  UNCHANGED Log!vars
<1>1. /\ counter' = counter /\ streams' = streams /\ globalLog' = globalLog /\ iter' = iter
      /\ array' = array
  BY DEF vars
<1>2. Logged' = Logged
  BY <1>1 DEF Logged, Cells
<1>3. LogTips' = LogTips
  BY <1>1 DEF LogTips
<1>4. LogReading' = LogReading
  <2>1. Read' = Read
    BY <1>1 DEF Read, Cells
  <2>2. QED
    BY <1>1, <2>1, ReadersUnmoved, Mapped, MappedNext
<1>5. QED
  BY <1>1, <1>2, <1>3, <1>4 DEF Log!vars, LogTips, LogReading

\* Every step of the store is a step of the event log: a refused or failing append is
\* an empty commit, a truncation beyond the tip one at the tip.
LEMMA WritesOfLog ==
  ASSUME StoreInv, StoreInv', Appends \/ Marks \/ Deletes \/ Truncates
  PROVE  Log!Next
<1>1. SUFFICES \E s \in Stream :
                 Log!Commit(s) \/ Log!Delete(s) \/ \E v \in 1 .. LogTips[s] : Log!Truncate(s, v)
  BY DEF Log!Next, LogTips
<1>2. 0 .. MaxBatch \subseteq Nat
  BY StoreBounds
<1>3. CASE Appends
  <2>1. PICK s \in Stream, n \in 0 .. MaxBatch : AppendEffect(s, n)
    BY <1>3 DEF Appends
  <2>2. n \in Nat
    BY <1>2, <2>1
  <2>3. Log!Commit(s)
    BY <2>1, <2>2, AppendCommits
  <2>4. QED
    BY <2>3
<1>4. CASE Marks
  <2>1. PICK s \in Stream, n \in 0 .. MaxBatch : MarkEffect(s, n)
    BY <1>4 DEF Marks
  <2>2. n \in Nat
    BY <1>2, <2>1
  <2>3. Log!Commit(s)
    BY <2>1, <2>2, MarkCommits
  <2>4. QED
    BY <2>3
<1>5. CASE Deletes
  <2>1. PICK s \in Stream : /\ DropEffect(s, Infinite)
                            /\ Written(streams[s]) /\ streams' = [streams EXCEPT ![s] = NoEntry]
                            /\ \A e \in EventsOf(Cells(globalLog)) :
                                 Dropped(e, s, Infinite) <=> e.stream = s
    BY <1>5 DEF Deletes
  <2>2. Log!Delete(s)
    BY <2>1, DeleteDeletes
  <2>3. QED
    BY <2>2
<1>6. CASE Truncates
  <2>1. PICK s \in Stream, v \in 1 .. MaxPosition :
               /\ DropEffect(s, CutOf(s, v))
               /\ Written(streams[s]) /\ Written(streams'[s])
               /\ TipOf(streams'[s]) = TipOf(streams[s])
               /\ CutOf(s, v) \in 1 .. TipOf(streams[s])
    BY <1>6 DEF Truncates
  <2>2. PICK w : w = CutOf(s, v)
    OBVIOUS
  <2>3. Log!Truncate(s, w) /\ w \in 1 .. TipMap[s]
    BY <2>1, <2>2, TruncateTruncates
  <2>4. w \in 1 .. LogTips[s]
    BY <2>3, Mapped
  <2>5. QED
    BY <2>3, <2>4
<1>7. QED
  BY <1>3, <1>4, <1>5, <1>6

LEMMA ReadsOfLog ==
  ASSUME StoreInv, StoreInv', OpensStream \/ OpensAll \/ Advances \/ Closes
  PROVE  Log!Next
<1>1. SUFFICES \E r \in Reader : Log!Open(r) \/ Log!Yield(r) \/ Log!Close(r)
  BY DEF Log!Next
<1>2. 0 .. MaxPosition \subseteq Nat /\ 0 .. MaxCount \subseteq Nat
  BY StoreBounds
<1>3. CASE OpensStream
  <2>1. PICK r \in Reader, s \in Stream, after \in 0 .. MaxPosition, count \in 0 .. MaxCount,
             reverse \in BOOLEAN :
               /\ Written(streams[s])
               /\ IterEffect(r, StreamIterator(s, after, count, reverse), Held[s])
    BY <1>3 DEF OpensStream
  <2>2. after \in Nat /\ count \in Nat
    BY <1>2, <2>1
  <2>3. CASE reverse = FALSE
    <3>1. IterEffect(r, StreamIterator(s, after, count, FALSE), Held[s])
      BY <2>1, <2>3
    <3>2. Log!Open(r)
      BY <2>1, <2>2, <3>1, ForwardOpens
    <3>3. QED
      BY <3>2
  <2>4. CASE reverse = TRUE
    <3>1. IterEffect(r, StreamIterator(s, after, count, TRUE), Held[s])
      BY <2>1, <2>4
    <3>2. Log!Open(r)
      BY <2>1, <2>2, <3>1, ReverseOpens
    <3>3. QED
      BY <3>2
  <2>5. QED
    BY <2>1, <2>3, <2>4
<1>4. CASE OpensAll
  <2>1. PICK r \in Reader, after \in 0 .. MaxPosition, count \in 0 .. MaxCount :
               /\ IterEffect(r, GlobalIterator(Captured(after).slice, count), Above(after))
               /\ Captured(after).slice.len = Len(Above(after))
    BY <1>4 DEF OpensAll
  <2>2. after \in Nat /\ count \in Nat
    BY <1>2, <2>1
  <2>3. Log!Open(r)
    BY <2>1, <2>2, OpensAllOpens
  <2>4. QED
    BY <2>3
<1>5. CASE Advances
  <2>1. PICK r \in Reader : iter[r].open /\ ~Exhausted(iter[r]) /\ AdvanceEffect(r)
    BY <1>5 DEF Advances
  <2>2. Log!Yield(r)
    BY <2>1, AdvanceYields
  <2>3. QED
    BY <2>2
<1>6. CASE Closes
  <2>1. PICK r \in Reader : IterEffect(r, NoIterator, <<>>)
    BY <1>6 DEF Closes
  <2>2. Log!Close(r)
    BY <2>1, CloseCloses
  <2>3. QED
    BY <2>2
<1>7. QED
  BY <1>3, <1>4, <1>5, <1>6

LEMMA LogSteps ==
  ASSUME StoreInv, [Next]_vars
  PROVE  [Log!Next]_(Log!vars)
<1>1. CASE UNCHANGED vars
  BY <1>1, LogStutters
<1>2. CASE Next
  <2>1. StoreInv' /\ Step
    BY <1>2, StoreNext
  <2>2. Log!Next
    BY <2>1, WritesOfLog, ReadsOfLog DEF Step
  <2>3. QED
    BY <2>2
<1>3. QED
  BY <1>1, <1>2

\* The store keeps what an event log promises: an append commits all of its events or
\* none, a truncation leaves the tip, and what an open iterator still yields is what its
\* options selected when it was opened, through every append into the spare capacity of
\* its array and every compaction of the log it was read from.
THEOREM StoreKeepsEventLog == Spec => KeepsEventLog
<1>1. Init => Log!Init
  BY LogStarts
<1>2. StoreInv /\ [Next]_vars => [Log!Next]_(Log!vars)
  BY LogSteps
<1>3. QED
  BY <1>1, <1>2, StoreInvariant, PTL DEF Spec, KeepsEventLog, Log!Spec
=============================================================================
