-------------------------- MODULE MemoryEventStore --------------------------
(***************************************************************************)
(* The in-memory event store (memory/event_store.go, stream_iterator.go).  *)
(* Appends and deletions run under the store's lock; iterators do not.  An *)
(* iterator keeps the very slice it was opened on, so the model keeps the  *)
(* arrays behind the slices: an append may write the spare capacity of the *)
(* array an iterator reads or move to a new one, a truncation re-slices,   *)
(* and dropFromGlobalLog compacts its array in place.                      *)
(*                                                                         *)
(* A definition named Mutant... is a deliberately wrong variant of the one *)
(* that follows it, used to show that a property notices; no specification *)
(* refers to it.                                                           *)
(***************************************************************************)
EXTENDS Integers, FiniteSets, SequencesExt

CONSTANTS
  Stream,        \* stream IDs
  Reader,        \* clients, each with at most one open iterator
  MaxPosition,   \* bound: global positions given out
  MaxBatch,      \* bound: events of one append
  MaxCount       \* bound: a read's Count; an expected version

ASSUME StoreBounds == MaxPosition \in Nat /\ MaxBatch \in Nat /\ MaxCount \in Nat
ASSUME FiniteClients == IsFiniteSet(Stream) /\ IsFiniteSet(Reader)

VARIABLES
  counter,     \* globalCounter
  streams,     \* the streams map; NoEntry where the key is absent
  globalLog,   \* the slice of global log entries
  iter,        \* each reader's iterator
  array,       \* the arrays behind the slices
  yielded      \* the highest position a global read has ever yielded

vars == <<counter, streams, globalLog, iter, array, yielded>>

-----------------------------------------------------------------------------
(* Slices.                                                                  *)

\* Every slice has an array of its own at most, and an append needs one more.
Array == 1 .. Cardinality(Stream) + Cardinality(Reader) + 2
Nil == [array |-> 0, off |-> 0, len |-> 0]

CellsIn(heap, slice) ==
  IF slice.array = 0 THEN <<>>
  ELSE SubSeq(heap[slice.array], slice.off + 1, slice.off + slice.len)
Cells(slice) == CellsIn(array, slice)

\* An array no slice refers to.
Fresh == CHOOSE a \in Array :
           /\ \A s \in Stream : streams[s].events.array # a
           /\ globalLog.array # a
           /\ \A r \in Reader : iter[r].events.array # a

\* append: into the array's spare capacity, or into a copy at array a.
Grown(heap, slice, events, a) ==
  LET end     == slice.off + slice.len
      cells   == heap[slice.array]
      inPlace == SubSeq(cells, 1, end) \o events
                   \o SubSeq(cells, end + Len(events) + 1, Len(cells))
  IN  {[heap  |-> [heap EXCEPT ![a] = CellsIn(heap, slice) \o events],
        slice |-> [array |-> a, off |-> 0, len |-> slice.len + Len(events)]]}
      \cup (IF slice.array = 0 THEN {}
            ELSE {[heap  |-> [heap EXCEPT ![slice.array] = inPlace],
                   slice |-> [slice EXCEPT !.len = @ + Len(events)]]})

\* The next state of the store; cells that no slice reaches are collected.
Becomes(heap, st, log, it) ==
  LET slices   == {log} \cup {st[s].events : s \in Stream} \cup {it[r].events : r \in Reader}
      Reach(a) == Max({0} \cup {z.off + z.len : z \in {z \in slices : z.array = a}})
  IN  /\ streams' = st
      /\ globalLog' = log
      /\ iter' = it
      /\ array' = [a \in Array |-> SubSeq(heap[a], 1, Reach(a))]

-----------------------------------------------------------------------------
(* Streams.                                                                 *)

NoEntry  == [first |-> 0, events |-> Nil]
NewEntry == [first |-> 1, events |-> Nil]

TipOf(entry) == entry.first + entry.events.len - 1

\* Neither an absent entry nor one that a refused append left behind.
Written(entry) == entry # NoEntry /\ ~(entry.events.len = 0 /\ entry.first = 1)

Entry(s) == IF streams[s] = NoEntry THEN NewEntry ELSE streams[s]

\* AppendStream's options: no expectation, StreamMustNotExist, or a version.
AnyVersion == -1
MustNotExist == -2
Expectation == {AnyVersion, MustNotExist} \cup 0 .. MaxCount

Mismatch(expect, tip) ==
  \/ expect = MustNotExist /\ tip > 0
  \/ expect >= 0 /\ expect # tip

\* Positions are allocated from a counter that deletions never lower.
MutantPositionFromLog == globalLog.len
LastPosition == counter

\* The events of an append of n.
NewEvents(s, n) ==
  [i \in 1 .. n |-> [position |-> LastPosition + i, stream |-> s,
                     version  |-> TipOf(Entry(s)) + i]]

\* A successful append publishes to the stream and to the global log at once.
AppendStream(s, n, expect) ==
  LET new == NewEvents(s, n)
  IN  /\ counter + n <= MaxPosition
      /\ ~Mismatch(expect, TipOf(Entry(s)))
      /\ counter' = counter + n
      /\ \E grown \in IF n = 0 THEN {[heap |-> array, slice |-> Entry(s).events]}
                      ELSE Grown(array, Entry(s).events, new, Fresh) :
           \E log \in Grown(grown.heap, globalLog, new, globalLog.array) :
             Becomes(log.heap,
                     [streams EXCEPT ![s] = [Entry(s) EXCEPT !.events = grown.slice]],
                     log.slice, iter)
      /\ UNCHANGED yielded

\* A refused append leaves an entry without events behind.
AppendRefused(s, expect) ==
  /\ Mismatch(expect, TipOf(Entry(s)))
  /\ Becomes(array, [streams EXCEPT ![s] = Entry(s)], globalLog, iter)
  /\ UNCHANGED <<counter, yielded>>

\* An event that cannot be encoded fails the append behind the positions already
\* consumed; nothing of it is published.
AppendFails(s, n, expect) ==
  /\ counter + n <= MaxPosition
  /\ ~Mismatch(expect, TipOf(Entry(s)))
  /\ counter' = counter + n
  /\ Becomes(array, [streams EXCEPT ![s] = Entry(s)], globalLog, iter)
  /\ UNCHANGED yielded

-----------------------------------------------------------------------------
(* Deletion.                                                                *)

\* dropFromGlobalLog: the kept entries move to the front of the same array,
\* the cells behind them keep what they held.
MutantDropBelow(e, s, v) == e.stream = s /\ e.version < v
Dropped(e, s, v) == e.stream = s /\ e.version <= v

\* What its loop has kept of the first i of these cells.
Keeping(cells, s, v) ==
  LET kept[i \in 0 .. Len(cells)] ==
        IF i = 0 THEN <<>>
        ELSE IF Dropped(cells[i], s, v) THEN kept[i - 1]
        ELSE Append(kept[i - 1], cells[i])
  IN  kept

Compacted(s, v) ==
  LET kept == Keeping(Cells(globalLog), s, v)[globalLog.len]
      old  == array[globalLog.array]
  IN  [heap  |-> [array EXCEPT ![globalLog.array] =
                    kept \o SubSeq(old, Len(kept) + 1, Len(old))],
       slice |-> [globalLog EXCEPT !.len = Len(kept)]]

Infinite == MaxPosition + 1

DeleteStream(s) ==
  LET log == Compacted(s, Infinite)
  IN  /\ Written(streams[s])
      /\ Becomes(log.heap, [streams EXCEPT ![s] = NoEntry], log.slice, iter)
      /\ UNCHANGED <<counter, yielded>>

\* The entry that keeps only what lies above version cut.
Truncated(entry, cut, removed) ==
  [first  |-> cut + 1,
   events |-> [entry.events EXCEPT !.off = @ + removed, !.len = @ - removed]]

TruncateStream(s, v) ==
  LET entry   == streams[s]
      cut     == IF v < TipOf(entry) THEN v ELSE TipOf(entry)
      removed == cut - entry.first + 1
      log     == Compacted(s, cut)
  IN  /\ Written(entry)
      /\ removed > 0
      /\ Becomes(log.heap, [streams EXCEPT ![s] = Truncated(entry, cut, removed)],
                 log.slice, iter)
      /\ UNCHANGED <<counter, yielded>>

-----------------------------------------------------------------------------
(* Reads.                                                                   *)

NoIterator == [open |-> FALSE, global |-> FALSE, events |-> Nil, cursor |-> 0,
               reverse |-> FALSE, limit |-> 0, retrieved |-> 0]

\* startCursor, a 0-based index.
ForwardCursor(entry, after) ==
  LET cursor == after - entry.first + 1 IN IF cursor > 0 THEN cursor ELSE 0
ReverseCursor(entry, after) ==
  LET cursor == after - entry.first
  IN  IF after > 0 /\ cursor < entry.events.len THEN cursor ELSE entry.events.len - 1

ReadStream(r, s, after, count, reverse) ==
  LET entry == streams[s]
  IN  /\ ~iter[r].open
      /\ Written(entry)
      /\ Becomes(array, streams, globalLog, [iter EXCEPT ![r] =
           [NoIterator EXCEPT
              !.open = TRUE, !.events = entry.events, !.reverse = reverse, !.limit = count,
              !.cursor = IF reverse THEN ReverseCursor(entry, after)
                         ELSE ForwardCursor(entry, after)]])
      /\ UNCHANGED <<counter, yielded>>

\* sort.Search: an index of the log with nothing above the bound before it and
\* the first entry above the bound, if there is one, behind it.
Start(after) ==
  CHOOSE i \in 0 .. globalLog.len :
    /\ i > 0 => Cells(globalLog)[i].position <= after
    /\ i < globalLog.len => Cells(globalLog)[i + 1].position > after

\* The tail a global read captures, and the array it captures it in: a copy,
\* because a deletion compacts the log where it stands.
Above(after) == SubSeq(Cells(globalLog), Start(after) + 1, globalLog.len)
MutantCaptureInPlace(after) ==
  LET n == Len(Above(after))
  IN  [heap  |-> array,
       slice |-> [globalLog EXCEPT !.off = globalLog.len - n, !.len = n]]
Captured(after) ==
  [heap  |-> [array EXCEPT ![Fresh] = Above(after)],
   slice |-> [array |-> Fresh, off |-> 0, len |-> Len(Above(after))]]

ReadAll(r, after, count) ==
  /\ ~iter[r].open
  /\ Becomes(Captured(after).heap, streams, globalLog, [iter EXCEPT ![r] =
       [NoIterator EXCEPT !.open = TRUE, !.global = TRUE, !.limit = count,
                          !.events = Captured(after).slice]])
  /\ UNCHANGED <<counter, yielded>>

Exhausted(it) ==
  \/ IF it.reverse THEN it.cursor < 0 ELSE it.cursor >= it.events.len
  \/ it.limit > 0 /\ it.retrieved >= it.limit

Current(it) == Cells(it.events)[it.cursor + 1]

NextEvent(r) ==
  LET it == iter[r]
  IN  /\ it.open /\ ~Exhausted(it)
      /\ iter' = [iter EXCEPT
           ![r].cursor = IF it.reverse THEN @ - 1 ELSE @ + 1,
           ![r].retrieved = @ + 1]
      /\ yielded' = IF it.global /\ Current(it).position > yielded
                      THEN Current(it).position ELSE yielded
      /\ UNCHANGED <<counter, streams, globalLog, array>>

Close(r) ==
  /\ iter[r].open
  /\ Becomes(array, streams, globalLog, [iter EXCEPT ![r] = NoIterator])
  /\ UNCHANGED <<counter, yielded>>

-----------------------------------------------------------------------------
Init ==
  /\ counter = 0
  /\ streams = [s \in Stream |-> NoEntry]
  /\ globalLog = [array |-> 1, off |-> 0, len |-> 0]
  /\ iter = [r \in Reader |-> NoIterator]
  /\ array = [a \in Array |-> <<>>]
  /\ yielded = 0

Writes(s) ==
  \/ \E n \in 0 .. MaxBatch, expect \in Expectation : AppendStream(s, n, expect)
  \/ \E expect \in Expectation : AppendRefused(s, expect)
  \/ \E n \in 1 .. MaxBatch, expect \in Expectation : AppendFails(s, n, expect)
  \/ DeleteStream(s)
  \/ \E v \in 1 .. MaxPosition : TruncateStream(s, v)

Reads(r) ==
  \/ \E s \in Stream, after \in 0 .. MaxPosition, count \in 0 .. MaxCount, reverse \in BOOLEAN :
       ReadStream(r, s, after, count, reverse)
  \/ \E after \in 0 .. MaxPosition, count \in 0 .. MaxCount : ReadAll(r, after, count)
  \/ NextEvent(r) \/ Close(r)

Next == (\E s \in Stream : Writes(s)) \/ (\E r \in Reader : Reads(r))

Spec == Init /\ [][Next]_vars

-----------------------------------------------------------------------------
(* Properties.                                                              *)

Logged == {Cells(globalLog)[i] : i \in 1 .. globalLog.len}

\* The two records of a commit never part, whatever was appended, refused,
\* failed, truncated and deleted: each stream holds its versions without a gap,
\* and the global log exactly the events of all streams, in position order.
GlobalMatchesStreams ==
  /\ \A i, j \in 1 .. globalLog.len :
       i < j => Cells(globalLog)[i].position < Cells(globalLog)[j].position
  /\ \A s \in Stream :
       {e \in Logged : e.stream = s} =
         {Cells(streams[s].events)[i] : i \in 1 .. streams[s].events.len}
  /\ \A s \in Stream : \A i \in 1 .. streams[s].events.len :
       Cells(streams[s].events)[i].version = streams[s].first + i - 1

\* A position a global read has yielded is a checkpoint: no event ever appears
\* at or below it afterwards, not even when the newest events were deleted.
YieldedIsSettled ==
  [][\A e \in Logged' \ Logged : e.position > yielded]_vars

\* What an iterator will still yield if nothing else happens.
Remaining(it) ==
  LET cells == Cells(it.events)
      path  == IF it.reverse THEN Reverse(SubSeq(cells, 1, it.cursor + 1))
               ELSE SubSeq(cells, it.cursor + 1, Len(cells))
  IN  IF it.limit = 0 THEN path
      ELSE SubSeq(path, 1, Min({Len(path), it.limit - it.retrieved}))

Log == INSTANCE EventLog WITH
  committed <- Logged,
  tip       <- [s \in Stream |-> IF Written(streams[s]) THEN TipOf(streams[s]) ELSE 0],
  allocated <- counter,
  reading   <- [r \in Reader |-> [open |-> iter[r].open,
                                  rest |-> IF iter[r].open THEN Remaining(iter[r]) ELSE <<>>]]

\* The store implements the event log: appends are all or nothing, truncation
\* keeps the tip, and an open iterator's result is the one its options had when
\* it was opened.
KeepsEventLog == Log!Spec
=============================================================================
