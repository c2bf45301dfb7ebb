------------------------------ MODULE EventLog ------------------------------
(***************************************************************************)
(* What an event store promises its clients, without slices, indexes or    *)
(* locks: events committed to streams and, at ever higher positions, to    *)
(* one global sequence; whole streams or their oldest events deleted; and  *)
(* reads whose result is settled the moment they are opened, whatever is   *)
(* appended or deleted afterwards.  MemoryEventStore implements it.        *)
(***************************************************************************)
EXTENDS Integers, FiniteSets, SequencesExt

CONSTANTS Stream, Reader

VARIABLES
  committed,   \* the events that are there: [position, stream, version]
  tip,         \* each stream's latest version, 0 for one that does not exist
  allocated,   \* the highest position ever given out, to whatever end
  reading      \* what each open read still has to yield, or Closed

vars == <<committed, tip, allocated, reading>>

Closed == [open |-> FALSE, rest |-> <<>>]
Opened(events) == [open |-> TRUE, rest |-> events]

-----------------------------------------------------------------------------
\* The events of S in ascending order, and a list cut to the first count when
\* count is positive.
ByPosition(S) ==
  CHOOSE q \in [1 .. Cardinality(S) -> S] :
    \A i, j \in DOMAIN q : i < j => q[i].position < q[j].position
ByVersion(S) ==
  CHOOSE q \in [1 .. Cardinality(S) -> S] :
    \A i, j \in DOMAIN q : i < j => q[i].version < q[j].version
Counted(events, count) ==
  IF count > 0 /\ count < Len(events) THEN SubSeq(events, 1, count) ELSE events

\* ReadAllOptions: an exclusive lower bound and a count.
GlobalResult(after, count) ==
  Counted(ByPosition({e \in committed : e.position > after}), count)

\* ReadStreamOptions: forward from above a version, or in reverse from a version
\* down, 0 standing for the tip.
ForwardResult(s, after, count) ==
  Counted(ByVersion({e \in committed : e.stream = s /\ e.version > after}), count)
ReverseResult(s, after, count) ==
  Counted(Reverse(ByVersion({e \in committed :
            e.stream = s /\ (after = 0 \/ e.version <= after)})), count)

Count == 0 .. Cardinality(committed)

-----------------------------------------------------------------------------
Init ==
  /\ committed = {}
  /\ tip = [s \in Stream |-> 0]
  /\ allocated = 0
  /\ reading = [r \in Reader |-> Closed]

\* Events join a stream above its tip and the sequence above every position
\* ever given out, in the same order, all of them or none.
Commit(s) ==
  LET new == committed' \ committed
  IN  /\ committed \subseteq committed'
      /\ \A e \in new :
           /\ e.stream = s
           /\ e.position \in allocated + 1 .. allocated'
      /\ {e.version : e \in new} = tip[s] + 1 .. tip[s] + Cardinality(new)
      /\ \A d, e \in new : d.version < e.version <=> d.position < e.position
      /\ tip' = [tip EXCEPT ![s] = @ + Cardinality(new)]
      /\ allocated' >= allocated
      /\ UNCHANGED reading

\* A deleted stream may begin again at version 1.
Delete(s) ==
  /\ tip[s] > 0
  /\ committed' = {e \in committed : e.stream # s}
  /\ tip' = [tip EXCEPT ![s] = 0]
  /\ UNCHANGED <<allocated, reading>>

\* A truncated one continues from its tip.
Truncate(s, v) ==
  /\ committed' = {e \in committed : e.stream # s \/ e.version > v}
  /\ UNCHANGED <<tip, allocated, reading>>

\* Only a read of a stream that does not exist fails.
Open(r) ==
  /\ \/ \E after \in 0 .. allocated, count \in Count :
          reading' = [reading EXCEPT ![r] = Opened(GlobalResult(after, count))]
     \/ \E s \in {s \in Stream : tip[s] > 0}, count \in Count :
          \E after \in 0 .. tip[s] :
            \/ reading' = [reading EXCEPT ![r] = Opened(ForwardResult(s, after, count))]
            \/ reading' = [reading EXCEPT ![r] = Opened(ReverseResult(s, after, count))]
  /\ UNCHANGED <<committed, tip, allocated>>

Yield(r) ==
  /\ reading[r].rest # <<>>
  /\ reading' = [reading EXCEPT ![r].rest = Tail(@)]
  /\ UNCHANGED <<committed, tip, allocated>>

Close(r) ==
  /\ reading' = [reading EXCEPT ![r] = Closed]
  /\ UNCHANGED <<committed, tip, allocated>>

Next ==
  \/ \E s \in Stream : Commit(s) \/ Delete(s) \/ \E v \in 1 .. tip[s] : Truncate(s, v)
  \/ \E r \in Reader : Open(r) \/ Yield(r) \/ Close(r)

Spec == Init /\ [][Next]_vars
=============================================================================
