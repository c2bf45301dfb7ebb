--------------------------- MODULE AggregateStore ---------------------------
(***************************************************************************)
(* Clients of one aggregate through the store stack: the event-sourced     *)
(* store (event_sourced_store.go, aggregate.go), the snapshotting store    *)
(* over it with an in-memory or an event-stream snapshot store, and the    *)
(* cached store on top.  An event is a number, given out once; the state   *)
(* of an aggregate is the sequence of the events applied to it, so that a  *)
(* state tells every history apart.                                        *)
(*                                                                         *)
(* A definition named Mutant... is a deliberately wrong variant of the one *)
(* that follows it, used to show that a property notices; no specification *)
(* refers to it.                                                           *)
(***************************************************************************)
EXTENDS Integers, FiniteSets, SequencesExt

CONSTANTS
  Client,        \* processes working on the aggregate, one copy each
  MaxEvents,     \* bound: events ever given out
  MaxQueue,      \* bound: unapplied events of a copy that is hydrated once more
  MaxSnapshots   \* WithMaxSnapshots, and the memory store's retention

ASSUME StackBounds == MaxEvents \in Nat /\ MaxQueue \in Nat /\ MaxSnapshots \in Nat \ {0}

VARIABLES
  backend,    \* the snapshot store: "memory", "eventstream", or "none", where the
              \* cached store wraps the event-sourced one directly
  stream,     \* the aggregate's event stream
  inflight,   \* appends whose response was lost and that may still land
  snapshots,  \* the snapshots, oldest write first
  cache,      \* the cache's entry, at version 0 if there is none
  given,      \* events given out
  agg,        \* each client's copy of the aggregate
  op          \* and what the client is doing with it

vars == <<backend, stream, inflight, snapshots, cache, given, agg, op>>

-----------------------------------------------------------------------------
(* Aggregates.                                                             *)

NewAggregate == [version |-> 0, state |-> <<>>, unsaved |-> <<>>, unapplied |-> <<>>]
AtVersion(a, version, state) == [a EXCEPT !.version = version, !.state = state]

Tip == Len(stream)
Numbered(events, after) ==
  [i \in 1 .. Len(events) |-> [version |-> after + i, event |-> events[i]]]

\* applyNext: only the event of the next version applies.
Applies(a) == Head(a.unapplied).version = a.version + 1
ApplyNext(a) ==
  [a EXCEPT !.version = @ + 1,
            !.state = Append(@, Head(a.unapplied).event),
            !.unapplied = Tail(@)]

\* Hydration queues each event it reads and applies the head of the queue,
\* until one does not apply.
Feed(fed, e) ==
  LET queued == [fed.agg EXCEPT !.unapplied = Append(@, e)]
  IN  IF fed.failed THEN fed
      ELSE IF Applies(queued) THEN [agg |-> ApplyNext(queued), failed |-> FALSE]
      ELSE [agg |-> queued, failed |-> TRUE]

Fed(a, read) ==
  LET fed[i \in 0 .. Len(read)] ==
        IF i = 0 THEN [agg |-> a, failed |-> FALSE] ELSE Feed(fed[i - 1], read[i])
  IN  fed[Len(read)]

\* What a client is doing: nothing without a copy ("idle"), nothing with one
\* ("ready"), or a stage of a load, a hydration or a save.  In doubt, it has been
\* told that the events of a save may be, or are, in the stream.
Idle == [pc |-> "idle", load |-> FALSE, target |-> 0, doubt |-> FALSE]
Ready(doubt) == [Idle EXCEPT !.pc = "ready", !.doubt = doubt]

Has(c, pc) == op[c].pc = pc
Copies(c, a, o) == agg' = [agg EXCEPT ![c] = a] /\ op' = [op EXCEPT ![c] = o]

-----------------------------------------------------------------------------
(* Load and Hydrate.                                                       *)

\* Through the cache; a miss, or a cache that fails, loads from the inner store
\* into a new aggregate.
Load(c) ==
  /\ op[c].pc \in {"idle", "ready"}
  /\ \/ /\ cache.version > 0
        /\ Copies(c, AtVersion(NewAggregate, cache.version, cache.state), Ready(FALSE))
     \/ Copies(c, NewAggregate, [Idle EXCEPT !.pc = "snapshot", !.load = TRUE])
  /\ UNCHANGED <<backend, stream, inflight, snapshots, cache, given>>

\* A versioned load bypasses the cache.
LoadVersion(c, version) ==
  /\ op[c].pc \in {"idle", "ready"}
  /\ Copies(c, NewAggregate, [Idle EXCEPT !.pc = "snapshot", !.load = TRUE, !.target = version])
  /\ UNCHANGED <<backend, stream, inflight, snapshots, cache, given>>

\* Hydrate in place.  A client in doubt discards its unsaved events first; a
\* target at or below the version changes nothing.
Hydrate(c, target) ==
  /\ Has(c, "ready") /\ Len(agg[c].unapplied) <= MaxQueue
  /\ op[c].doubt => agg[c].unsaved = <<>>
  /\ target = 0 \/ target > agg[c].version
  /\ Copies(c, agg[c], [Idle EXCEPT !.pc = "snapshot", !.target = target])
  /\ UNCHANGED <<backend, stream, inflight, snapshots, cache, given>>

\* ReadSnapshot: the newest written, at or below the target if there is one.
Within(snap, target) == target = 0 \/ snap.version <= target
Newest(target) ==
  {i \in 1 .. Len(snapshots) :
     /\ Within(snapshots[i], target)
     /\ \A j \in i + 1 .. Len(snapshots) : ~Within(snapshots[j], target)}

\* A snapshot that is found and decodes replaces state and version, whichever
\* way that moves them; any failure falls back to the events.
ReadSnapshot(c) ==
  /\ Has(c, "snapshot")
  /\ LET toRead == [op[c] EXCEPT !.pc = "stream"]
     IN  \/ Copies(c, agg[c], toRead)
         \/ \E i \in Newest(op[c].target) :
              Copies(c, AtVersion(agg[c], snapshots[i].version, snapshots[i].state),
                     IF snapshots[i].version = op[c].target THEN Ready(FALSE) ELSE toRead)
  /\ UNCHANGED <<backend, stream, inflight, snapshots, cache, given>>

\* ReadStreamOptions.Count of a read to a target.
MutantCount(a, target) == target - a.version + 1
Count(a, target) == target - a.version

\* What a hydration reads: everything after its version, or Count events of it.
ToRead(a, target) ==
  LET tail == SubSeq(Numbered(stream, 0), a.version + 1, Tip)
  IN  IF target = 0 THEN tail ELSE SubSeq(tail, 1, Min({Len(tail), Count(a, target)}))

\* An absent stream, a version past the target, a failed read or an event that does
\* not apply fails the hydration, behind what it has applied; a load then returns no
\* aggregate.
ReadStream(c) ==
  LET read == ToRead(agg[c], op[c].target)
  IN  /\ Has(c, "stream")
      /\ \E n \in 0 .. Len(read), broken \in BOOLEAN :
           LET fed   == Fed(agg[c], SubSeq(read, 1, n))
               fails == \/ broken \/ fed.failed
                        \/ Tip = 0 /\ agg[c].version = 0
                        \/ op[c].target # 0 /\ agg[c].version > op[c].target
           IN  /\ broken \/ n = Len(read)
               /\ CASE fails /\ op[c].load -> Copies(c, NewAggregate, Idle)
                    [] fails /\ ~op[c].load -> Copies(c, fed.agg, Ready(FALSE))
                    [] ~fails -> Copies(c, fed.agg,
                         IF op[c].load /\ op[c].target = 0
                           THEN [op[c] EXCEPT !.pc = "filling"] ELSE Ready(FALSE))
      /\ UNCHANGED <<backend, stream, inflight, snapshots, cache, given>>

\* PutAggregate, after an inner load or a save, which may fail.  An aggregate
\* with unapplied events is not cached.
Put(c) ==
  /\ op[c].pc \in {"filling", "caching"}
  /\ cache' \in {cache} \cup
       (IF agg[c].unapplied # <<>> THEN {}
        ELSE {[version |-> agg[c].version, state |-> agg[c].state]})
  /\ Copies(c, agg[c], Ready(FALSE))
  /\ UNCHANGED <<backend, stream, inflight, snapshots, given>>

-----------------------------------------------------------------------------
(* Append, Save and DiscardUnsavedEvents.                                  *)

Create(c) ==
  /\ Has(c, "idle")
  /\ Copies(c, NewAggregate, Ready(FALSE))
  /\ UNCHANGED <<backend, stream, inflight, snapshots, cache, given>>

AppendEvent(c) ==
  /\ Has(c, "ready")
  /\ given < MaxEvents
  /\ given' = given + 1
  /\ Copies(c, [agg[c] EXCEPT !.unsaved = Append(@, given + 1)], op[c])
  /\ UNCHANGED <<backend, stream, inflight, snapshots, cache>>

DiscardUnsavedEvents(c) ==
  /\ Has(c, "ready")
  /\ agg[c].unsaved # <<>>
  /\ Copies(c, [agg[c] EXCEPT !.unsaved = <<>>], Ready(FALSE))
  /\ UNCHANGED <<backend, stream, inflight, snapshots, cache, given>>

\* AppendStream's guard, ExpectVersion.
MutantExpected(version) == TRUE
Expected(version) == Tip = version

\* What the outcome of a failed append tells the caller: an error that is no
\* version mismatch vouches for nothing.
MutantLeavesDoubt(c) == op[c].doubt
LeavesDoubt(c) == TRUE

\* Save's append.  It is recorded and the events queued for application, which
\* the snapshotting store does itself and the event-sourced one unless SkipApply.
SaveAppended(c, skipApply) ==
  /\ Has(c, "ready") /\ agg[c].unsaved # <<>>
  /\ Expected(agg[c].version)
  /\ skipApply => backend = "none"
  /\ stream' = stream \o agg[c].unsaved
  /\ Copies(c, [agg[c] EXCEPT !.unapplied = @ \o Numbered(agg[c].unsaved, Tip),
                              !.unsaved = <<>>],
            [Idle EXCEPT !.pc = IF skipApply THEN "caching" ELSE "applying"])
  /\ UNCHANGED <<backend, inflight, snapshots, cache, given>>

\* Without events to save nothing is appended, but the snapshotting store applies
\* what is queued and the cached one caches the copy as it is.
SaveNothing(c) ==
  /\ Has(c, "ready") /\ agg[c].unsaved = <<>> /\ agg[c].version > 0
  /\ Copies(c, agg[c], [Idle EXCEPT !.pc = IF backend = "none" THEN "caching" ELSE "applying"])
  /\ UNCHANGED <<backend, stream, inflight, snapshots, cache, given>>

\* It is recorded but not reported in full: ErrEventsAppended.
SaveUnconfirmed(c) ==
  /\ Has(c, "ready") /\ agg[c].unsaved # <<>>
  /\ Expected(agg[c].version)
  /\ stream' = stream \o agg[c].unsaved
  /\ Copies(c, agg[c], Ready(TRUE))
  /\ UNCHANGED <<backend, inflight, snapshots, cache, given>>

\* Its response is lost: it was recorded, will be if the version still matches, or
\* never is.
SaveUnknown(c) ==
  LET append == [version |-> agg[c].version, events |-> agg[c].unsaved]
  IN  /\ Has(c, "ready") /\ agg[c].unsaved # <<>>
      /\ Expected(agg[c].version)
      /\ inflight' \in {inflight, inflight \cup {append}}
      /\ Copies(c, agg[c], Ready(LeavesDoubt(c)))
      /\ UNCHANGED <<backend, stream, snapshots, cache, given>>

LandLate ==
  \E append \in inflight :
    /\ inflight' = inflight \ {append}
    /\ stream' = IF Expected(append.version) THEN stream \o append.events ELSE stream
    /\ UNCHANGED <<backend, snapshots, cache, given, agg, op>>

\* snapshotstore.WriteSnapshot.  The memory store refuses a version that is not
\* newer; the event-stream store appends whatever comes and prunes, or fails to.
Retained(snaps) == SubSeq(snaps, Max({1, Len(snaps) - MaxSnapshots + 1}), Len(snaps))
WriteSnapshot(snap) ==
  LET written == Append(snapshots, snap)
  IN  CASE backend = "memory" ->
             {IF snapshots # <<>> /\ snap.version <= Last(snapshots).version
                THEN snapshots ELSE Retained(written)}
        [] backend = "eventstream" -> {written, Retained(written)}

\* The snapshot of an aggregate in the middle of applying a save's events.
MutantSnapped(a) ==
  [version |-> a.version, state |-> a.state \o [i \in DOMAIN a.unapplied |-> a.unapplied[i].event]]
Snapped(a) == [version |-> a.version, state |-> a.state]

\* One event of a save is applied and, where the policy says so, a snapshot is
\* written, whose failure is only logged.  An event that does not apply fails
\* the save with ErrEventsAppended.
ApplySaved(c) ==
  /\ Has(c, "applying") /\ agg[c].unapplied # <<>>
  /\ IF Applies(agg[c])
       THEN /\ Copies(c, ApplyNext(agg[c]), op[c])
            /\ snapshots' \in {snapshots} \cup
                 (IF backend = "none" THEN {} ELSE WriteSnapshot(Snapped(ApplyNext(agg[c]))))
       ELSE Copies(c, agg[c], Ready(TRUE)) /\ UNCHANGED snapshots
  /\ UNCHANGED <<backend, stream, inflight, cache, given>>

Applied(c) ==
  /\ Has(c, "applying") /\ agg[c].unapplied = <<>>
  /\ Copies(c, agg[c], [op[c] EXCEPT !.pc = "caching"])
  /\ UNCHANGED <<backend, stream, inflight, snapshots, cache, given>>

-----------------------------------------------------------------------------
NoEntry == [version |-> 0, state |-> <<>>]

Init ==
  /\ backend \in {"none", "memory", "eventstream"}
  /\ stream = <<>>
  /\ inflight = {}
  /\ snapshots = <<>>
  /\ cache = NoEntry
  /\ given = 0
  /\ agg = [c \in Client |-> NewAggregate]
  /\ op = [c \in Client |-> Idle]

\* A save that is refused, over its version, an unencodable event or reserved
\* metadata, appends nothing, leaves its events queued and changes nothing here.
Next ==
  \/ \E c \in Client :
       \/ Create(c) \/ Load(c) \/ AppendEvent(c) \/ DiscardUnsavedEvents(c)
       \/ \E v \in 1 .. MaxEvents : LoadVersion(c, v)
       \/ \E target \in 0 .. MaxEvents : Hydrate(c, target)
       \/ ReadSnapshot(c) \/ ReadStream(c) \/ Put(c)
       \/ \E skipApply \in BOOLEAN : SaveAppended(c, skipApply)
       \/ SaveNothing(c) \/ SaveUnconfirmed(c) \/ SaveUnknown(c)
       \/ ApplySaved(c) \/ Applied(c)
  \/ LandLate

Spec == Init /\ [][Next]_vars

-----------------------------------------------------------------------------
(* Properties.                                                             *)

\* Whatever was cached, snapshotted out of order, hydrated halfway, skipped or
\* saved by others: every copy is the fold of exactly its first version events.
FoldsMatch ==
  LET Matches(x) == x.state = SubSeq(stream, 1, x.version)
  IN  /\ \A c \in Client : Matches(agg[c])
      /\ Matches(cache)
      /\ \A i \in 1 .. Len(snapshots) : Matches(snapshots[i])

\* No event is recorded twice, although saves are retried, responses are lost and
\* appends land late, from copies that stale cache entries may have filled.
EventsOnce == Cardinality(Range(stream)) = Len(stream)

\* A client that is told nothing was appended can rely on it: without doubt, no
\* event it still has queued is in the stream or can get there by itself.
QueuedIsUnsaved ==
  \A c \in Client : ~op[c].doubt =>
    /\ Range(agg[c].unsaved) \cap Range(stream) = {}
    /\ \A append \in inflight :
         Range(agg[c].unsaved) \cap Range(append.events) # {} => append.version < Tip

\* A load that goes past the cache returns the version asked for, or the stream's
\* latest, from whatever snapshot it started.
LoadsExact ==
  [][\A c \in Client :
       /\ op[c].load /\ op[c].pc \in {"snapshot", "stream"}
       /\ op'[c].pc \in {"filling", "ready"}
       => agg'[c].version = IF op[c].target = 0 THEN Tip ELSE Min({op[c].target, Tip})]_vars
=============================================================================
