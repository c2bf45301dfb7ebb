------------------------------ MODULE Routing ------------------------------
(***************************************************************************)
(* The two ways reads are routed by the one record of cutovers: workers    *)
(* pushing it to the setters (CutoverWorkers), and a StreamRouter pulling  *)
(* it (router.go), whose callers share a cached fold and its cursor under  *)
(* a mutex.                                                                *)
(***************************************************************************)
EXTENDS CutoverWorkers

CONSTANTS
  Reader,      \* callers of the stream router
  Deployments  \* the sets of workers and readers to run together

ASSUME DeploymentsAssumption == Deployments \subseteq SUBSET (Worker \cup Reader)

VARIABLES
  running,   \* the workers and readers of this deployment
  router,    \* the stream router's cache
  reader     \* each reader's call

routes == <<running, router, reader>>

-----------------------------------------------------------------------------
\* live is nil, the cursor before every event.
NewRouter == [filled |-> FALSE, position |-> 0, fold |-> NewCutoverFold]

\* A call waits for the mutex, reads the record under it and returns.  `since' is
\* what was recorded when the call was made, `tip' and `fold' what its read
\* ends at and makes of the cache, `seen' what had been recorded when the reader's
\* last call was made that folded and succeeded (since and seen are no state of the
\* program).
NewReader == [pc |-> "idle", refresh |-> FALSE, since |-> 0, tip |-> 0,
              fold |-> NewCutoverFold, seen |-> 0]

Calls(r, record) == reader' = [reader EXCEPT ![r] = record]
Returned(r) == [NewReader EXCEPT !.seen = reader[r].seen]

\* Refresh is called, or Live.
Call(r, refresh) ==
  /\ reader[r].pc = "idle"
  /\ Calls(r, [reader[r] EXCEPT !.pc = "waiting", !.refresh = refresh,
                                !.since = Len(history)])
  /\ UNCHANGED router

\* r.mu
MutantUnlocked == TRUE
Unlocked == \A r \in Reader : reader[r].pc # "folding"

\* Live over a cache that is filled, and not older than the refresh interval,
\* answers from it.
AnswerCached(r) ==
  /\ reader[r].pc = "waiting" /\ Unlocked
  /\ ~reader[r].refresh /\ router.filled
  /\ Calls(r, Returned(r))
  /\ UNCHANGED router

\* advance, by Refresh always, by Live over a cache that is empty or too old: it
\* reads from the cursor, into a copy of the cache.
Open(r) ==
  /\ reader[r].pc = "waiting" /\ Unlocked
  /\ Calls(r, [reader[r] EXCEPT
       !.pc = "folding", !.tip = Len(history),
       !.fold = FoldFrom(router.position, router.fold)[Len(history)]])
  /\ UNCHANGED router

\* Everything is read and accepted, and the read closes cleanly.
Commit(r) ==
  /\ reader[r].pc = "folding" /\ ~reader[r].fold.broken
  /\ router' = [filled |-> TRUE, position |-> reader[r].tip, fold |-> reader[r].fold]
  /\ Calls(r, [Returned(r) EXCEPT !.seen = reader[r].since])

\* The read fails part way, or while it closes, or meets an event that it does not
\* accept: the next call starts over from the cursor.
MutantAfterFailure(r) == [router EXCEPT !.position = reader[r].tip]
AfterFailure(r) == router

Fail(r) ==
  /\ reader[r].pc = "folding"
  /\ router' = AfterFailure(r)
  /\ Calls(r, Returned(r))

ReaderStep(r) ==
  \/ \E refresh \in BOOLEAN : Call(r, refresh)
  \/ AnswerCached(r) \/ Open(r) \/ Commit(r) \/ Fail(r)

-----------------------------------------------------------------------------
RoutingInit ==
  /\ Init
  /\ running \in Deployments
  /\ router = NewRouter
  /\ reader = [r \in Reader |-> NewReader]

RoutingNext ==
  \/ RecordCutover /\ UNCHANGED routes
  \/ \E k \in Worker \cap running : WorkerStep(k) /\ UNCHANGED routes
  \/ \E r \in Reader \cap running : ReaderStep(r) /\ UNCHANGED <<vars, running>>

allVars == <<vars, routes>>

\* Workers of the deployment run and are restarted.  Reads may fail again and again,
\* and so may each setter, but no read and no setter that is tried again and again
\* fails every time.
RoutingFairness ==
  \A k \in Worker :
    /\ SF_allVars(k \in running /\ Drain(k) /\ UNCHANGED routes)
    /\ SF_allVars(k \in running /\ Settle(k) /\ UNCHANGED routes)
    /\ WF_allVars(k \in running /\ Restart(k) /\ UNCHANGED routes)
    /\ \A i \in DOMAIN Setters :
         SF_allVars(k \in running /\ worker[k].next = i /\ Deliver(k) /\ UNCHANGED routes)

RoutingSpec == RoutingInit /\ [][RoutingNext]_allVars /\ RoutingFairness

-----------------------------------------------------------------------------
(* Properties.                                                              *)

\* The cache is the fold of the record up to the cursor, whatever failed on the way
\* there: no partial fold is served and no cutover is skipped.
RouterKeepsFold ==
  /\ ~router.fold.broken
  /\ router.fold = FoldFrom(0, NewCutoverFold)[router.position]

\* Once a refresh has succeeded, the cache has every cutover recorded before it was
\* called, and later calls by others, slow or failing, do not take that back.
RefreshIsCurrent == \A r \in Reader : router.position >= reader[r].seen

\* Where workers run and no more cutovers are recorded, every setter comes to serve
\* the live version at its revision.
RoutesConverge == Worker \cap running # {} => Converges
=============================================================================
