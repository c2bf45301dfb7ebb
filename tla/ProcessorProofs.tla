-------------------------- MODULE ProcessorProofs --------------------------
(***************************************************************************)
(* For every number of processors and every batch size, cadence and length *)
(* of the sequence: no event is lost, the caught-up signal certifies a     *)
(* head, and an undisputed one is durable.                                 *)
(*                                                                         *)
(* Layout: what is behind each processor is a property of its record       *)
(* (Sound), so one lemma lifts a sound record to a sound state, and each   *)
(* action only has to give a sound record.                                 *)
(***************************************************************************)
EXTENDS Processor, FiniteSetTheorems, TLAPS

-----------------------------------------------------------------------------
(* The inductive invariant.                                                *)

Place ==
  {"new", "draining", "handling", "saving", "touching", "certifying", "polling"}

Record ==
  [pc : Place, position : Nat, sinceCheckpoint : Nat, batch : SUBSET Nat,
   failed : BOOLEAN, full : BOOLEAN, opened : Nat, caughtUp : Nat \cup {NotCaughtUp}]

TypeOK ==
  /\ counter \in Nat
  /\ log \in SUBSET (1 .. counter)
  /\ checkpoint \in Nat \cup {NoCheckpoint}
  /\ checkpoint <= counter
  /\ proc \in [Slot -> Record]
  /\ overlapped \in BOOLEAN

\* Everything committed up to position n is behind the processors.
Covered(n) == \A e \in log : e <= n => e \in behind

\* The batch of record p is the next events above its position, without a hole.
Gapless(p) ==
  \A b \in p.batch :
    /\ p.position < b
    /\ \A e \in log : p.position < e /\ e < b => e \in p.batch

\* A batch that neither the limit nor an error ended reaches the head it was
\* opened at, and past it the head is behind the processor.
ReachesHead(p) ==
  /\ p.pc \in {"handling", "saving"} /\ ~p.full /\ ~p.failed =>
       \A e \in log : p.position < e /\ e <= p.opened => e \in p.batch
  /\ p.pc \in {"touching", "certifying"} => Covered(p.opened)

Sound(p) ==
  /\ p.position <= counter
  /\ p.opened <= counter
  /\ p.batch \in SUBSET (1 .. counter)
  /\ Covered(p.position)
  /\ Gapless(p)
  /\ ReachesHead(p)

ProcessorInv ==
  /\ TypeOK
  /\ CheckpointCovers
  /\ \A i \in Slot : Sound(proc[i])

\* Who runs alone writes the only checkpoint, which is at its position when it
\* certifies a head and never falls behind the one it certified.
Durable(i) ==
  /\ proc[i].caughtUp <= checkpoint
  /\ Running(i) => checkpoint <= proc[i].position /\ \A j \in Slot : Running(j) => j = i
  /\ At(i, "certifying") => checkpoint = proc[i].position

DurabilityInv ==
  /\ \A i \in Slot : ~Running(i) => proc[i].caughtUp = NotCaughtUp
  /\ overlapped \/ \A i \in Slot : Durable(i)

-----------------------------------------------------------------------------
(* Lemmas.                                                                 *)

LEMMA NewIsSound ==
  ASSUME TypeOK
  PROVE  New \in Record /\ Sound(New)
BY DEF TypeOK, New, Record, Place, NotCaughtUp, Sound, Covered, Gapless, ReachesHead

\* A step of one processor that leaves the sequence alone and forgets nothing.
LEMMA SlotStep ==
  ASSUME ProcessorInv,
         NEW i \in Slot, NEW p \in Record, Becomes(i, p), Sound(p)',
         log' = log, counter' = counter, behind \subseteq behind',
         checkpoint' = checkpoint \/ checkpoint' = proc[i].position,
         overlapped' \in BOOLEAN
  PROVE  ProcessorInv'
<1>1. TypeOK'
  <2>1. proc' \in [Slot -> Record]
    BY DEF ProcessorInv, TypeOK, Becomes
  <2>2. proc[i].position \in Nat /\ proc[i].position <= counter
    BY DEF ProcessorInv, TypeOK, Record, Sound
  <2>3. QED
    BY <2>1, <2>2 DEF ProcessorInv, TypeOK
<1>2. CheckpointCovers'
  BY DEF ProcessorInv, CheckpointCovers, Sound, Covered
<1>3. ASSUME NEW j \in Slot
      PROVE  Sound(proc[j])'
  <2>1. CASE j = i
    <3>1. proc'[j] = p
      BY <2>1 DEF ProcessorInv, TypeOK, Becomes
    <3>2. QED
      BY <3>1 DEF Sound, Covered, Gapless, ReachesHead
  <2>2. CASE j # i
    <3>1. proc'[j] = proc[j]
      BY <2>2 DEF ProcessorInv, TypeOK, Becomes
    <3>2. QED
      BY <3>1 DEF ProcessorInv, Sound, Covered, Gapless, ReachesHead
  <2>3. QED
    BY <2>1, <2>2
<1>4. QED
  BY <1>1, <1>2, <1>3 DEF ProcessorInv

\* A processor that returns, with or without a last save.
LEMMA ReturnKeeps ==
  ASSUME ProcessorInv, NEW i \in Slot, Returns(i),
         UNCHANGED <<log, counter, behind, overlapped>>,
         checkpoint' = checkpoint \/ checkpoint' = proc[i].position
  PROVE  ProcessorInv'
<1>1. New \in Record /\ Sound(New)'
  BY NewIsSound DEF ProcessorInv, TypeOK, Sound, Covered, Gapless, ReachesHead
<1>2. overlapped' \in BOOLEAN
  BY DEF ProcessorInv, TypeOK
<1>3. QED
  BY <1>1, <1>2, SlotStep DEF Returns

-----------------------------------------------------------------------------
(* One lemma per action.                                                   *)

\* A position given out is above whatever a processor has or has opened at.
LEMMA PublishKeeps ==
  ASSUME ProcessorInv, Publish
  PROVE  ProcessorInv'
<1>1. PICK n \in counter + 1 .. MaxPosition : counter' = n /\ log' = log \cup {n}
  BY DEF Publish
<1>2. n \in Nat /\ counter < n
  BY ProcessorOptions, <1>1 DEF ProcessorInv, TypeOK
<1>3. UNCHANGED <<checkpoint, behind, proc, overlapped>>
  BY DEF Publish
<1>4. TypeOK'
  BY <1>1, <1>2, <1>3 DEF ProcessorInv, TypeOK, NoCheckpoint
<1>5. CheckpointCovers'
  BY <1>1, <1>2, <1>3 DEF ProcessorInv, TypeOK, CheckpointCovers, NoCheckpoint
<1>6. ASSUME NEW i \in Slot
      PROVE  Sound(proc[i])'
  <2>1. proc[i] \in Record /\ Sound(proc[i])
    BY DEF ProcessorInv, TypeOK
  <2>2. \A m \in Nat : m <= counter => m < n
    BY <1>2 DEF ProcessorInv, TypeOK
  <2>3. Covered(proc[i].position)'
    BY <1>1, <1>3, <2>1, <2>2, <1>2 DEF Sound, Covered, Record
  <2>4. Gapless(proc[i])'
    <3>1. \A b \in proc[i].batch : b \in Nat /\ b < n
      BY <2>1, <2>2 DEF Sound, Record
    <3>2. QED
      BY <1>1, <1>2, <1>3, <2>1, <3>1 DEF Sound, Gapless, Record
  <2>5. ReachesHead(proc[i])'
    <3>1. proc[i].opened \in Nat /\ ~(n <= proc[i].opened)
      BY <1>2, <2>1, <2>2 DEF Sound, Record
    <3>2. QED
      BY <1>1, <1>3, <2>1, <3>1 DEF Sound, ReachesHead, Covered
  <2>6. /\ (proc[i].position <= counter)'
        /\ (proc[i].opened <= counter)'
        /\ (proc[i].batch \in SUBSET (1 .. counter))'
    BY <1>1, <1>2, <1>3, <2>1 DEF Sound, Record, ProcessorInv, TypeOK
  <2>7. QED
    BY <2>3, <2>4, <2>5, <2>6 DEF Sound
<1>7. QED
  BY <1>3, <1>4, <1>5, <1>6 DEF ProcessorInv

\* A deleted event only leaves less to cover.
LEMMA DeleteKeeps ==
  ASSUME ProcessorInv, DeleteEvent
  PROVE  ProcessorInv'
<1>1. log' \subseteq log /\ UNCHANGED <<counter, checkpoint, behind, proc, overlapped>>
  BY DEF DeleteEvent
<1>2. TypeOK' /\ CheckpointCovers'
  BY <1>1 DEF ProcessorInv, TypeOK, CheckpointCovers
<1>3. ASSUME NEW i \in Slot
      PROVE  Sound(proc[i])'
  BY <1>1 DEF ProcessorInv, Sound, Covered, Gapless, ReachesHead
<1>4. QED
  BY <1>1, <1>2, <1>3 DEF ProcessorInv

\* Run starts at the checkpoint, which covers what it skips.
LEMMA StartKeeps ==
  ASSUME ProcessorInv, NEW i \in Slot, Start(i)
  PROVE  ProcessorInv'
<1>0. PICK p : p = [New EXCEPT !.pc = "draining", !.position = LoadPosition]
  OBVIOUS
<1>1. LoadPosition \in Nat /\ LoadPosition <= counter /\ Covered(LoadPosition)
  BY DEF ProcessorInv, TypeOK, CheckpointCovers, LoadPosition, NoCheckpoint, Covered
<1>2. p \in Record /\ p.position = LoadPosition /\ p.opened = 0 /\ p.batch = {}
        /\ p.pc = "draining"
  BY <1>0, <1>1 DEF New, Record, Place, NotCaughtUp
<1>3. UNCHANGED <<log, counter, checkpoint, behind>> /\ Becomes(i, p)
  BY <1>0 DEF Start
<1>4. Sound(p)'
  <2>1. Sound(p)
    BY <1>1, <1>2 DEF Sound, Gapless, ReachesHead, ProcessorInv, TypeOK
  <2>2. QED
    BY <1>3, <2>1 DEF Sound, Covered, Gapless, ReachesHead
<1>5. overlapped' \in BOOLEAN
  BY DEF Start, ProcessorInv, TypeOK
<1>6. QED
  BY <1>2, <1>3, <1>4, <1>5, SlotStep

\* A batch is the next events above the position; one that stops short of the
\* head is full or failed.
LEMMA ReadKeeps ==
  ASSUME ProcessorInv, NEW i \in Slot, Read(i)
  PROVE  ProcessorInv'
<1>1. CASE Returns(i)
  BY <1>1, ReturnKeeps DEF Read
<1>2. CASE ~Returns(i)
  <2>1. UNCHANGED <<log, counter, checkpoint, behind, overlapped>>
    BY DEF Read
  <2>2. PICK batch \in Prefixes(Unread(i)), failed \in BOOLEAN, full \in BOOLEAN :
          /\ failed \/ full \/ batch = Unread(i)
          /\ Becomes(i, [proc[i] EXCEPT
               !.pc = "handling", !.batch = batch, !.failed = failed, !.full = full,
               !.opened = IF proc[i].caughtUp = NotCaughtUp THEN counter ELSE 0])
    BY <1>2 DEF Read, Drains
  <2>p. PICK p : p = [proc[i] EXCEPT
               !.pc = "handling", !.batch = batch, !.failed = failed, !.full = full,
               !.opened = IF proc[i].caughtUp = NotCaughtUp THEN counter ELSE 0]
    OBVIOUS
  <2>3. /\ proc[i] \in Record
        /\ Sound(proc[i])
        /\ counter \in Nat
        /\ log \in SUBSET (1 .. counter)
    BY DEF ProcessorInv, TypeOK
  <2>4. batch \in SUBSET (1 .. counter)
    BY <2>2, <2>3 DEF Prefixes, Unread
  <2>5. p \in Record
    <3>1. batch \in SUBSET Nat
      BY <2>3, <2>4
    <3>2. QED
      BY <2>p, <2>3, <3>1 DEF Record, Place
  <2>6. /\ p.pc = "handling"
        /\ p.position = proc[i].position
        /\ p.batch = batch
        /\ p.failed = failed
        /\ p.full = full
        /\ p.opened \in {0, counter}
    BY <2>p, <2>3 DEF Record
  <2>7. Gapless(p)
    BY <2>2, <2>6 DEF Gapless, Prefixes, Unread
  <2>8. ReachesHead(p)
    BY <2>2, <2>6 DEF ReachesHead, Unread
  <2>9. Sound(p)
    BY <2>3, <2>4, <2>6, <2>7, <2>8 DEF Sound
  <2>10. Sound(p)'
    BY <2>1, <2>9 DEF Sound, Covered, Gapless, ReachesHead
  <2>11. QED
    BY <2>p, <2>1, <2>2, <2>5, <2>10, SlotStep DEF ProcessorInv, TypeOK
<1>3. QED
  BY <1>1, <1>2

\* The least event of the batch is the next above the position: handling it
\* leaves nothing uncovered below it.
LEMMA HandleKeeps ==
  ASSUME ProcessorInv, NEW i \in Slot, Handle(i)
  PROVE  ProcessorInv'
<1>1. CASE Returns(i) /\ UNCHANGED behind
  BY <1>1, ReturnKeeps DEF Handle
<1>2. CASE ~(Returns(i) /\ UNCHANGED behind)
  <2>1. PICK e \in proc[i].batch :
          /\ \A d \in proc[i].batch : e <= d
          /\ behind' = behind \cup {e}
          /\ Becomes(i, Advanced(proc[i], e))
    BY <1>2 DEF Handle
  <2>2. UNCHANGED <<log, counter, checkpoint, overlapped>>
    BY DEF Handle
  <2>3. /\ proc[i] \in Record
        /\ Sound(proc[i])
        /\ proc[i].pc = "handling"
        /\ counter \in Nat
        /\ log \in SUBSET (1 .. counter)
    BY DEF ProcessorInv, TypeOK, Handle, At
  <2>p. PICK p : p = Advanced(proc[i], e)
    OBVIOUS
  <2>4. e \in 1 .. counter /\ proc[i].position < e
    BY <2>1, <2>3 DEF Sound, Gapless
  <2>5. /\ p.pc \in {"handling", "saving"}
        /\ p.position = e
        /\ p.batch = proc[i].batch \ {e}
        /\ p.failed = proc[i].failed
        /\ p.full = proc[i].full
        /\ p.opened = proc[i].opened
        /\ p \in Record
    <3>1. e \in Nat /\ proc[i].batch \ {e} \in SUBSET Nat /\ proc[i].sinceCheckpoint + 1 \in Nat
      BY <2>3, <2>4 DEF Record
    <3>2. QED
      BY <2>p, <2>3, <3>1 DEF Advanced, Record, Place
  <2>6. Covered(e)'
    <3>1. \A d \in log : d <= e => d <= proc[i].position \/ d = e \/ d \in proc[i].batch
      BY <2>1, <2>3, <2>4 DEF Sound, Gapless, Record
    <3>2. \A d \in log : d <= e /\ d \in proc[i].batch => d = e
      BY <2>1, <2>3, <2>4
    <3>3. QED
      BY <2>1, <2>2, <2>3, <3>1, <3>2 DEF Sound, Covered
  <2>7. Gapless(p)'
    <3>1. \A b \in p.batch : b \in Nat /\ e < b
      BY <2>1, <2>3, <2>4, <2>5 DEF Record
    <3>2. \A b \in p.batch, d \in log : e < d /\ d < b => d \in proc[i].batch
      BY <2>3, <2>4, <2>5, <3>1 DEF Sound, Gapless, Record
    <3>3. \A d \in log : e < d => d # e
      BY <2>3, <2>4
    <3>4. QED
      BY <2>2, <2>5, <3>1, <3>2, <3>3 DEF Gapless
  <2>8. ReachesHead(p)'
    <3>1. \A d \in log : e < d => d # e /\ proc[i].position < d
      <4>1. e \in Nat /\ proc[i].position \in Nat
        BY <2>3, <2>4 DEF Record
      <4>2. \A d \in log : d \in Nat
        BY <2>3
      <4>3. QED
        BY <2>4, <4>1, <4>2
    <3>2. QED
      BY <2>2, <2>3, <2>5, <3>1 DEF Sound, ReachesHead
  <2>9. Sound(p)'
    <3>1. /\ e <= counter
          /\ p.batch \in SUBSET (1 .. counter)
          /\ p.opened <= counter
      BY <2>3, <2>4, <2>5 DEF Sound
    <3>2. QED
      BY <2>2, <2>5, <2>6, <2>7, <2>8, <3>1 DEF Sound
  <2>10. QED
    BY <2>p, <2>1, <2>2, <2>5, <2>9, SlotStep DEF ProcessorInv, TypeOK
<1>3. QED
  BY <1>1, <1>2

\* A save between handling and handling, or between the head and its signal: the
\* position is covered, and nothing else of the record matters to that.
LEMMA SaveKeeps ==
  ASSUME ProcessorInv, NEW i \in Slot, SaveHandled(i) \/ Touch(i)
  PROVE  ProcessorInv'
<1>1. CASE Returns(i)
  BY <1>1, ReturnKeeps DEF SaveHandled, Touch, Save
<1>2. CASE ~Returns(i)
  <2>1. /\ UNCHANGED <<log, counter, behind, overlapped>>
        /\ checkpoint' = proc[i].position
    BY <1>2 DEF SaveHandled, Touch, Save
  <2>2. PICK next \in {"handling", "certifying"} :
          /\ \/ proc[i].pc = "saving" /\ next = "handling"
             \/ proc[i].pc = "touching" /\ next = "certifying"
          /\ Becomes(i, [proc[i] EXCEPT !.pc = next, !.sinceCheckpoint = 0])
    BY <1>2 DEF SaveHandled, Touch, Save
  <2>3. PICK p : p = [proc[i] EXCEPT !.pc = next, !.sinceCheckpoint = 0]
    OBVIOUS
  <2>4. proc[i] \in Record /\ Sound(proc[i])
    BY DEF ProcessorInv, TypeOK
  <2>5. /\ p \in Record
        /\ p.pc = next
        /\ p.position = proc[i].position
        /\ p.batch = proc[i].batch
        /\ p.failed = proc[i].failed
        /\ p.full = proc[i].full
        /\ p.opened = proc[i].opened
    BY <2>3, <2>4 DEF Record, Place
  <2>6. Sound(p)'
    BY <2>1, <2>2, <2>4, <2>5 DEF Sound, Covered, Gapless, ReachesHead
  <2>7. QED
    BY <2>1, <2>2, <2>3, <2>5, <2>6, SlotStep DEF ProcessorInv, TypeOK
<1>3. QED
  BY <1>1, <1>2

\* A finished batch that was not full has reached the head it was opened at.
LEMMA EndBatchKeeps ==
  ASSUME ProcessorInv, NEW i \in Slot, EndBatch(i)
  PROVE  ProcessorInv'
<1>1. UNCHANGED <<log, counter, checkpoint, behind, overlapped>>
  BY DEF EndBatch
<1>2. CASE proc[i].failed
  BY <1>1, <1>2, ReturnKeeps DEF EndBatch
<1>3. CASE ~proc[i].failed
  <2>1. PICK p : p = [proc[i] EXCEPT !.pc = AfterBatch(proc[i]), !.full = FALSE]
    OBVIOUS
  <2>2. /\ proc[i] \in Record
        /\ Sound(proc[i])
        /\ proc[i].pc = "handling"
        /\ proc[i].batch = {}
        /\ Becomes(i, p)
    BY <1>3, <2>1 DEF ProcessorInv, TypeOK, EndBatch, At
  <2>3. /\ p \in Record
        /\ p.pc = IF proc[i].full THEN "draining" ELSE "touching"
        /\ p.position = proc[i].position
        /\ p.batch = {}
        /\ p.opened = proc[i].opened
    BY <2>1, <2>2 DEF AfterBatch, Record, Place
  <2>4. ASSUME ~proc[i].full
        PROVE  Covered(proc[i].opened)
    <3>1. \A e \in log : ~(proc[i].position < e /\ e <= proc[i].opened)
      BY <1>3, <2>2, <2>4 DEF Sound, ReachesHead
    <3>2. proc[i].position \in Nat /\ log \in SUBSET Nat
      BY <2>2 DEF ProcessorInv, TypeOK, Record
    <3>3. \A e \in log : e <= proc[i].opened => e <= proc[i].position
      BY <3>1, <3>2
    <3>4. QED
      BY <2>2, <3>3 DEF Sound, Covered
  <2>5. Sound(p)'
    BY <1>1, <2>2, <2>3, <2>4 DEF Sound, Covered, Gapless, ReachesHead
  <2>6. QED
    BY <1>1, <2>2, <2>3, <2>5, SlotStep DEF ProcessorInv, TypeOK
<1>4. QED
  BY <1>2, <1>3

\* The signal and the poll change no more than the place and what is waited for.
LEMMA IdleKeeps ==
  ASSUME ProcessorInv, NEW i \in Slot, Certify(i) \/ Poll(i)
  PROVE  ProcessorInv'
<1>1. UNCHANGED <<log, counter, checkpoint, behind, overlapped>>
  BY DEF Certify, Poll
<1>2. proc[i] \in Record /\ Sound(proc[i]) /\ counter \in Nat
  BY DEF ProcessorInv, TypeOK
<1>3. PICK p : /\ Becomes(i, p)
               /\ p \in Record
               /\ p.pc \in {"polling", "draining"}
               /\ p.position = proc[i].position
               /\ p.batch = proc[i].batch
               /\ p.opened \in {0, proc[i].opened}
  <2>1. CASE Certify(i)
    <3>1. PICK p : p = [proc[i] EXCEPT
                          !.pc = "polling", !.opened = 0,
                          !.caughtUp = IF @ = NotCaughtUp THEN proc[i].position ELSE @]
      OBVIOUS
    <3>2. p \in Record /\ p.pc = "polling" /\ p.opened = 0
            /\ p.position = proc[i].position /\ p.batch = proc[i].batch
      BY <1>2, <3>1 DEF Record, Place
    <3>3. Becomes(i, p)
      BY <2>1, <3>1 DEF Certify
    <3>4. QED
      BY <3>2, <3>3
  <2>2. CASE Poll(i)
    <3>1. PICK p : p = [proc[i] EXCEPT !.pc = AfterPoll]
      OBVIOUS
    <3>2. QED
      BY <1>2, <2>2, <3>1 DEF Poll, AfterPoll, Record, Place
  <2>3. QED
    BY <2>1, <2>2
<1>4. Sound(p)'
  BY <1>1, <1>2, <1>3 DEF Sound, Covered, Gapless, ReachesHead
<1>5. QED
  BY <1>1, <1>3, <1>4, SlotStep DEF ProcessorInv, TypeOK

LEMMA Initially == Init => ProcessorInv
<1> SUFFICES ASSUME Init PROVE ProcessorInv
  OBVIOUS
<1>1. TypeOK
  <2>1. New \in Record
    BY DEF New, Record, Place, NotCaughtUp
  <2>2. proc \in [Slot -> Record]
    BY <2>1 DEF Init
  <2>3. log \in SUBSET (1 .. counter) /\ counter \in Nat /\ overlapped \in BOOLEAN
    BY DEF Init
  <2>4. checkpoint \in Nat \cup {NoCheckpoint} /\ checkpoint <= counter
    BY DEF Init, NoCheckpoint
  <2>5. QED
    BY <2>2, <2>3, <2>4 DEF TypeOK
<1>2. QED
  BY <1>1, NewIsSound DEF Init, ProcessorInv, CheckpointCovers

LEMMA ProcessorStep ==
  ASSUME ProcessorInv, [Next]_vars
  PROVE  ProcessorInv'
<1>1. CASE Publish
  BY <1>1, PublishKeeps
<1>2. CASE DeleteEvent
  BY <1>2, DeleteKeeps
<1>3. ASSUME NEW i \in Slot, Start(i)
      PROVE  ProcessorInv'
  BY <1>3, StartKeeps
<1>4. ASSUME NEW i \in Slot, Step(i)
      PROVE  ProcessorInv'
  BY <1>4, ReadKeeps, HandleKeeps, SaveKeeps, EndBatchKeeps, IdleKeeps DEF Step
<1>5. ASSUME NEW i \in Slot, Cancel(i) \/ Crash(i)
      PROVE  ProcessorInv'
  BY <1>5, ReturnKeeps DEF Cancel, Crash
<1>6. CASE UNCHANGED vars
  BY <1>6 DEF vars, ProcessorInv, TypeOK, CheckpointCovers, Sound, Covered, Gapless,
              ReachesHead
<1>7. QED
  BY <1>1, <1>2, <1>3, <1>4, <1>5, <1>6 DEF Next

-----------------------------------------------------------------------------
(* The certified head is durable.                                          *)

\* A step of one processor whose new record is durable, and which nobody runs
\* beside unless it is recorded.
DurableRecord(p) ==
  /\ p.caughtUp <= checkpoint
  /\ p.pc # "new" => checkpoint <= p.position
  /\ p.pc = "certifying" => checkpoint = p.position

LEMMA SlotDurability ==
  ASSUME ProcessorInv, DurabilityInv, ProcessorInv',
         NEW i \in Slot, NEW p \in Record, Becomes(i, p),
         p.pc = "new" => p.caughtUp = NotCaughtUp,
         overlapped => overlapped',
         overlapped' \/ \A j \in Slot \ {i} : ~Running(j),
         overlapped' \/ DurableRecord(p)'
  PROVE  DurabilityInv'
<1>1. proc'[i] = p /\ \A j \in Slot \ {i} : proc'[j] = proc[j]
  BY DEF ProcessorInv, TypeOK, Becomes
<1>2. \A j \in Slot : (~Running(j) => proc[j].caughtUp = NotCaughtUp)'
  BY <1>1 DEF DurabilityInv, Running
<1>3. ASSUME ~overlapped', NEW j \in Slot
      PROVE  Durable(j)'
  <2>1. CASE j = i
    BY <1>1, <1>3, <2>1 DEF Durable, DurableRecord, Running, At
  <2>2. CASE j # i
    <3>1. ~Running(j) /\ ~Running(j)' /\ (proc[j].caughtUp = NotCaughtUp)'
      BY <1>1, <1>2, <1>3, <2>2 DEF Running
    <3>2. (NotCaughtUp <= checkpoint)'
      BY DEF ProcessorInv, TypeOK, NotCaughtUp, NoCheckpoint
    <3>3. QED
      BY <3>1, <3>2 DEF Durable, Running, At
  <2>3. QED
    BY <2>1, <2>2
<1>4. QED
  BY <1>2, <1>3 DEF DurabilityInv

\* Whoever runs and is not overlapped runs alone and durably.
LEMMA RunsAlone ==
  ASSUME DurabilityInv, NEW i \in Slot, Running(i), ~overlapped
  PROVE  DurableRecord(proc[i]) /\ \A j \in Slot \ {i} : ~Running(j)
BY DEF DurabilityInv, Durable, DurableRecord, Running, At

\* A processor that returns gives up its signal, which stays durable.
LEMMA ReturnDurability ==
  ASSUME ProcessorInv, DurabilityInv, ProcessorInv', NEW i \in Slot,
         Running(i), Returns(i), UNCHANGED overlapped
  PROVE  DurabilityInv'
<1>1. New \in Record
  BY NewIsSound DEF ProcessorInv
<1>2. DurableRecord(New)'
  <2>1. (NotCaughtUp <= checkpoint)'
    BY DEF ProcessorInv, TypeOK, NotCaughtUp, NoCheckpoint
  <2>2. QED
    BY <2>1 DEF DurableRecord, New
<1>3. Becomes(i, New) /\ New.pc = "new" /\ New.caughtUp = NotCaughtUp
  BY DEF Returns, New
<1>4. QED
  BY <1>1, <1>2, <1>3, RunsAlone, SlotDurability

\* A step to a record that keeps or signals a durable position is durable.
LEMMA RunDurability ==
  ASSUME ProcessorInv, DurabilityInv, ProcessorInv', NEW i \in Slot,
         Running(i), UNCHANGED overlapped,
         NEW p \in Record, Becomes(i, p), p.pc # "new",
         overlapped \/ DurableRecord(p)'
  PROVE  DurabilityInv'
BY RunsAlone, SlotDurability

LEMMA StartDurability ==
  ASSUME ProcessorInv, DurabilityInv, ProcessorInv', NEW i \in Slot, Start(i)
  PROVE  DurabilityInv'
<1>1. PICK p : p = [New EXCEPT !.pc = "draining", !.position = LoadPosition]
  OBVIOUS
<1>2. LoadPosition \in Nat /\ checkpoint <= LoadPosition
  BY DEF ProcessorInv, TypeOK, LoadPosition, NoCheckpoint
<1>3. /\ p \in Record
      /\ p.pc = "draining"
      /\ p.position = LoadPosition
      /\ p.caughtUp = NotCaughtUp
  BY <1>1, <1>2 DEF New, Record, Place
<1>4. NotCaughtUp <= checkpoint
  BY DEF ProcessorInv, TypeOK, NotCaughtUp, NoCheckpoint
<1>5. Becomes(i, p) /\ UNCHANGED checkpoint
  BY <1>1 DEF Start
<1>6. DurableRecord(p)'
  BY <1>2, <1>3, <1>4, <1>5 DEF DurableRecord
<1>7. (overlapped => overlapped') /\ (overlapped' \/ \A j \in Slot \ {i} : ~Running(j))
  BY DEF Start, ProcessorInv, TypeOK
<1>8. QED
  BY <1>3, <1>5, <1>6, <1>7, SlotDurability

LEMMA DurabilityStep ==
  ASSUME ProcessorInv, DurabilityInv, ProcessorInv', [Next]_vars
  PROVE  DurabilityInv'
<1>1. CASE Publish \/ DeleteEvent \/ UNCHANGED vars
  <2>1. UNCHANGED <<checkpoint, proc, overlapped>>
    BY <1>1 DEF Publish, DeleteEvent, vars
  <2>2. QED
    BY <2>1 DEF DurabilityInv, Durable, Running, At
<1>2. ASSUME NEW i \in Slot, Start(i)
      PROVE  DurabilityInv'
  BY <1>2, StartDurability
<1>3. ASSUME NEW i \in Slot, Cancel(i) \/ Crash(i)
      PROVE  DurabilityInv'
  BY <1>3, ReturnDurability DEF Cancel, Crash, Running
<1>4. ASSUME NEW i \in Slot, Step(i)
      PROVE  DurabilityInv'
  <2>1. Running(i) /\ UNCHANGED overlapped
    BY <1>4 DEF Step, Read, Handle, SaveHandled, EndBatch, Touch, Save, Certify, Poll,
                At, Running
  <2>2. proc[i] \in Record /\ (overlapped \/ DurableRecord(proc[i]))
    BY <2>1, RunsAlone DEF ProcessorInv, TypeOK
  <2>3. CASE Returns(i)
    BY <2>1, <2>3, ReturnDurability
  <2>4. CASE ~Returns(i) /\ Read(i)
    <3>1. PICK batch \in SUBSET Nat, failed \in BOOLEAN, full \in BOOLEAN, opened \in Nat :
            Becomes(i, [proc[i] EXCEPT !.pc = "handling", !.batch = batch,
                          !.failed = failed, !.full = full, !.opened = opened])
      <4>1. \A batch \in Prefixes(Unread(i)) : batch \in SUBSET Nat
        BY DEF Prefixes, Unread, ProcessorInv, TypeOK
      <4>2. (IF proc[i].caughtUp = NotCaughtUp THEN counter ELSE 0) \in Nat
        BY DEF ProcessorInv, TypeOK
      <4>3. QED
        BY <2>4, <4>1, <4>2 DEF Read, Drains
    <3>2. PICK p : p = [proc[i] EXCEPT !.pc = "handling", !.batch = batch,
                          !.failed = failed, !.full = full, !.opened = opened]
      OBVIOUS
    <3>3. p \in Record /\ p.pc = "handling" /\ p.position = proc[i].position
            /\ p.caughtUp = proc[i].caughtUp
      BY <2>2, <3>2 DEF Record, Place
    <3>4. UNCHANGED checkpoint
      BY <2>4 DEF Read
    <3>5. overlapped \/ DurableRecord(p)'
      BY <2>1, <2>2, <3>3, <3>4 DEF DurableRecord, Running
    <3>6. QED
      BY <2>1, <3>1, <3>2, <3>3, <3>5, RunDurability
  <2>5. CASE ~Returns(i) /\ Handle(i)
    <3>1. PICK e \in proc[i].batch : Becomes(i, Advanced(proc[i], e))
      BY <2>5 DEF Handle
    <3>2. PICK p : p = Advanced(proc[i], e)
      OBVIOUS
    <3>3. e \in Nat /\ proc[i].position < e
      BY <2>2, <3>1 DEF ProcessorInv, Sound, Gapless, Record
    <3>4. p \in Record /\ p.pc \in {"handling", "saving"} /\ p.position = e
            /\ p.caughtUp = proc[i].caughtUp
      <4>1. proc[i].batch \ {e} \in SUBSET Nat /\ proc[i].sinceCheckpoint + 1 \in Nat
        BY <2>2 DEF Record
      <4>2. QED
        BY <2>2, <3>2, <3>3, <4>1 DEF Advanced, Record, Place
    <3>5. UNCHANGED checkpoint
      BY <2>5 DEF Handle
    <3>6. overlapped \/ DurableRecord(p)'
      <4>1. checkpoint \in Int /\ proc[i].position \in Int
        BY <2>2 DEF ProcessorInv, TypeOK, Record, NoCheckpoint
      <4>2. QED
        BY <2>1, <2>2, <3>3, <3>4, <3>5, <4>1 DEF DurableRecord, Running
    <3>7. QED
      BY <2>1, <3>1, <3>2, <3>4, <3>6, RunDurability
  <2>6. CASE ~Returns(i) /\ (SaveHandled(i) \/ Touch(i))
    <3>1. PICK next \in {"handling", "certifying"} :
            Becomes(i, [proc[i] EXCEPT !.pc = next, !.sinceCheckpoint = 0])
      BY <2>6 DEF SaveHandled, Touch, Save
    <3>2. PICK p : p = [proc[i] EXCEPT !.pc = next, !.sinceCheckpoint = 0]
      OBVIOUS
    <3>3. p \in Record /\ p.pc = next /\ p.position = proc[i].position
            /\ p.caughtUp = proc[i].caughtUp
      BY <2>2, <3>2 DEF Record, Place
    <3>4. checkpoint' = proc[i].position
      BY <2>6 DEF SaveHandled, Touch, Save
    <3>5. overlapped \/ DurableRecord(p)'
      <4>1. checkpoint \in Int /\ proc[i].position \in Int /\ proc[i].caughtUp \in Int
        BY <2>2 DEF ProcessorInv, TypeOK, Record, NoCheckpoint, NotCaughtUp
      <4>2. QED
        BY <2>1, <2>2, <3>3, <3>4, <4>1 DEF DurableRecord, Running
    <3>6. QED
      BY <2>1, <3>1, <3>2, <3>3, <3>5, RunDurability
  <2>7. CASE ~Returns(i) /\ (EndBatch(i) \/ Poll(i))
    <3>1. UNCHANGED checkpoint
      BY <2>7 DEF EndBatch, Poll
    <3>2. PICK p \in Record : /\ Becomes(i, p)
                              /\ p.pc \in {"draining", "touching"}
                              /\ p.position = proc[i].position
                              /\ p.caughtUp = proc[i].caughtUp
      <4>1. CASE EndBatch(i)
        <5>1. PICK p : p = [proc[i] EXCEPT !.pc = AfterBatch(proc[i]), !.full = FALSE]
          OBVIOUS
        <5>2. p \in Record /\ p.pc \in {"draining", "touching"}
                /\ p.position = proc[i].position /\ p.caughtUp = proc[i].caughtUp
          BY <2>2, <5>1 DEF AfterBatch, Record, Place
        <5>3. Becomes(i, p)
          BY <2>7, <4>1, <5>1 DEF EndBatch
        <5>4. QED
          BY <5>2, <5>3
      <4>2. CASE Poll(i)
        <5>1. PICK p : p = [proc[i] EXCEPT !.pc = AfterPoll]
          OBVIOUS
        <5>2. p \in Record /\ p.pc = "draining"
                /\ p.position = proc[i].position /\ p.caughtUp = proc[i].caughtUp
          BY <2>2, <5>1 DEF AfterPoll, Record, Place
        <5>3. Becomes(i, p)
          BY <4>2, <5>1 DEF Poll
        <5>4. QED
          BY <5>2, <5>3
      <4>3. QED
        BY <2>7, <4>1, <4>2
    <3>3. overlapped \/ DurableRecord(p)'
      BY <2>1, <2>2, <3>1, <3>2 DEF DurableRecord, Running
    <3>4. QED
      BY <2>1, <3>2, <3>3, RunDurability
  <2>8. CASE Certify(i)
    <3>1. PICK p : p = [proc[i] EXCEPT
                          !.pc = "polling", !.opened = 0,
                          !.caughtUp = IF @ = NotCaughtUp THEN proc[i].position ELSE @]
      OBVIOUS
    <3>2. p \in Record /\ p.pc = "polling" /\ p.position = proc[i].position
            /\ p.caughtUp \in {proc[i].caughtUp, proc[i].position}
      BY <2>2, <3>1 DEF Record, Place
    <3>3. UNCHANGED checkpoint /\ Becomes(i, p) /\ proc[i].pc = "certifying"
      BY <2>8, <3>1 DEF Certify, At
    <3>4. overlapped \/ DurableRecord(p)'
      <4>1. checkpoint \in Int /\ proc[i].position \in Int
        BY <2>2 DEF ProcessorInv, TypeOK, Record, NoCheckpoint
      <4>2. QED
        BY <2>1, <2>2, <3>2, <3>3, <4>1 DEF DurableRecord, Running
    <3>5. QED
      BY <2>1, <3>2, <3>3, <3>4, RunDurability
  <2>9. QED
    BY <1>4, <2>3, <2>4, <2>5, <2>6, <2>7, <2>8 DEF Step
<1>5. QED
  BY <1>1, <1>2, <1>3, <1>4 DEF Next

-----------------------------------------------------------------------------
(* Theorems.                                                               *)

\* The invariant holds of every behaviour: processors read, handle and save in
\* order, whatever fails (processor.go, Run and drain).
THEOREM ProcessorInvariance == Spec => []ProcessorInv
<1>1. Init => ProcessorInv
  BY Initially
<1>2. ProcessorInv /\ [Next]_vars => ProcessorInv'
  BY ProcessorStep
<1>3. QED
  BY <1>1, <1>2, PTL DEF Spec

\* No event at or below the checkpoint is ever unhandled: a restart, which reads
\* only above the checkpoint, loses nothing (processor.go, saveCheckpoint).
THEOREM NothingLost == Spec => []CheckpointCovers
<1>1. ProcessorInv => CheckpointCovers
  BY DEF ProcessorInv
<1>2. QED
  BY <1>1, ProcessorInvariance, PTL

\* A read that does not return fills the batch (processor.go, drain).
LEMMA ReadBecomes ==
  ASSUME NEW i, Read(i)
  PROVE  \/ Returns(i)
         \/ \E batch, failed, full, opened :
              Becomes(i, [proc[i] EXCEPT !.pc = "handling", !.batch = batch,
                            !.failed = failed, !.full = full, !.opened = opened])
  BY DEF Read, Drains

\* When the caught-up signal is given, everything committed before the read that
\* found the head has been handled (processor.go, caughtUpOnce).
THEOREM SignalCertifiesHead == Spec => CertifiesHead
<1> DEFINE Certifies ==
      \A i \in Slot :
        proc[i].caughtUp = NotCaughtUp /\ proc'[i].caughtUp # NotCaughtUp =>
          \A e \in log : e <= proc[i].opened => e \in behind
<1>1. ASSUME ProcessorInv, [Next]_vars
      PROVE  [Certifies]_vars
  <2> SUFFICES ASSUME NEW i \in Slot,
                      proc[i].caughtUp = NotCaughtUp,
                      proc'[i].caughtUp # NotCaughtUp
               PROVE  Covered(proc[i].opened)
    BY DEF Covered
  <2>1. proc \in [Slot -> Record] /\ Sound(proc[i])
    BY <1>1 DEF ProcessorInv, TypeOK
  <2>2. \A j \in Slot \ {i} : \A p : ~Becomes(j, p)
    BY <2>1 DEF Becomes
  <2>3. \A p : Becomes(i, p) => p.caughtUp # NotCaughtUp
    BY <2>1 DEF Becomes
  <2>4. ~Returns(i)
    BY <2>3 DEF Returns, New
  <2>5. Certify(i)
    <3>1. ~Publish /\ ~DeleteEvent /\ ~UNCHANGED vars
      BY DEF Publish, DeleteEvent, vars
    <3>2. ~Start(i)
      <4>1. PICK r : r = [New EXCEPT !.pc = "draining", !.position = LoadPosition]
        OBVIOUS
      <4>2. r.caughtUp = NotCaughtUp
        BY <4>1 DEF New
      <4>3. QED
        BY <2>3, <4>1, <4>2 DEF Start
    <3>3. ASSUME NEW r \in {[proc[i] EXCEPT !.pc = AfterPoll],
                            [proc[i] EXCEPT !.pc = "handling", !.sinceCheckpoint = 0],
                            [proc[i] EXCEPT !.pc = "certifying", !.sinceCheckpoint = 0],
                            [proc[i] EXCEPT !.pc = AfterBatch(proc[i]), !.full = FALSE]}
          PROVE  ~Becomes(i, r)
      <4>1. proc[i] \in Record
        BY <2>1
      <4>2. r.caughtUp = proc[i].caughtUp
        BY <4>1 DEF Record
      <4>3. QED
        BY <2>3, <4>2
    <3>4. ~Poll(i) /\ ~SaveHandled(i) /\ ~Touch(i) /\ ~EndBatch(i)
      BY <2>4, <3>3 DEF Poll, SaveHandled, Touch, Save, EndBatch
    <3>5. ~Read(i)
      <4> SUFFICES ASSUME Read(i) PROVE FALSE
        OBVIOUS
      <4>1. PICK batch, failed, full, opened :
              Becomes(i, [proc[i] EXCEPT !.pc = "handling", !.batch = batch,
                            !.failed = failed, !.full = full, !.opened = opened])
        BY <2>4, ReadBecomes
      <4>2. PICK r : r = [proc[i] EXCEPT !.pc = "handling", !.batch = batch,
                            !.failed = failed, !.full = full, !.opened = opened]
        OBVIOUS
      <4>3. r.caughtUp = proc[i].caughtUp
        BY <2>1, <4>2 DEF Record
      <4>4. QED
        BY <2>3, <4>1, <4>2, <4>3
    <3>6. ~Handle(i)
      <4> SUFFICES ASSUME Handle(i) PROVE FALSE
        OBVIOUS
      <4>1. PICK e : Becomes(i, Advanced(proc[i], e))
        BY <2>4 DEF Handle
      <4>2. PICK r : r = Advanced(proc[i], e)
        OBVIOUS
      <4>3. r.caughtUp = proc[i].caughtUp
        BY <2>1, <4>2 DEF Advanced, Record
      <4>4. QED
        BY <2>3, <4>1, <4>2, <4>3
    <3>7. ~Cancel(i) /\ ~Crash(i)
      BY <2>4 DEF Cancel, Crash
    <3>8. \A j \in Slot \ {i} :
            /\ ~Start(j) /\ ~Poll(j) /\ ~SaveHandled(j) /\ ~Touch(j) /\ ~Certify(j)
            /\ ~Read(j) /\ ~EndBatch(j) /\ ~Handle(j) /\ ~Cancel(j) /\ ~Crash(j)
      <4> SUFFICES ASSUME NEW j \in Slot \ {i}
                   PROVE  /\ ~Start(j) /\ ~Poll(j) /\ ~SaveHandled(j) /\ ~Touch(j)
                          /\ ~Certify(j) /\ ~Read(j) /\ ~EndBatch(j) /\ ~Handle(j)
                          /\ ~Cancel(j) /\ ~Crash(j)
        OBVIOUS
      <4>0. \A p : ~Becomes(j, p)
        BY <2>2
      <4>1. ~Start(j) /\ ~Poll(j) /\ ~Certify(j)
        BY ONLY <4>0 DEF Start, Poll, Certify
      <4>2. ~Returns(j)
        BY ONLY <4>0 DEF Returns
      <4>3. ~Cancel(j) /\ ~Crash(j)
        BY ONLY <4>2 DEF Cancel, Crash
      <4>4. ~Read(j)
        <5> SUFFICES ASSUME Read(j) PROVE FALSE
          OBVIOUS
        <5>1. PICK batch, failed, full, opened :
                Becomes(j, [proc[j] EXCEPT !.pc = "handling", !.batch = batch,
                              !.failed = failed, !.full = full, !.opened = opened])
          BY <4>2, ReadBecomes
        <5>2. PICK r : r = [proc[j] EXCEPT !.pc = "handling", !.batch = batch,
                              !.failed = failed, !.full = full, !.opened = opened]
          OBVIOUS
        <5>3. ~Becomes(j, r)
          BY <4>0
        <5>4. QED
          BY ONLY <5>1, <5>2, <5>3
      <4>5. ~EndBatch(j)
        <5>1. PICK r : r = [proc[j] EXCEPT !.pc = AfterBatch(proc[j]), !.full = FALSE]
          OBVIOUS
        <5>2. ~Becomes(j, r)
          BY <4>0
        <5>3. QED
          BY <4>2, <5>1, <5>2 DEF EndBatch
      <4>6. ~Handle(j)
        BY ONLY <4>0, <4>2 DEF Handle
      <4>7. \A pc, next : ~Save(j, pc, next)
        BY ONLY <4>0, <4>2 DEF Save
      <4>8. ~SaveHandled(j) /\ ~Touch(j)
        BY ONLY <4>7 DEF SaveHandled, Touch
      <4>9. QED
        BY <4>1, <4>3, <4>4, <4>5, <4>6, <4>8
    <3>9. QED
      BY <1>1, <3>1, <3>2, <3>4, <3>5, <3>6, <3>7, <3>8 DEF Next, Step
  <2>6. QED
    BY <2>1, <2>5 DEF Certify, At, Sound, ReachesHead
<1>2. QED
  BY <1>1, ProcessorInvariance, PTL DEF Spec, CertifiesHead

\* The position a processor certified was saved before the signal and survives it,
\* as long as no superseded processor ran beside it (processor.go, Run: the idle
\* touch precedes caughtUpOnce).
THEOREM SignalIsDurable == Spec => []HeadIsDurable
<1>1. Init => DurabilityInv
  BY DEF Init, DurabilityInv, Durable, Running, At, New, NoCheckpoint, NotCaughtUp
<1>2. ProcessorInv /\ ProcessorInv' /\ DurabilityInv /\ [Next]_vars => DurabilityInv'
  BY DurabilityStep
<1>3. ProcessorInv /\ DurabilityInv => HeadIsDurable
  <2> SUFFICES ASSUME ProcessorInv, DurabilityInv, NEW i \in Slot, ~overlapped
               PROVE  checkpoint >= proc[i].caughtUp
    BY DEF HeadIsDurable
  <2>1. proc[i].caughtUp <= checkpoint
    BY DEF DurabilityInv, Durable
  <2>2. checkpoint \in Int /\ proc[i].caughtUp \in Int
    BY DEF ProcessorInv, TypeOK, Record, NoCheckpoint, NotCaughtUp
  <2>3. QED
    BY <2>1, <2>2
<1>4. QED
  BY <1>1, <1>2, <1>3, ProcessorInvariance, PTL DEF Spec

-----------------------------------------------------------------------------
(* Redelivery is bounded.                                                   *)

\* Events are handled in the order of the sequence, so that what is behind is a
\* prefix of it, and nothing that has yet to be published.
InOrder ==
  /\ behind \in SUBSET (1 .. counter)
  /\ \A e \in log \cap behind : Covered(e)

\* What a restart would deliver again, and what is unsaved up to a position.
Redelivered == {e \in log \cap behind : e > checkpoint}
Unsaved(n) == {e \in log : checkpoint < e /\ e <= n}

\* A processor has counted what it has not saved, and saves before it goes on.
Paced(p) ==
  p.pc # "new" =>
    /\ p.sinceCheckpoint <= CheckpointEvery
    /\ p.pc # "saving" => p.sinceCheckpoint < CheckpointEvery
    /\ Cardinality(Unsaved(p.position)) <= p.sinceCheckpoint

RedeliveryInv ==
  /\ InOrder
  /\ overlapped \/ (Cardinality(Redelivered) <= CheckpointEvery /\ \A i \in Slot : Paced(proc[i]))

\* The log is finite, and a part of it is no larger than the whole.
LEMMA Fewer ==
  ASSUME ProcessorInv, NEW T \in SUBSET log, NEW S \in SUBSET T
  PROVE  /\ IsFiniteSet(S) /\ IsFiniteSet(T)
         /\ Cardinality(S) \in Nat /\ Cardinality(T) \in Nat /\ Cardinality(S) <= Cardinality(T)
<1>1. counter \in Nat /\ log \in SUBSET (1 .. counter)
  BY DEF ProcessorInv, TypeOK
<1>2. IsFiniteSet(1 .. counter) /\ T \in SUBSET (1 .. counter)
  BY <1>1, FS_Interval
<1>3. IsFiniteSet(T)
  BY <1>2, FS_Subset
<1>4. IsFiniteSet(S) /\ Cardinality(S) <= Cardinality(T)
  BY <1>3, FS_Subset
<1>5. QED
  BY <1>3, <1>4, FS_CardinalityType

LEMMA NoneUnsaved ==
  ASSUME ProcessorInv, NEW n \in Int, n <= checkpoint
  PROVE  Cardinality(Unsaved(n)) = 0
<1>1. checkpoint \in Int /\ log \in SUBSET Nat
  BY DEF ProcessorInv, TypeOK, NoCheckpoint
<1>2. \A e \in log : ~(checkpoint < e /\ e <= n)
  BY <1>1
<1>a. Unsaved(n) = {}
  BY <1>2 DEF Unsaved
<1>3. QED
  BY <1>a, FS_EmptySet

\* A step of one processor that handles nothing: at most, it saves.
LEMMA SlotPace ==
  ASSUME ProcessorInv, RedeliveryInv, ProcessorInv',
         NEW i \in Slot, NEW p \in Record, Becomes(i, p),
         UNCHANGED <<log, counter, behind>>, overlapped => overlapped',
         overlapped' \/ /\ checkpoint <= checkpoint'
                        /\ \A j \in Slot \ {i} : ~Running(j)
                        /\ Paced(p)'
  PROVE  RedeliveryInv'
<1>1. InOrder'
  BY DEF RedeliveryInv, InOrder, Covered
<1>2. CASE ~overlapped'
  <2>1. checkpoint \in Int /\ checkpoint' \in Int /\ checkpoint <= checkpoint' /\ log \in SUBSET Nat
    BY <1>2 DEF ProcessorInv, TypeOK, NoCheckpoint
  <2>a. \A e \in log : e > checkpoint' => e > checkpoint
    BY <2>1
  <2>2. Redelivered' \in SUBSET Redelivered /\ Redelivered \in SUBSET log
    BY <2>a DEF Redelivered
  <2>3. /\ Cardinality(Redelivered') <= Cardinality(Redelivered)
        /\ Cardinality(Redelivered') \in Nat /\ Cardinality(Redelivered) \in Nat
    BY <2>2, Fewer
  <2>4. Cardinality(Redelivered) <= CheckpointEvery
    BY <1>2 DEF RedeliveryInv
  <2>5. Cardinality(Redelivered') <= CheckpointEvery
    BY <2>3, <2>4, ProcessorOptions
  <2>6. ASSUME NEW j \in Slot
        PROVE  Paced(proc[j])'
    <3>1. proc'[j] = IF j = i THEN p ELSE proc[j]
      BY DEF ProcessorInv, TypeOK, Becomes
    <3>2. CASE j = i
      BY <1>2, <3>1, <3>2 DEF Paced, Unsaved
    <3>3. CASE j # i
      BY <1>2, <3>1, <3>3 DEF Paced, Running
    <3>4. QED
      BY <3>2, <3>3
  <2>7. QED
    BY <1>1, <2>5, <2>6 DEF RedeliveryInv
<1>3. QED
  BY <1>1, <1>2 DEF RedeliveryInv

LEMMA ReturnPace ==
  ASSUME ProcessorInv, DurabilityInv, RedeliveryInv, ProcessorInv',
         NEW i \in Slot, Running(i), Returns(i), UNCHANGED <<log, counter, behind, overlapped>>,
         checkpoint' = checkpoint \/ checkpoint' = proc[i].position
  PROVE  RedeliveryInv'
<1>1. New \in Record /\ Becomes(i, New)
  BY NewIsSound DEF ProcessorInv, Returns
<1>2. Paced(New)'
  BY DEF Paced, New
<1>3. overlapped \/ checkpoint <= checkpoint'
  <2>1. overlapped \/ checkpoint <= proc[i].position
    BY DEF DurabilityInv, Durable
  <2>2. checkpoint \in Int
    BY DEF ProcessorInv, TypeOK, NoCheckpoint
  <2>3. QED
    BY <2>1, <2>2
<1>4. overlapped \/ \A j \in Slot \ {i} : ~Running(j)
  BY RunsAlone
<1>5. QED
  BY <1>1, <1>2, <1>3, <1>4, SlotPace

LEMMA StartPace ==
  ASSUME ProcessorInv, RedeliveryInv, ProcessorInv', NEW i \in Slot, Start(i)
  PROVE  RedeliveryInv'
<1>1. PICK p : p = [New EXCEPT !.pc = "draining", !.position = LoadPosition]
  OBVIOUS
<1>2. LoadPosition \in Nat /\ checkpoint \in Int
  BY DEF ProcessorInv, TypeOK, LoadPosition, NoCheckpoint
<1>3. /\ p \in Record
      /\ p.pc = "draining" /\ p.position = LoadPosition /\ p.sinceCheckpoint = 0
  BY <1>1, <1>2 DEF New, Record, Place, NotCaughtUp
<1>4. Unsaved(LoadPosition) = {}
  <2>1. \A e \in log : ~(checkpoint < e /\ e <= LoadPosition)
    BY DEF ProcessorInv, TypeOK, LoadPosition, NoCheckpoint
  <2>2. QED
    BY <2>1 DEF Unsaved
<1>5. Becomes(i, p) /\ UNCHANGED <<log, counter, checkpoint, behind>>
  BY <1>1 DEF Start
<1>6. Cardinality(Unsaved(p.position)') = 0
  BY <1>3, <1>4, <1>5, FS_EmptySet DEF Unsaved
<1>7. Paced(p)'
  BY <1>3, <1>6, ProcessorOptions DEF Paced
<1>8. (overlapped => overlapped') /\ (overlapped' \/ \A j \in Slot \ {i} : ~Running(j))
  BY DEF Start, ProcessorInv, TypeOK
<1>9. QED
  BY <1>2, <1>3, <1>5, <1>7, <1>8, SlotPace

\* Steps that move neither the position nor the count.
LEMMA PlainRecord ==
  ASSUME ProcessorInv, NEW i \in Slot, ~Returns(i),
         Read(i) \/ EndBatch(i) \/ Certify(i) \/ Poll(i)
  PROVE  \E p \in Record : /\ Becomes(i, p)
                           /\ p.position = proc[i].position
                           /\ p.sinceCheckpoint = proc[i].sinceCheckpoint
                           /\ p.pc # "saving" /\ proc[i].pc \notin {"new", "saving"}
<1>1. proc[i] \in Record /\ counter \in Nat /\ log \in SUBSET Nat
  BY DEF ProcessorInv, TypeOK
<1>2. CASE Read(i)
  <2>1. PICK batch \in SUBSET Nat, failed \in BOOLEAN, full \in BOOLEAN, opened \in Nat :
          Becomes(i, [proc[i] EXCEPT !.pc = "handling", !.batch = batch,
                        !.failed = failed, !.full = full, !.opened = opened])
    <3>1. \A batch \in Prefixes(Unread(i)) : batch \in SUBSET Nat
      BY <1>1 DEF Prefixes, Unread
    <3>2. (IF proc[i].caughtUp = NotCaughtUp THEN counter ELSE 0) \in Nat
      BY <1>1
    <3>3. QED
      BY <1>2, <3>1, <3>2 DEF Read, Drains
  <2>2. PICK p : p = [proc[i] EXCEPT !.pc = "handling", !.batch = batch,
                        !.failed = failed, !.full = full, !.opened = opened]
    OBVIOUS
  <2>3. p \in Record /\ p.pc = "handling" /\ p.position = proc[i].position
          /\ p.sinceCheckpoint = proc[i].sinceCheckpoint
    BY <1>1, <2>2 DEF Record, Place
  <2>4. QED
    BY <1>2, <2>1, <2>2, <2>3 DEF Read, At
<1>3. CASE EndBatch(i)
  <2>1. PICK p : p = [proc[i] EXCEPT !.pc = AfterBatch(proc[i]), !.full = FALSE]
    OBVIOUS
  <2>2. p \in Record /\ p.pc \in {"draining", "touching"} /\ p.position = proc[i].position
          /\ p.sinceCheckpoint = proc[i].sinceCheckpoint
    BY <1>1, <2>1 DEF AfterBatch, Record, Place
  <2>3. Becomes(i, p)
    BY <1>3, <2>1 DEF EndBatch
  <2>4. QED
    BY <1>3, <2>2, <2>3 DEF EndBatch, At
<1>4. CASE Certify(i)
  <2>1. PICK p : p = [proc[i] EXCEPT
                        !.pc = "polling", !.opened = 0,
                        !.caughtUp = IF @ = NotCaughtUp THEN proc[i].position ELSE @]
    OBVIOUS
  <2>2. p \in Record /\ p.pc = "polling" /\ p.position = proc[i].position
          /\ p.sinceCheckpoint = proc[i].sinceCheckpoint
    BY <1>1, <2>1 DEF Record, Place
  <2>3. Becomes(i, p)
    BY <1>4, <2>1 DEF Certify
  <2>4. QED
    BY <1>4, <2>2, <2>3 DEF Certify, At
<1>5. CASE Poll(i)
  <2>1. PICK p : p = [proc[i] EXCEPT !.pc = AfterPoll]
    OBVIOUS
  <2>2. p \in Record /\ p.pc = "draining" /\ p.position = proc[i].position
          /\ p.sinceCheckpoint = proc[i].sinceCheckpoint
    BY <1>1, <2>1 DEF AfterPoll, Record, Place
  <2>3. Becomes(i, p)
    BY <1>5, <2>1 DEF Poll
  <2>4. QED
    BY <1>5, <2>2, <2>3 DEF Poll, At
<1>6. QED
  BY <1>2, <1>3, <1>4, <1>5

LEMMA PlainPace ==
  ASSUME ProcessorInv, DurabilityInv, RedeliveryInv, ProcessorInv',
         NEW i \in Slot, ~Returns(i), Read(i) \/ EndBatch(i) \/ Certify(i) \/ Poll(i)
  PROVE  RedeliveryInv'
<1>1. PICK p \in Record : /\ Becomes(i, p)
                          /\ p.position = proc[i].position
                          /\ p.sinceCheckpoint = proc[i].sinceCheckpoint
                          /\ p.pc # "saving" /\ proc[i].pc \notin {"new", "saving"}
  BY PlainRecord
<1>2. UNCHANGED <<log, counter, checkpoint, behind, overlapped>>
  BY DEF Read, EndBatch, Certify, Poll
<1>3. overlapped \/ \A j \in Slot \ {i} : ~Running(j)
  BY <1>1, RunsAlone DEF Running
<1>4. overlapped \/ Paced(p)'
  <2>1. overlapped \/ Paced(proc[i])
    BY DEF RedeliveryInv
  <2>2. Unsaved(p.position)' = Unsaved(proc[i].position)
    BY <1>1, <1>2 DEF Unsaved
  <2>3. QED
    BY <1>1, <1>2, <2>1, <2>2 DEF Paced
<1>5. checkpoint <= checkpoint'
  BY <1>2 DEF ProcessorInv, TypeOK, NoCheckpoint
<1>6. QED
  BY <1>1, <1>2, <1>3, <1>4, <1>5, SlotPace

LEMMA SavePace ==
  ASSUME ProcessorInv, DurabilityInv, RedeliveryInv, ProcessorInv',
         NEW i \in Slot, ~Returns(i), SaveHandled(i) \/ Touch(i)
  PROVE  RedeliveryInv'
<1>1. PICK next \in {"handling", "certifying"} :
        Becomes(i, [proc[i] EXCEPT !.pc = next, !.sinceCheckpoint = 0])
  BY DEF SaveHandled, Touch, Save
<1>2. PICK p : p = [proc[i] EXCEPT !.pc = next, !.sinceCheckpoint = 0]
  OBVIOUS
<1>3. proc[i] \in Record /\ Running(i)
  BY DEF ProcessorInv, TypeOK, SaveHandled, Touch, Save, Running
<1>4. p \in Record /\ p.pc = next /\ p.position = proc[i].position /\ p.sinceCheckpoint = 0
  BY <1>2, <1>3 DEF Record, Place
<1>5. checkpoint' = proc[i].position /\ UNCHANGED <<log, counter, behind, overlapped>>
  BY DEF SaveHandled, Touch, Save
<1>6. Unsaved(p.position)' = {}
  <2>1. p.position \in Nat /\ log' \in SUBSET Nat /\ checkpoint' = p.position
    BY <1>4, <1>5 DEF Record, ProcessorInv, TypeOK
  <2>2. \A e \in log' : ~(checkpoint' < e /\ e <= p.position)
    BY <2>1
  <2>3. QED
    BY <2>2 DEF Unsaved
<1>7. Paced(p)'
  BY <1>4, <1>6, FS_EmptySet, ProcessorOptions DEF Paced
<1>8. overlapped \/ (checkpoint <= checkpoint' /\ \A j \in Slot \ {i} : ~Running(j))
  BY <1>3, <1>5, RunsAlone DEF DurableRecord, Running
<1>9. QED
  BY <1>1, <1>2, <1>4, <1>5, <1>7, <1>8, SlotPace

\* An event that was behind already is redelivered; any other is the only one
\* between the processor's old position and its new one.
LEMMA HandlePace ==
  ASSUME ProcessorInv, DurabilityInv, RedeliveryInv, ProcessorInv',
         NEW i \in Slot, NEW e \in proc[i].batch,
         \A d \in proc[i].batch : e <= d,
         behind' = behind \cup {e}, Becomes(i, Advanced(proc[i], e)), Handle(i)
  PROVE  RedeliveryInv'
<1>1. /\ UNCHANGED <<log, counter, checkpoint, overlapped>> /\ proc[i].pc = "handling"
      /\ proc[i] \in Record /\ Sound(proc[i]) /\ log \in SUBSET Nat /\ checkpoint \in Int
      /\ counter \in Nat
  BY DEF Handle, At, ProcessorInv, TypeOK, NoCheckpoint
<1>2. PICK p : p = Advanced(proc[i], e)
  OBVIOUS
<1>3. e \in 1 .. counter /\ e \in Nat /\ proc[i].position < e /\ proc[i].position \in Nat
      /\ proc[i].sinceCheckpoint \in Nat
  BY <1>1 DEF Sound, Gapless, Record
<1>4. /\ p \in Record /\ p.position = e /\ p.sinceCheckpoint = proc[i].sinceCheckpoint + 1
      /\ p.pc = IF proc[i].sinceCheckpoint + 1 >= CheckpointEvery THEN "saving" ELSE "handling"
  <2>1. proc[i].batch \ {e} \in SUBSET Nat /\ proc[i].sinceCheckpoint + 1 \in Nat
    BY <1>1, <1>3 DEF Record
  <2>2. QED
    BY <1>1, <1>2, <1>3, <2>1 DEF Advanced, Record, Place
<1>5. \A d \in log : d <= e => d <= proc[i].position \/ d = e
  <2>1. \A d \in log : proc[i].position < d /\ d < e => d \in proc[i].batch
    BY <1>1 DEF Sound, Gapless
  <2>2. \A d \in log : d \in Nat /\ (d \in proc[i].batch => e <= d)
    BY <1>1
  <2>3. QED
    BY <1>3, <2>1, <2>2
<1>6. Covered(e)'
  BY <1>1, <1>5 DEF Covered, Sound
<1>7. InOrder'
  <2>1. behind' \in SUBSET (1 .. counter')
    BY <1>1, <1>3 DEF RedeliveryInv, InOrder
  <2>2. \A d \in log \cap behind : Covered(d)'
    BY <1>1 DEF RedeliveryInv, InOrder, Covered
  <2>3. QED
    BY <1>1, <1>6, <2>1, <2>2 DEF InOrder, Covered
<1>8. CASE ~overlapped
  <2>1. /\ Cardinality(Redelivered) <= CheckpointEvery /\ Paced(proc[i])
        /\ checkpoint <= proc[i].position /\ \A j \in Slot \ {i} : ~Running(j)
    BY <1>1, <1>8, RunsAlone DEF RedeliveryInv, DurableRecord, Running
  <2>2. Unsaved(e) \subseteq Unsaved(proc[i].position) \cup {e}
    BY <1>5 DEF Unsaved
  <2>3. /\ Cardinality(Unsaved(e)) \in Nat
        /\ Cardinality(Unsaved(e)) <= Cardinality(Unsaved(proc[i].position)) + 1
        /\ Cardinality(Unsaved(proc[i].position)) \in Nat
    <3> DEFINE S == Unsaved(proc[i].position)
               T == Unsaved(e)
    <3>1. S \in SUBSET log /\ T \in SUBSET log /\ T \in SUBSET (S \cup {e})
      BY <2>2 DEF Unsaved
    <3> HIDE DEF S, T
    <3>2. IsFiniteSet(S) /\ Cardinality(S) \in Nat
      BY <3>1, Fewer
    <3>3. IsFiniteSet(S \cup {e}) /\ Cardinality(S \cup {e}) <= Cardinality(S) + 1
      <4>1. Cardinality(S \cup {e}) = IF e \in S THEN Cardinality(S) ELSE Cardinality(S) + 1
        BY <3>2, FS_AddElement
      <4>2. IsFiniteSet(S \cup {e})
        BY <3>2, FS_AddElement
      <4>3. QED
        BY <3>2, <4>1, <4>2
    <3>4. IsFiniteSet(T) /\ Cardinality(T) <= Cardinality(S \cup {e})
      BY <3>1, <3>3, FS_Subset
    <3>5. Cardinality(T) \in Nat /\ Cardinality(S \cup {e}) \in Nat
      BY <3>3, <3>4, FS_CardinalityType
    <3>6. QED
      BY <3>2, <3>3, <3>4, <3>5 DEF S, T
  <2>4. /\ Cardinality(Unsaved(proc[i].position)) <= proc[i].sinceCheckpoint
        /\ proc[i].sinceCheckpoint < CheckpointEvery
    BY <1>1, <2>1 DEF Paced
  <2>5. /\ Cardinality(Unsaved(e)) <= proc[i].sinceCheckpoint + 1
        /\ proc[i].sinceCheckpoint + 1 <= CheckpointEvery
    BY <1>3, <2>3, <2>4, ProcessorOptions
  <2>6. Unsaved(e)' = Unsaved(e)
    BY <1>1 DEF Unsaved
  <2>7. Paced(p)'
    <3>1. p.pc # "saving" => p.sinceCheckpoint < CheckpointEvery
      BY <1>3, <1>4, ProcessorOptions
    <3>2. Unsaved(p.position)' = Unsaved(e)
      BY <1>4, <2>6
    <3>3. QED
      BY <1>4, <2>5, <3>1, <3>2 DEF Paced
  <2>8. Cardinality(Redelivered') <= CheckpointEvery
    <3>1. CASE e \in behind \/ e \notin log
      <4>1. Redelivered' = Redelivered
        BY <1>1, <3>1 DEF Redelivered
      <4>2. QED
        BY <2>1, <4>1
    <3>2. CASE e \notin behind /\ e \in log
      <4>1. \A d \in log \cap behind : d <= e
        BY <1>1, <1>3, <3>2 DEF RedeliveryInv, InOrder, Covered
      <4>2. Redelivered' \in SUBSET Unsaved(e) /\ Unsaved(e) \in SUBSET log
        BY <1>1, <1>3, <4>1 DEF Redelivered, Unsaved
      <4>3. Cardinality(Redelivered') <= Cardinality(Unsaved(e)) /\ Cardinality(Redelivered') \in Nat
        BY <4>2, Fewer
      <4>4. QED
        BY <1>3, <2>3, <2>5, <4>3, ProcessorOptions
    <3>3. QED
      BY <3>1, <3>2
  <2>9. ASSUME NEW j \in Slot
        PROVE  Paced(proc[j])'
    <3>1. proc'[j] = IF j = i THEN p ELSE proc[j]
      BY <1>2 DEF ProcessorInv, TypeOK, Becomes
    <3>2. CASE j = i
      BY <2>7, <3>1, <3>2 DEF Paced, Unsaved
    <3>3. CASE j # i
      BY <2>1, <3>1, <3>3 DEF Paced, Running
    <3>4. QED
      BY <3>2, <3>3
  <2>10. QED
    BY <1>7, <2>8, <2>9 DEF RedeliveryInv
<1>9. QED
  BY <1>1, <1>7, <1>8 DEF RedeliveryInv

\* Publishing adds nothing that is behind, and deleting only takes away.
LEMMA SequencePace ==
  ASSUME ProcessorInv, RedeliveryInv, ProcessorInv', Publish \/ DeleteEvent
  PROVE  RedeliveryInv'
<1>1. UNCHANGED <<checkpoint, behind, proc, overlapped>>
  BY DEF Publish, DeleteEvent
<1>2. /\ counter \in Nat /\ counter' \in Nat /\ counter <= counter'
      /\ \A e \in log' : e \in log \/ (e \in Nat /\ e > counter)
  <2>1. CASE Publish
    <3>1. PICK n \in counter + 1 .. MaxPosition : counter' = n /\ log' = log \cup {n}
      BY <2>1 DEF Publish
    <3>2. n \in Nat /\ counter < n /\ counter \in Nat
      BY <3>1, ProcessorOptions DEF ProcessorInv, TypeOK
    <3>3. QED
      BY <3>1, <3>2
  <2>2. CASE DeleteEvent
    <3>1. log' \subseteq log /\ counter' = counter /\ counter \in Nat
      BY <2>2 DEF DeleteEvent, ProcessorInv, TypeOK
    <3>2. QED
      BY <3>1
  <2>3. QED
    BY <2>1, <2>2
<1>3. /\ counter \in Nat /\ log \in SUBSET (1 .. counter) /\ behind \in SUBSET (1 .. counter)
  BY DEF ProcessorInv, TypeOK, RedeliveryInv, InOrder
<1>4. \A e \in log' : e \in log \/ (e \in Nat /\ e > counter)
  BY <1>2
<1>5. log' \cap behind \subseteq log
  BY <1>3, <1>4
<1>6. InOrder'
  <2>1. behind' \in SUBSET (1 .. counter')
    BY <1>1, <1>2, <1>3
  <2>2. ASSUME NEW e \in log' \cap behind, NEW d \in log', d <= e
        PROVE  d \in behind
    <3>1. e \in log \cap behind /\ e \in Nat /\ e <= counter
      <4>1. e \in behind /\ e \in log
        BY <1>1, <1>5, <2>2
      <4>2. e \in 1 .. counter
        BY <1>3, <4>1
      <4>3. QED
        BY <1>3, <4>1, <4>2
    <3>2. d \in log
      BY <1>3, <1>4, <2>2, <3>1
    <3>3. QED
      BY <2>2, <3>1, <3>2 DEF RedeliveryInv, InOrder, Covered
  <2>3. QED
    BY <1>1, <2>1, <2>2 DEF InOrder, Covered
<1>7. CASE ~overlapped
  <2>1. Redelivered' \in SUBSET Redelivered /\ Redelivered \in SUBSET log
    BY <1>1, <1>5 DEF Redelivered
  <2>2. /\ Cardinality(Redelivered') <= Cardinality(Redelivered)
        /\ Cardinality(Redelivered') \in Nat /\ Cardinality(Redelivered) \in Nat
    BY <2>1, Fewer
  <2>3. Cardinality(Redelivered') <= CheckpointEvery
    BY <1>7, <2>2, ProcessorOptions DEF RedeliveryInv
  <2>4. ASSUME NEW i \in Slot, Running(i)
        PROVE  Cardinality(Unsaved(proc[i].position)') <= Cardinality(Unsaved(proc[i].position))
               /\ Cardinality(Unsaved(proc[i].position)') \in Nat
               /\ Cardinality(Unsaved(proc[i].position)) \in Nat
    <3>1. proc[i].position \in Nat /\ proc[i].position <= counter /\ proc' = proc
      BY <1>1 DEF ProcessorInv, TypeOK, Record, Sound
    <3>2. \A e \in log' : e <= proc[i].position => e \in log
      BY <1>3, <1>4, <3>1
    <3>3. Unsaved(proc[i].position)' \in SUBSET Unsaved(proc[i].position)
          /\ Unsaved(proc[i].position) \in SUBSET log
      BY <1>1, <3>1, <3>2 DEF Unsaved
    <3>4. QED
      BY <3>3, Fewer
  <2>5. ASSUME NEW i \in Slot
        PROVE  Paced(proc[i])'
    <3>1. Paced(proc[i]) /\ proc' = proc
      BY <1>1, <1>7 DEF RedeliveryInv
    <3>2. CASE proc[i].pc = "new"
      BY <3>1, <3>2 DEF Paced
    <3>3. CASE proc[i].pc # "new"
      <4>1. /\ proc[i].sinceCheckpoint \in Nat
            /\ Cardinality(Unsaved(proc[i].position)) <= proc[i].sinceCheckpoint
        BY <3>1, <3>3 DEF Paced, ProcessorInv, TypeOK, Record
      <4>2. Cardinality(Unsaved(proc[i].position)') <= proc[i].sinceCheckpoint
        BY <2>4, <3>3, <4>1 DEF Running
      <4>3. QED
        BY <3>1, <4>2 DEF Paced
    <3>4. QED
      BY <3>2, <3>3
  <2>6. QED
    BY <1>6, <2>3, <2>5 DEF RedeliveryInv
<1>8. QED
  BY <1>1, <1>6, <1>7 DEF RedeliveryInv, ProcessorInv, TypeOK

LEMMA RedeliveryStep ==
  ASSUME ProcessorInv, DurabilityInv, RedeliveryInv, ProcessorInv', [Next]_vars
  PROVE  RedeliveryInv'
<1>1. CASE Publish \/ DeleteEvent
  BY <1>1, SequencePace
<1>2. ASSUME NEW i \in Slot, Start(i)
      PROVE  RedeliveryInv'
  BY <1>2, StartPace
<1>3. ASSUME NEW i \in Slot, Cancel(i) \/ Crash(i)
      PROVE  RedeliveryInv'
  BY <1>3, ReturnPace DEF Cancel, Crash, Running
<1>4. ASSUME NEW i \in Slot, Step(i)
      PROVE  RedeliveryInv'
  <2>1. CASE Returns(i) /\ UNCHANGED behind
    <3>1. Running(i) /\ UNCHANGED <<log, counter, overlapped>>
          /\ (checkpoint' = checkpoint \/ checkpoint' = proc[i].position)
      BY <1>4 DEF Step, Read, Handle, SaveHandled, EndBatch, Touch, Save, Certify, Poll, At,
                  Running
    <3>2. QED
      BY <2>1, <3>1, ReturnPace
  <2>2. CASE ~(Returns(i) /\ UNCHANGED behind) /\ Handle(i)
    <3>1. PICK e \in proc[i].batch :
            /\ \A d \in proc[i].batch : e <= d
            /\ behind' = behind \cup {e}
            /\ Becomes(i, Advanced(proc[i], e))
      BY <2>2 DEF Handle
    <3>2. QED
      BY <2>2, <3>1, HandlePace
  <2>3. CASE ~(Returns(i) /\ UNCHANGED behind) /\ ~Handle(i)
    <3>1. UNCHANGED behind
      BY <1>4, <2>3 DEF Step, Read, SaveHandled, EndBatch, Touch, Save, Certify, Poll
    <3>2. ~Returns(i)
      BY <2>3, <3>1
    <3>3. QED
      BY <1>4, <2>3, <3>2, PlainPace, SavePace DEF Step
  <2>4. QED
    BY <2>1, <2>2, <2>3
<1>5. CASE UNCHANGED vars
  BY <1>5 DEF vars, RedeliveryInv, InOrder, Covered, Redelivered, Unsaved, Paced
<1>6. QED
  BY <1>1, <1>2, <1>3, <1>4, <1>5 DEF Next

\* A restart of a processor that ran alone delivers at most CheckpointEvery events
\* again, however its batches were cut and whatever saves failed (processor.go,
\* handleEvent's cadence and saveCheckpoint).
THEOREM RedeliveryIsBounded == Spec => []RedeliveryBounded
<1>1. Init => DurabilityInv
  BY DEF Init, DurabilityInv, Durable, Running, At, New, NoCheckpoint, NotCaughtUp
<1>2. Init => RedeliveryInv
  <2> SUFFICES ASSUME Init PROVE RedeliveryInv
    OBVIOUS
  <2>1. Redelivered = {} /\ InOrder
    BY DEF Init, Redelivered, InOrder
  <2>2. \A i \in Slot : proc[i].pc = "new"
    BY DEF Init, New
  <2>3. QED
    BY <2>1, <2>2, FS_EmptySet, ProcessorOptions DEF RedeliveryInv, Paced
<1>3. ProcessorInv /\ ProcessorInv' /\ DurabilityInv /\ [Next]_vars => DurabilityInv'
  BY DurabilityStep
<1>4. ProcessorInv /\ ProcessorInv' /\ DurabilityInv /\ RedeliveryInv /\ [Next]_vars
        => RedeliveryInv'
  BY RedeliveryStep
<1>5. RedeliveryInv => RedeliveryBounded
  BY DEF RedeliveryInv, RedeliveryBounded, Redelivered
<1>6. QED
  BY <1>1, <1>2, <1>3, <1>4, <1>5, ProcessorInvariance, PTL DEF Spec
=============================================================================
