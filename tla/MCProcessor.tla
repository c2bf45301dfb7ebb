---------------------------- MODULE MCProcessor ----------------------------
(***************************************************************************)
(* One processor reads event by event, so its checkpoint cadence spans     *)
(* batches; the other reads pairs, so an error may end a read behind an    *)
(* event.                                                                  *)
(***************************************************************************)
EXTENDS Processor, TLC

CONSTANTS p, q

Slots == {p, q}
Batches == (p :> 1) @@ (q :> 2)
=============================================================================
