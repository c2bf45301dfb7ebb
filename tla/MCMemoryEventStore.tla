------------------------- MODULE MCMemoryEventStore -------------------------
(***************************************************************************)
(* Streams and readers are interchangeable.                                *)
(***************************************************************************)
EXTENDS MemoryEventStore, TLC

Symmetry == Permutations(Stream) \cup Permutations(Reader)
=============================================================================
