-------------------------- MODULE MCAggregateStore --------------------------
(***************************************************************************)
(* Clients are interchangeable.                                            *)
(***************************************************************************)
EXTENDS AggregateStore, TLC

Symmetry == Permutations(Client)
=============================================================================
