----------------------------- MODULE MCRouting -----------------------------
(***************************************************************************)
(* Two setters, registered in a fixed order.  Workers and the stream       *)
(* router share nothing but the record, which neither writes, so each is   *)
(* checked in a deployment without the other.                              *)
(***************************************************************************)
EXTENDS Routing

CONSTANTS w1, w2

Registered == <<w1, w2>>

OneKind == {Worker, Reader}
=============================================================================
