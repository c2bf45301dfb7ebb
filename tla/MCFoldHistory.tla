--------------------------- MODULE MCFoldHistory ---------------------------
(* FoldHistory on a small instance; MCFoldHistory.cfg gives the constants. *)
EXTENDS FoldHistory
=============================================================================
