--------------------------- MODULE MCUnboundedQueue ---------------------------
(***************************************************************************)
(* An instance of UnboundedQueue for TLC: a batch of two items for three   *)
(* consumers is the smallest case in which one notification must be passed *)
(* on, and a third consumer can steal the item in between.                 *)
(***************************************************************************)
EXTENDS UnboundedQueue

CONSTANTS c1, c2, c3
=============================================================================
