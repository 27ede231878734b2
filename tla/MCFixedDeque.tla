----------------------------- MODULE MCFixedDeque -----------------------------
(***************************************************************************)
(* An instance of FixedDeque for TLC.  Four slots give every shape of the  *)
(* indices (linear, wrapped, full in either form) and let both go round;   *)
(* three values tell the positions of a full deque apart well enough for   *)
(* the refinement to notice two that are swapped or repeated.              *)
(***************************************************************************)
EXTENDS FixedDeque

CONSTANTS a, b, c

\* The assigned ranges: empty, short, exactly full, and one item too long.
MCSources == {<<>>, <<a, b>>, <<c, b, a, b>>, <<a, b, c, a, b>>}

\* Moves by more than the container holds, in both directions.
MCOffsets == {-5, -2, 2, 5}
=============================================================================
