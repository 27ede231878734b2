--------------------------- MODULE BoundedSequence ---------------------------
(***************************************************************************)
(* What a fixed-capacity deque promises its caller: a sequence of at most  *)
(* Capacity values, changed at either end, that silently ignores a push    *)
(* when it is full and a pop when it is empty (the release behaviour of    *)
(* inplace_fixed_deque, whose debug build asserts at the same places).     *)
(***************************************************************************)
EXTENDS Naturals, Sequences

CONSTANTS Capacity,  \* the item_amount template parameter
          Value,     \* the values of T
          Sources    \* the ranges a caller may assign from

VARIABLE items       \* the contents, front first

PushBack(v) ==
  /\ Len(items) < Capacity
  /\ items' = Append(items, v)

PushFront(v) ==
  /\ Len(items) < Capacity
  /\ items' = <<v>> \o items

PopBack ==
  /\ items # <<>>
  /\ items' = SubSeq(items, 1, Len(items) - 1)

PopFront ==
  /\ items # <<>>
  /\ items' = Tail(items)

Clear == items' = <<>>

\* A range longer than the capacity is cut off at it.
Assign(s) ==
  items' = SubSeq(s, 1, IF Len(s) <= Capacity THEN Len(s) ELSE Capacity)

Init == items = <<>>

\* Clear is also what an assignment interrupted by an exception amounts to.
Next ==
  \/ \E v \in Value : PushBack(v) \/ PushFront(v)
  \/ PopBack
  \/ PopFront
  \/ Clear
  \/ \E s \in Sources : Assign(s)

Spec == Init /\ [][Next]_items
=============================================================================
