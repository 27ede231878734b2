------------------------ MODULE MCRandomAccessListDeep ------------------------
(* One list of up to six interchangeable nodes, for deeper trees. *)
EXTENDS RandomAccessList

CONSTANTS list, before_begin, end, n1, n2, n3, n4, n5, n6

MCLists == {list}
MCNode == {n1, n2, n3, n4, n5, n6}
MCBeforeBegin == list :> before_begin
MCEnd == list :> end
MCvalue == [n \in MCNode |-> 0]

NodeSymmetry == Permutations(MCNode)
=============================================================================
