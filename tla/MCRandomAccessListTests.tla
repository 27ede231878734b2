----------------------- MODULE MCRandomAccessListTests -----------------------
(* Enough nodes of every value the tests use. *)
EXTENDS RandomAccessListTests

CONSTANTS ba, ea, bb, eb    \* the sentinels

MCLists == {empty, empty2}
MCvalue == TwentyFive \o Same(0, 8) \o Same(50, 8) \o <<2, 6>>
MCNode == DOMAIN MCvalue
MCBeforeBegin == (empty :> ba) @@ (empty2 :> bb)
MCEnd == (empty :> ea) @@ (empty2 :> eb)
=============================================================================
