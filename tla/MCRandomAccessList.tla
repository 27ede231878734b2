-------------------------- MODULE MCRandomAccessList --------------------------
(* Two lists over four nodes, two of which have equal values. *)
EXTENDS RandomAccessList

CONSTANTS a, b,             \* the lists
          ba, ea, bb, eb,   \* their sentinels
          n0, n1, m1, n2    \* the nodes, named for their values

MCLists == {a, b}
MCNode == {n0, n1, m1, n2}
MCBeforeBegin == (a :> ba) @@ (b :> bb)
MCEnd == (a :> ea) @@ (b :> eb)
MCvalue == (n0 :> 0) @@ (n1 :> 1) @@ (m1 :> 1) @@ (n2 :> 2)

\* The nodes of equal value are alike, and so are the lists with their sentinels.
ListSymmetry ==
  Permutations({n1, m1})
  \cup {(a :> b) @@ (b :> a) @@ (ba :> bb) @@ (bb :> ba) @@ (ea :> eb) @@ (eb :> ea)}
=============================================================================
