------------------------------- MODULE AvlTree --------------------------------
(***************************************************************************)
(* The tree inside random_access_list (avl_tree_stump of                   *)
(* random_access_list.hpp): linked nodes without keys, whose in-order walk *)
(* is the list.  Every subtree stores its size, which gives positions, and *)
(* its height, which decides the rotations.                                *)
(*                                                                         *)
(* The operators are pure.  `t' maps each node to its fields; a `stump' is *)
(* a record of the whole tree, with the two sentinels that stand before    *)
(* the first and after the last element and the cached first element.      *)
(* The code's left/right twins are one operator with the side as argument. *)
(* A loop is the function from the number of rounds to what it has reached *)
(* after them, where it stays once it has ended; in a tree that happens in *)
(* no more rounds than there are nodes (Rounds).                           *)
(***************************************************************************)
EXTENDS Integers, FiniteSets

CONSTANT Null

Opposite(side) == IF side = "left" THEN "right" ELSE "left"

\* A node fresh from its constructor or from resetInvariant.
FreshNode == [left |-> Null, right |-> Null, parent |-> Null,
              size |-> 1, height |-> 1]

size(t, n)   == IF n = Null THEN 0 ELSE t[n].size
height(t, n) == IF n = Null THEN 0 ELSE t[n].height

Rounds(t) == 0 .. Cardinality(DOMAIN t)

-----------------------------------------------------------------------------
(* Rotations and the way up *)

recalculate(t, n) ==
  LET l == t[n].left
      r == t[n].right
  IN  [t EXCEPT ![n].size   = size(t, l) + size(t, r) + 1,
                ![n].height = (IF height(t, l) > height(t, r) THEN height(t, l)
                                                              ELSE height(t, r)) + 1]

replace_subnode(t, n, such, replacer) ==
  IF n = Null THEN t
  ELSE LET side == IF t[n].left = such THEN "left" ELSE "right"
       IN  [t EXCEPT ![n][side] = replacer]

\* Mutant: the inner child keeps its old parent.
rotate_InnerParent(t, root, side, restore) ==
  LET other == Opposite(side)
      pivot == t[root][side]
      up    == t[root].parent
      t1    == [t EXCEPT ![pivot][other] = root,  ![pivot].parent = up,
                         ![root].parent = pivot,  ![root][side] = t[pivot][other]]
      t2    == replace_subnode(t1, up, root, pivot)
  IN  IF restore THEN recalculate(recalculate(t2, root), pivot) ELSE t2

\* right_rotate lifts the left child (side = "left"), left_rotate the right one.
rotate(t, root, side, restore) ==
  LET other == Opposite(side)
      pivot == t[root][side]
      inner == t[pivot][other]
      up    == t[root].parent
      t1    == [t EXCEPT ![pivot][other] = root,  ![pivot].parent = up,
                         ![root].parent = pivot,  ![root][side] = inner]
      t2    == IF inner = Null THEN t1 ELSE [t1 EXCEPT ![inner].parent = root]
      t3    == replace_subnode(t2, up, root, pivot)
  IN  IF restore THEN recalculate(recalculate(t3, root), pivot) ELSE t3

\* The side whose subtree is too high for a node, if there is one.  The code
\* rotates once towards the other side, whichever way the high subtree leans.
Heavy(t, n) ==
  {side \in {"left", "right"} :
     height(t, t[n][side]) > height(t, t[n][Opposite(side)]) + 1}

\* The tree, and the node that now stands where n stood.
check_and_restore_balance_of_level(t, n) ==
  IF Heavy(t, n) = {} THEN [tree |-> t, node |-> n]
  ELSE LET side == CHOOSE s \in Heavy(t, n) : TRUE
       IN  [tree |-> rotate(t, n, side, TRUE), node |-> t[n][side]]

\* What the loop does at one node.
RestoreLevel(t, n) == check_and_restore_balance_of_level(recalculate(t, n), n)

\* From the lowest node with stale fields up to the root, which is returned.
RestoreLevels(t, lowest_incorrect) ==
  LET level[k \in Nat] ==
        IF k = 0 THEN RestoreLevel(t, lowest_incorrect)
        ELSE LET below == level[k - 1]
                 up    == below.tree[below.node].parent
             IN  IF up = Null THEN below ELSE RestoreLevel(below.tree, up)
  IN  level

\* What the loop has reached at the round with which it ends.
LevelOfRoot(level, rounds) ==
  level[CHOOSE k \in rounds : level[k].tree[level[k].node].parent = Null]

restore_height_size_and_balance_of_tree(t, lowest_incorrect) ==
  LevelOfRoot(RestoreLevels(t, lowest_incorrect), Rounds(t))

-----------------------------------------------------------------------------
(* Walking *)

\* find_leftmost and find_rightmost.
Outwards(t, n, side) ==
  LET at[k \in Nat] ==
        IF k = 0 THEN n
        ELSE LET m == at[k - 1] IN IF t[m][side] = Null THEN m ELSE t[m][side]
  IN  at

OutmostOf(t, at, side) == at[CHOOSE k \in Rounds(t) : t[at[k]][side] = Null]

find_outmost(t, n, side) == OutmostOf(t, Outwards(t, n, side), side)

child_type(t, n) == IF t[t[n].parent].left = n THEN "left" ELSE "right"

\* The way up goes on as long as the node is the child of that side.
ClimbsOn(t, n, side) == t[n].parent # Null /\ child_type(t, n) = side

Upwards(t, n, side) ==
  LET at[k \in Nat] ==
        IF k = 0 THEN n
        ELSE LET m == at[k - 1]
             IN  IF ClimbsOn(t, m, side) THEN t[m].parent ELSE m
  IN  at

HighestOf(t, at, side) == at[CHOOSE k \in Rounds(t) : ~ClimbsOn(t, at[k], side)]

Climb(t, n, side) == HighestOf(t, Upwards(t, n, side), side)

\* forward (side = "right") and backward (side = "left").
step(t, n, side) ==
  IF t[n][side] # Null THEN find_outmost(t, t[n][side], Opposite(side))
                       ELSE t[Climb(t, n, side)].parent

forward(t, n)  == step(t, n, "right")
backward(t, n) == step(t, n, "left")

-----------------------------------------------------------------------------
(* Positions.  The sentinel before the first element has index 0.  The code *)
(* computes modulo 2^w, which gives the same index: all steps are sums.     *)

left_subtree_size(t, n)  == size(t, t[n].left)
right_subtree_size(t, n) == size(t, n) - size(t, t[n].left) - 1

\* How far a node's index lies from that of its left or right child.
left_path_size(t, n) ==
  IF t[n].left = Null THEN 0
  ELSE left_subtree_size(t, n) - left_subtree_size(t, t[n].left)

\* Mutant: the elements beyond the right child are counted too.
right_path_size_Whole(t, n) == right_subtree_size(t, n)

right_path_size(t, n) ==
  right_subtree_size(t, n) - right_subtree_size(t, t[n].right)

\* On the way up the index of n is that of the node reached, less the accumulator.
IndexWay(t, n) ==
  LET at[k \in Nat] ==
        IF k = 0 THEN [node |-> n, accumulator |-> 0]
        ELSE LET below == at[k - 1]
                 up    == t[below.node].parent
             IN  IF up = Null THEN below
                 ELSE [node |-> up,
                       accumulator |-> below.accumulator +
                         (IF child_type(t, below.node) = "left" THEN left_path_size(t, up)
                                                                ELSE -right_path_size(t, up))]
  IN  at

getIndex(t, n) ==
  LET at  == IndexWay(t, n)
      top == at[CHOOSE k \in Rounds(t) : t[at[k].node].parent = Null]
  IN  left_subtree_size(t, top.node) - top.accumulator

\* The descent of getByIndex: left_index_border elements lie left of node's subtree.
IndexBelow(t, place) == place.left_index_border + left_subtree_size(t, place.node)

Descent(t, root, searched) ==
  LET at[k \in Nat] ==
        IF k = 0 THEN [node |-> root, left_index_border |-> 0]
        ELSE LET above   == at[k - 1]
                 current == IndexBelow(t, above)
             IN  CASE current > searched -> [above EXCEPT !.node = t[@].left]
                   [] current < searched -> [node |-> t[above.node].right,
                                             left_index_border |-> current + 1]
                   [] OTHER -> above
  IN  at

\* The index of the end is size(root) - 1; behind it there is nothing.
getByIndex(t, root, searched) ==
  IF searched < 0 \/ searched >= size(t, root) THEN Null
  ELSE LET at == Descent(t, root, searched)
       IN  at[CHOOSE k \in Rounds(t) : IndexBelow(t, at[k]) = searched].node

applyNTimes(t, n, side, times) ==
  LET at[k \in 0 .. times] == IF k = 0 THEN n ELSE step(t, at[k - 1], side)
  IN  at[times]

\* Short moves walk, long ones go through the index.
go_to(t, root, n, amount) ==
  LET steps == IF amount >= 0 THEN amount ELSE -amount
  IN  IF steps <= 2
      THEN applyNTimes(t, n, IF amount >= 0 THEN "right" ELSE "left", steps)
      ELSE getByIndex(t, root, getIndex(t, n) + amount)

-----------------------------------------------------------------------------
(* Changing a tree *)

\* The stump s with the tree and the root found on the way up.
Restored(s, top) == [s EXCEPT !.root = top.node, !.node = top.tree]

\* n becomes the element before it; `it = Null' is the first insertion.
insert_before(s, it, n) ==
  LET at   == IF s.node[it].left = Null THEN it
              ELSE find_outmost(s.node, s.node[it].left, "right")
      side == IF at = it THEN "left" ELSE "right"
      s1   == [s EXCEPT !.begin = IF it = s.begin THEN n ELSE s.begin]
  IN  IF it = Null THEN [s1 EXCEPT !.root = n, !.node[n] = FreshNode]
      ELSE Restored(s1, restore_height_size_and_balance_of_tree(
                          [s.node EXCEPT ![n] = [FreshNode EXCEPT !.parent = at],
                                         ![at][side] = n], at))

\* The replacer takes over the parent's link, not the children.
replace_node(t, replaceable, replacer) ==
  LET up == t[replaceable].parent
      t1 == IF replacer = Null THEN t ELSE [t EXCEPT ![replacer].parent = up]
  IN  IF up = Null THEN t1
      ELSE [t1 EXCEPT ![up][child_type(t, replaceable)] = replacer]

\* The two ways delete_ takes n out of the links: its right child moves up, or
\* its predecessor, the rightmost node on its left, takes its place.
DeleteWithoutLeft(s, n) ==
  LET t1 == replace_node(s.node, n, s.node[n].right)
      up == s.node[n].parent
  IN  IF up = Null THEN [s EXCEPT !.root = s.node[n].right, !.node = t1]
      ELSE Restored(s, restore_height_size_and_balance_of_tree(t1, up))

\* Mutant: the way up starts at the node put in n's place, above the hole.
DeleteWithLeft_HighStart(s, n) ==
  LET rightmost == find_outmost(s.node, s.node[n].left, "right")
      t1 == replace_node(s.node, rightmost, s.node[rightmost].left)
      t2 == replace_node(t1, n, rightmost)
      t3 == [t2 EXCEPT ![rightmost].left = t2[n].left, ![rightmost].right = t2[n].right]
      t4 == [m \in DOMAIN t3 |->
               IF m \in {t3[n].left, t3[n].right} THEN [t3[m] EXCEPT !.parent = rightmost]
                                                  ELSE t3[m]]
  IN  Restored(s, restore_height_size_and_balance_of_tree(t4, rightmost))

DeleteWithLeft(s, n) ==
  LET rightmost == find_outmost(s.node, s.node[n].left, "right")
      old_parent == s.node[rightmost].parent
      t1 == replace_node(s.node, rightmost, s.node[rightmost].left)
      t2 == replace_node(t1, n, rightmost)
      t3 == [t2 EXCEPT ![rightmost].left = t2[n].left, ![rightmost].right = t2[n].right]
      t4 == [m \in DOMAIN t3 |->
               IF m \in {t3[n].left, t3[n].right} THEN [t3[m] EXCEPT !.parent = rightmost]
                                                  ELSE t3[m]]
  IN  Restored(s, restore_height_size_and_balance_of_tree(
                    t4, IF old_parent = n THEN rightmost ELSE old_parent))

\* Mutant: the node taken out keeps its links, size and height.
delete__NotReset(s, n) ==
  IF s.node[n].left = Null THEN DeleteWithoutLeft(s, n) ELSE DeleteWithLeft(s, n)

\* Afterwards n is deallocated, or reset for use in another tree.
delete_(s, n) ==
  LET s1 == IF s.node[n].left = Null THEN DeleteWithoutLeft(s, n)
                                     ELSE DeleteWithLeft(s, n)
  IN  [s1 EXCEPT !.node[n] = FreshNode]

delete_and_get_next(s, n) ==
  LET next == forward(s.node, n)
      s1   == delete_(s, n)
  IN  [stump |-> [s1 EXCEPT !.begin = IF s.begin = n THEN next ELSE s.begin],
       next  |-> next]

\* An empty list: the two sentinels.
resetInvariant(s) ==
  LET s1 == [s EXCEPT !.root = Null, !.node[s.end] = FreshNode,
                      !.node[s.before_begin] = FreshNode]
      s2 == insert_before(insert_before(s1, Null, s.end), s.end, s.before_begin)
  IN  [s2 EXCEPT !.begin = s.end]
=============================================================================
