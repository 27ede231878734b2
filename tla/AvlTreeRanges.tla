---------------------------- MODULE AvlTreeRanges -----------------------------
(***************************************************************************)
(* The loops of avl_tree_stump that take several nodes out of a tree.      *)
(***************************************************************************)
EXTENDS AvlTree, Sequences, SequencesExt

\* The nodes from `from' to before `to', one after the other: the loops of
\* erase, of destruct_value_and_delete_node_since_begin_to_before_end and of
\* moveNodes(from, to), which keeps what it takes out.
RECURSIVE RemoveRange(_, _, _, _)
RemoveRange(s, from, to, removed) ==
  IF from = to THEN [stump |-> s, nodes |-> removed]
  ELSE LET one == delete_and_get_next(s, from)
       IN  RemoveRange(one.stump, one.next, to, Append(removed, from))

\* treeToVineWithPreserveInvariantsOnlyForMember_right: rotations from the last
\* node on leave a chain of right links, headed by the returned node.
RECURSIVE TreeToVine(_, _)
TreeToVine(t, current) ==
  CASE t[current].left # Null -> TreeToVine(rotate(t, current, "left", FALSE), current)
    [] t[current].left = Null /\ t[current].parent # Null ->
         TreeToVine(t, t[current].parent)
    [] OTHER -> [tree |-> t, node |-> current]

RECURSIVE Chain(_, _, _)
Chain(t, from, to) ==
  IF from = to THEN <<>> ELSE <<from>> \o Chain(t, t[from].right, to)

\* moveNodes(): all elements, and the emptied tree.
moveNodes(s) ==
  LET vine  == TreeToVine(s.node, find_outmost(s.node, s.root, "right"))
      nodes == Chain(vine.tree, vine.tree[vine.node].right, s.end)
      reset == [m \in DOMAIN s.node |-> IF m \in ToSet(nodes) THEN FreshNode
                                                             ELSE vine.tree[m]]
  IN  [stump |-> resetInvariant([s EXCEPT !.node = reset]), nodes |-> nodes]
=============================================================================
