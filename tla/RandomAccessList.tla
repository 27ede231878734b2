--------------------------- MODULE RandomAccessList ---------------------------
(***************************************************************************)
(* random_access_list (random_access_list.hpp): some lists over one store  *)
(* of nodes, each a tree of AvlTree, with the operations that move nodes   *)
(* inside a list and between lists.                                        *)
(*                                                                         *)
(* `expected' is a plain list kept beside each tree and changed by what    *)
(* the operation means, as the unit tests keep a std::list beside theirs.  *)
(* It holds nodes, not values, so agreeing with it also says that every    *)
(* element stays in its node.  An iterator is that node and the list it    *)
(* was taken from, _collection; the second half is not modelled.           *)
(***************************************************************************)
EXTENDS AvlTreeRanges, FiniteSets

CONSTANTS Lists,
          Node,         \* the nodes the allocator can hand out
          BeforeBegin,  \* the sentinels made by each list's constructor
          End,
          value,        \* the value a node is constructed with
          MaxInsert     \* bound on the nodes one insert adds

ASSUME ListAssumption ==
  /\ IsInjective(BeforeBegin) /\ IsInjective(End)
  /\ value \in [Node -> Int]
  /\ MaxInsert \in Nat

VARIABLES node,      \* the fields of every node
          stump,     \* each list's _implementation without its nodes
          expected

vars == <<node, stump, expected>>

Sentinels == {BeforeBegin[l] : l \in Lists} \cup {End[l] : l \in Lists}

-----------------------------------------------------------------------------
(* The plain list *)

Sorted(s) == \A i, j \in DOMAIN s : i < j => value[s[i]] <= value[s[j]]

\* Where x belongs in a sorted list that already holds its equals.
PutInOrder(s, x) ==
  InsertAt(s, Cardinality({i \in DOMAIN s : value[s[i]] <= value[x]}) + 1, x)

\* The list's elements sorted; equal ones keep their order.
StableSort(s) == FoldLeft(PutInOrder, <<>>, s)

\* s without the elements first .. last-1, and s with r before its element i.
Cut(s, first, last) == SubSeq(s, 1, first - 1) \o SubSeq(s, last, Len(s))
Paste(s, i, r) == SubSeq(s, 1, i - 1) \o r \o SubSeq(s, i, Len(s))

\* The first of each run of equal neighbours.
FirstsOfRuns(s) ==
  LET kept == {s[i] : i \in {i \in DOMAIN s : i = 1 \/ value[s[i]] # value[s[i - 1]]}}
  IN  SelectSeq(s, LAMBDA n : n \in kept)

-----------------------------------------------------------------------------
(* Trees and positions *)

Tree(l) == [node |-> node, root |-> stump[l].root, begin |-> stump[l].begin,
            before_begin |-> stump[l].before_begin, end |-> stump[l].end]

Implementation(s) == [root |-> s.root, begin |-> s.begin,
            before_begin |-> s.before_begin, end |-> s.end]

\* The operation on list l leaves it as the tree s.
Becomes(l, s) ==
  /\ node' = s.node
  /\ stump' = [stump EXCEPT ![l] = Implementation(s)]

\* The iterator i elements after begin(); i = size() + 1 gives end().
Position(l, i) == IF i > Len(expected[l]) THEN stump[l].end ELSE expected[l][i]

Positions(l) == 1 .. Len(expected[l]) + 1

Free == Node \ UNION {ToSet(expected[l]) : l \in Lists}

\* Some distinct free nodes, in the order of their construction.
NewNodes == {ns \in UNION {[1 .. k -> Free] : k \in 1 .. MaxInsert} : IsInjective(ns)}

\* insertNodesFromListAndReturnFirstInserted: pos stays where it is, so each
\* node comes right before it and after the one inserted last.
InsertNodes(s, pos, nodes) ==
  FoldLeft(LAMBDA acc, n : insert_before(acc, pos, n), s, nodes)

-----------------------------------------------------------------------------
(* Operations on one list *)

\* emplace, insert, push_back, push_front; resize to more elements is an insert
\* at begin().
insert(l, i, ns) ==
  /\ Becomes(l, InsertNodes(Tree(l), Position(l, i), ns))
  /\ expected' = [expected EXCEPT ![l] = Paste(@, i, ns)]

\* Mutant: each element goes in before the first one, not before the end.
assign_Reversed(l, ns) ==
  LET gone    == [n \in DOMAIN node |-> IF n \in ToSet(expected[l]) THEN FreshNode ELSE node[n]]
      cleared == resetInvariant([Tree(l) EXCEPT !.node = gone])
  IN  /\ Becomes(l, InsertNodes(cleared, cleared.end, Reverse(ns)))
      /\ expected' = [expected EXCEPT ![l] = ns]

\* assign, which every constructor and copy is made of: a new list is filled at
\* its end and swapped in, and the old elements go with the old list.
assign(l, ns) ==
  LET gone    == [n \in DOMAIN node |-> IF n \in ToSet(expected[l]) THEN FreshNode ELSE node[n]]
      cleared == resetInvariant([Tree(l) EXCEPT !.node = gone])
  IN  /\ Becomes(l, InsertNodes(cleared, cleared.end, ns))
      /\ expected' = [expected EXCEPT ![l] = ns]

\* erase of one element or a range, pop_back, pop_front and clear.
erase(l, first, last) ==
  /\ first < last
  /\ Becomes(l, RemoveRange(Tree(l), Position(l, first), Position(l, last), <<>>).stump)
  /\ expected' = [expected EXCEPT ![l] = Cut(@, first, last)]

\* resize to fewer elements: pop_back until the size is right.
RECURSIVE PopBack(_, _)
PopBack(s, times) ==
  IF times = 0 THEN s
  ELSE PopBack(delete_and_get_next(s, backward(s.node, s.end)).stump, times - 1)

resize(l, count) ==
  /\ count < Len(expected[l])
  /\ Becomes(l, PopBack(Tree(l), Len(expected[l]) - count))
  /\ expected' = [expected EXCEPT ![l] = SubSeq(@, 1, count)]

reverse(l) ==
  LET moved == moveNodes(Tree(l))
  IN  /\ Becomes(l, InsertNodes(moved.stump, moved.stump.begin, Reverse(moved.nodes)))
      /\ expected' = [expected EXCEPT ![l] = Reverse(@)]

\* boost::intrusive::list::sort is a stable sort.
sort(l) ==
  LET moved == moveNodes(Tree(l))
  IN  /\ Becomes(l, InsertNodes(moved.stump, moved.stump.begin, StableSort(moved.nodes)))
      /\ expected' = [expected EXCEPT ![l] = StableSort(@)]

\* The loop of unique: `checked' walks one ahead of `current'.
RECURSIVE UniqueFrom(_, _, _)
UniqueFrom(s, current, checked) ==
  IF checked = s.end THEN s
  ELSE IF value[checked] = value[current]
       THEN LET one == delete_and_get_next(s, checked)
            IN  UniqueFrom(one.stump, current, one.next)
       ELSE UniqueFrom(s, forward(s.node, current), forward(s.node, checked))

unique(l) ==
  /\ expected[l] # <<>>
  /\ Becomes(l, UniqueFrom(Tree(l), stump[l].begin, forward(node, stump[l].begin)))
  /\ expected' = [expected EXCEPT ![l] = FirstsOfRuns(@)]

-----------------------------------------------------------------------------
(* Operations on two lists *)

\* List m has given up its nodes and is now `from'; they go into l, which is
\* now `to', before pos.
Receive(l, to, m, from, pos, nodes) ==
  LET s == InsertNodes([to EXCEPT !.node = from.node], pos, nodes)
  IN  /\ node' = s.node
      /\ stump' = [stump EXCEPT ![l] = Implementation(s), ![m] = Implementation(from)]

\* splice of a whole list.
splice(l, i, m) ==
  LET moved == moveNodes(Tree(m))
  IN  /\ Receive(l, Tree(l), m, moved.stump, Position(l, i), moved.nodes)
      /\ expected' = [expected EXCEPT ![l] = Paste(@, i, expected[m]), ![m] = <<>>]

\* splice of [first, last); the form with one iterator takes all from it on.
splice_range(l, i, m, first, last) ==
  LET moved == RemoveRange(Tree(m), Position(m, first), Position(m, last), <<>>)
  IN  /\ first < last
      /\ Receive(l, Tree(l), m, moved.stump, Position(l, i), moved.nodes)
      /\ expected' = [expected EXCEPT
                        ![l] = Paste(@, i, SubSeq(expected[m], first, last - 1)),
                        ![m] = Cut(@, first, last)]

\* Mutant: among equal elements those of the other list come first.
RECURSIVE Merged_OtherFirst(_, _)
Merged_OtherFirst(nodes0, nodes1) ==
  CASE nodes0 = <<>> -> nodes1
    [] nodes1 = <<>> /\ nodes0 # <<>> -> nodes0
    [] OTHER -> IF value[nodes1[1]] <= value[nodes0[1]]
                THEN <<nodes1[1]>> \o Merged_OtherFirst(nodes0, Tail(nodes1))
                ELSE <<nodes0[1]>> \o Merged_OtherFirst(Tail(nodes0), nodes1)

\* The loop of merge_private.
RECURSIVE Merged(_, _)
Merged(nodes0, nodes1) ==
  CASE nodes0 = <<>> -> nodes1
    [] nodes1 = <<>> /\ nodes0 # <<>> -> nodes0
    [] OTHER -> IF value[nodes1[1]] < value[nodes0[1]]
                THEN <<nodes1[1]>> \o Merged(nodes0, Tail(nodes1))
                ELSE <<nodes0[1]>> \o Merged(Tail(nodes0), nodes1)

\* Merging is defined for lists in order, as that of std::list is.
merge(l, m) ==
  LET own   == moveNodes(Tree(l))
      other == moveNodes([Tree(m) EXCEPT !.node = own.stump.node])
  IN  /\ Sorted(expected[l]) /\ Sorted(expected[m])
      /\ Receive(l, own.stump, m, other.stump, own.stump.begin,
                 Merged(own.nodes, other.nodes))
      /\ expected' = [expected EXCEPT ![l] = StableSort(expected[l] \o expected[m]),
                                      ![m] = <<>>]

\* The two lists exchange their implementations, sentinels included.
swap(l, m) ==
  /\ stump' = [stump EXCEPT ![l] = stump[m], ![m] = stump[l]]
  /\ expected' = [expected EXCEPT ![l] = expected[m], ![m] = expected[l]]
  /\ UNCHANGED node

-----------------------------------------------------------------------------
\* The constructors: an empty tree of two fresh sentinels each.
Constructed(l) ==
  resetInvariant([node |-> [n \in Node \cup Sentinels |-> FreshNode],
                  root |-> Null, begin |-> Null,
                  before_begin |-> BeforeBegin[l], end |-> End[l]])

Init ==
  /\ node = [n \in Node \cup Sentinels |->
               IF \E l \in Lists : n \in {BeforeBegin[l], End[l]}
               THEN Constructed(CHOOSE l \in Lists : n \in {BeforeBegin[l], End[l]}).node[n]
               ELSE FreshNode]
  /\ stump = [l \in Lists |-> Implementation(Constructed(l))]
  /\ expected = [l \in Lists |-> <<>>]

Next ==
  \E l \in Lists :
    \/ \E i \in Positions(l), ns \in NewNodes : insert(l, i, ns)
    \/ \E ns \in NewNodes \cup {<<>>} : assign(l, ns)
    \/ \E first, last \in Positions(l) : erase(l, first, last)
    \/ \E count \in 0 .. Len(expected[l]) : resize(l, count)
    \/ reverse(l)
    \/ sort(l)
    \/ unique(l)
    \/ \E m \in Lists \ {l} :
         \/ \E i \in Positions(l) : splice(l, i, m)
         \/ \E i \in Positions(l), first, last \in Positions(m) :
              splice_range(l, i, m, first, last)
         \/ merge(l, m)
         \/ swap(l, m)

Spec == Init /\ [][Next]_vars

-----------------------------------------------------------------------------
(* Properties *)

\* The nodes of list l, as an iterator from begin() to end() meets them.
RECURSIVE Walk(_, _)
Walk(n, end) == IF n \in {end, Null} THEN <<>> ELSE <<n>> \o Walk(forward(node, n), end)

Elements(l) == Walk(stump[l].begin, stump[l].end)

\* Each list holds the elements that the history of operations gave it, each
\* in the node it was constructed in (checkEquality of the unit tests).  So an
\* iterator stays on its element while that stays in the list, whatever is
\* inserted, erased, sorted or rotated around it ("Ral have stable iterators").
\* Of an element that splice or merge takes to another list only the node is
\* the same: an iterator taken before still names the old list, and is invalid
\* ("Iterator validity violated for moved elements").
SameAsPlainList == \A l \in Lists : Elements(l) = expected[l]

\* selfCheckIfConstructed: links agree in both directions, heights and sizes
\* are those of the real subtrees, and the sentinels and the cached begin stand
\* where they must.
TreeIsSound ==
  \A l \in Lists :
    LET s     == stump[l]
        nodes == ToSet(Elements(l)) \cup {s.before_begin, s.end}
    IN  /\ node[s.root].parent = Null
        /\ s.root \in nodes
        /\ \A n \in nodes :
             /\ \A side \in {"left", "right"} :
                  node[n][side] # Null =>
                    node[n][side] \in nodes /\ node[node[n][side]].parent = n
             /\ recalculate(node, n) = node
        /\ size(node, s.root) = Cardinality(nodes)
        /\ find_outmost(node, s.root, "left") = s.before_begin
        /\ find_outmost(node, s.root, "right") = s.end
        /\ forward(node, s.before_begin) = s.begin

\* Positions: operator[] finds the element with that index, the distance of two
\* iterators is the number of steps between them, and an iterator moved by any
\* amount, by steps or through the index, arrives where the steps lead.  The
\* end stands at index size(root) - 1, as the code has it; the comment of
\* getByIndex says size(root), where the code returns NULL.
PositionsAgree ==
  \A l \in Lists :
    LET s   == stump[l]
        all == <<s.before_begin>> \o Elements(l) \o <<s.end>>
    IN  \A i \in DOMAIN all :
          /\ getIndex(node, all[i]) = i - 1
          /\ getByIndex(node, s.root, i - 1) = all[i]
          /\ i > 1 => backward(node, all[i]) = all[i - 1]
          /\ \A j \in DOMAIN all : go_to(node, s.root, all[i], j - i) = all[j]

\* "Ral based on self-balancing binary search AVL-tree": the subtrees of every
\* node differ in height by at most one.
AvlBalanced ==
  \A n \in DOMAIN node : Heavy(node, n) = {}

\* Types; a free node is as its constructor left it.
TypeOK ==
  /\ \A n \in Node \cup Sentinels :
       node[n] \in [left : Node \cup Sentinels \cup {Null},
                    right : Node \cup Sentinels \cup {Null},
                    parent : Node \cup Sentinels \cup {Null},
                    size : Nat, height : Nat]
  /\ \A n \in Free : node[n] = FreshNode
  /\ \A l \in Lists : stump[l] \in [root : Node \cup Sentinels, begin : Node \cup Sentinels,
                                    before_begin : Sentinels, end : Sentinels]
=============================================================================
