---------------------------- MODULE AvlTreeProofs -----------------------------
(***************************************************************************)
(* Theorems about the tree of the list: for every tree, of any size and    *)
(* however unbalanced, the operators keep the order of the nodes and their *)
(* fields.                                                                 *)
(***************************************************************************)
EXTENDS AvlTree, NaturalProofs, FiniteSetTheorems

Sides == {"left", "right"}

NodeType(D) ==
    [left : D \cup {Null}, right : D \cup {Null}, parent : D \cup {Null},
     size : Nat, height : Nat]

IsTree(t) == Null \notin DOMAIN t /\ t \in [DOMAIN t -> NodeType(DOMAIN t)]

\* The fields of a node.
LEMMA NodeFields ==
    ASSUME NEW t, IsTree(t), NEW n \in DOMAIN t
    PROVE  /\ t[n].left \in DOMAIN t \cup {Null} /\ t[n].right \in DOMAIN t \cup {Null}
           /\ t[n].parent \in DOMAIN t \cup {Null}
           /\ t[n].size \in Nat /\ t[n].height \in Nat
           /\ \A side \in Sides : t[n][side] \in DOMAIN t \cup {Null}
BY DEF IsTree, NodeType, Sides

\* recalculate changes two fields of one node.
IsRecalculated(t, u, n) ==
    LET l == t[n].left
        r == t[n].right
    IN  /\ IsTree(u) /\ DOMAIN u = DOMAIN t
        /\ \A m \in DOMAIN t :
            /\ \A side \in Sides : u[m][side] = t[m][side]
            /\ u[m].parent = t[m].parent
            /\ m # n => u[m].size = t[m].size /\ u[m].height = t[m].height
        /\ u[n].size = size(t, l) + size(t, r) + 1
        /\ u[n].height =
            (IF height(t, l) > height(t, r) THEN height(t, l) ELSE height(t, r)) + 1

LEMMA RecalculateResult ==
    ASSUME NEW t, IsTree(t), NEW n \in DOMAIN t
    PROVE  IsRecalculated(t, recalculate(t, n), n)
<1> DEFINE l == t[n].left
           r == t[n].right
           s == size(t, l) + size(t, r) + 1
           h == (IF height(t, l) > height(t, r) THEN height(t, l) ELSE height(t, r)) + 1
           u == recalculate(t, n)
<1>1. l \in DOMAIN t \cup {Null} /\ r \in DOMAIN t \cup {Null}
    BY NodeFields
<1>2. size(t, l) \in Nat /\ size(t, r) \in Nat /\ height(t, l) \in Nat /\ height(t, r) \in Nat
    BY <1>1, NodeFields DEF size, height
<1>3. s \in Nat /\ h \in Nat
    BY <1>2
<1>4. u = [t EXCEPT ![n].size = s, ![n].height = h]
    BY DEF recalculate
<1> HIDE DEF s, h, u
<1>5. u = [t EXCEPT ![n] = [[t[n] EXCEPT !.size = s] EXCEPT !.height = h]]
    BY <1>4 DEF IsTree
<1>6. u \in [DOMAIN t -> NodeType(DOMAIN t)]
    BY <1>3, <1>4 DEF IsTree, NodeType
<1>7. \A m \in DOMAIN t : m # n => u[m] = t[m]
    BY <1>4 DEF IsTree
<1>8. /\ u[n].left = t[n].left /\ u[n].right = t[n].right /\ u[n].parent = t[n].parent
      /\ u[n].size = s /\ u[n].height = h
    BY <1>4 DEF IsTree, NodeType
<1>9. \A m \in DOMAIN t : \A side \in Sides : u[m][side] = t[m][side]
    BY <1>7, <1>8 DEF Sides
<1>10. IsTree(u) /\ DOMAIN u = DOMAIN t
    BY <1>6 DEF IsTree
<1>11. QED
    BY <1>7, <1>8, <1>9, <1>10 DEF IsRecalculated, s, h, u

-----------------------------------------------------------------------------
(* Trees and the order of their nodes.  `pos' is the position of each node.  *)
(* edge[n]["left"] and edge[n]["right"] are the positions next to those of   *)
(* the subtree of n: the subtree has the positions strictly between them.    *)

Toward(side) == IF side = "left" THEN -1 ELSE 1

\* The links of the nodes S of a tree agree in both directions, and one node
\* has no parent.
Linked(t, S, root) ==
    /\ IsTree(t)
    /\ S \subseteq DOMAIN t
    /\ root \in S
    /\ \A n \in S : \A side \in Sides :
            t[n][side] # Null => t[n][side] \in S /\ t[t[n][side]].parent = n
    /\ \A n \in S : t[n].parent # Null =>
            t[n].parent \in S /\ \E side \in Sides : t[t[n].parent][side] = n
    /\ \A n \in S : t[n].parent = Null <=> n = root

\* The children of a node divide the positions around its own.
Ordered(t, S, pos, edge) ==
    /\ pos \in [S -> Int]
    /\ edge \in [S -> [Sides -> Int]]
    /\ \A n \in S : edge[n]["left"] < pos[n] /\ pos[n] < edge[n]["right"]
    /\ \A n \in S : \A side \in Sides :
            LET c == t[n][side]
            IN  IF c = Null THEN edge[n][side] = pos[n] + Toward(side)
                ELSE edge[c][side] = edge[n][side] /\ edge[c][Opposite(side)] = pos[n]

Width(edge, n) == edge[n]["right"] - edge[n]["left"] - 1

LEMMA OppositeSide ==
    /\ \A side \in Sides : /\ Opposite(side) \in Sides /\ Opposite(side) # side
                           /\ Opposite(Opposite(side)) = side
                           /\ Sides = {side, Opposite(side)}
                           /\ Toward(Opposite(side)) = -Toward(side)
                           /\ Toward(side) \in Int
    /\ Opposite("left") = "right" /\ Opposite("right") = "left"
<1>1. Opposite("left") = "right" /\ Opposite("right") = "left"
    BY DEF Opposite
<1>2. Toward("left") = -1 /\ Toward("right") = 1
    BY DEF Toward
<1>3. ASSUME NEW side \in Sides
      PROVE  /\ Opposite(side) \in Sides /\ Opposite(side) # side
             /\ Opposite(Opposite(side)) = side
             /\ Sides = {side, Opposite(side)}
             /\ Toward(Opposite(side)) = -Toward(side)
             /\ Toward(side) \in Int
    <2>1. CASE side = "left"
        BY <1>1, <1>2, <2>1 DEF Sides
    <2>2. CASE side = "right"
        BY <1>1, <1>2, <2>2 DEF Sides
    <2>3. QED
        BY <2>1, <2>2 DEF Sides
<1>4. QED
    BY <1>1, <1>3

LEMMA ChildFacts ==
    ASSUME NEW t, NEW S, NEW root, Linked(t, S, root), NEW n \in S, NEW side \in Sides
    PROVE  /\ n \in DOMAIN t
           /\ t[n][side] # Null =>
                /\ t[n][side] \in S /\ t[n][side] \in DOMAIN t
                /\ t[t[n][side]].parent = n
           /\ t[n].parent \in S \cup {Null}
           /\ Null \notin S
BY DEF Linked, IsTree

\* A child has a narrower subtree than its parent, and another position.
LEMMA ChildNarrower ==
    ASSUME NEW t, NEW S, NEW root, Linked(t, S, root), NEW pos, NEW edge,
           Ordered(t, S, pos, edge), NEW n \in S, NEW side \in Sides, t[n][side] # Null
    PROVE  /\ Width(edge, t[n][side]) \in Nat /\ Width(edge, n) \in Nat
           /\ Width(edge, t[n][side]) < Width(edge, n)
           /\ t[n][side] # n
           /\ t[n][side] # t[n][Opposite(side)]
<1> DEFINE c == t[n][side]
           o == Opposite(side)
<1>1. c \in S
    BY ChildFacts
<1>2. o \in Sides /\ o # side /\ t[n][o] \in S \cup {Null}
    BY OppositeSide DEF Linked
<1>3. edge[c][side] = edge[n][side] /\ edge[c][o] = pos[n]
    BY DEF Ordered
<1>4. t[n][o] # Null => edge[t[n][o]][o] = edge[n][o] /\ edge[t[n][o]][side] = pos[n]
    BY <1>2, OppositeSide DEF Ordered
<1>5. /\ pos[n] \in Int /\ pos[c] \in Int
      /\ \A x \in S : edge[x]["left"] \in Int /\ edge[x]["right"] \in Int
      /\ \A x \in S : edge[x]["left"] < pos[x] /\ pos[x] < edge[x]["right"] /\ pos[x] \in Int
    BY <1>1 DEF Ordered, Sides
<1> HIDE DEF c
<1>6. CASE side = "left"
    <2>1. o = "right"
        BY <1>6, OppositeSide
    <2>2. QED
        BY <1>1, <1>2, <1>3, <1>4, <1>5, <1>6, <2>1 DEF Width, c
<1>7. CASE side = "right"
    <2>1. o = "left"
        BY <1>7, OppositeSide
    <2>2. QED
        BY <1>1, <1>2, <1>3, <1>4, <1>5, <1>7, <2>1 DEF Width, c
<1>8. QED
    BY <1>6, <1>7 DEF Sides

\* One child, or the parent, of one node is changed; the other links, and the
\* other nodes, are as they were.
SetChild(t, n, side, v) == [t EXCEPT ![n][side] = v]
SetParent(t, n, v) == [t EXCEPT ![n].parent = v]

Fields(t, u, n) == u[n].size = t[n].size /\ u[n].height = t[n].height

ChildIsSet(t, u, n, side, v) ==
    /\ IsTree(u) /\ DOMAIN u = DOMAIN t
    /\ u[n][side] = v
    /\ \A s \in Sides : s # side => u[n][s] = t[n][s]
    /\ u[n].parent = t[n].parent /\ Fields(t, u, n)
    /\ \A m \in DOMAIN t : m # n => u[m] = t[m]

ParentIsSet(t, u, n, v) ==
    /\ IsTree(u) /\ DOMAIN u = DOMAIN t
    /\ u[n].parent = v
    /\ \A s \in Sides : u[n][s] = t[n][s]
    /\ Fields(t, u, n)
    /\ \A m \in DOMAIN t : m # n => u[m] = t[m]

LEMMA SetChildResult ==
    ASSUME NEW t, IsTree(t), NEW n \in DOMAIN t, NEW side \in Sides, NEW v \in DOMAIN t \cup {Null}
    PROVE  ChildIsSet(t, SetChild(t, n, side, v), n, side, v)
<1>1. CASE side = "left"
    BY <1>1 DEF IsTree, NodeType, SetChild, Sides, ChildIsSet, Fields
<1>2. CASE side = "right"
    BY <1>2 DEF IsTree, NodeType, SetChild, Sides, ChildIsSet, Fields
<1>3. QED
    BY <1>1, <1>2 DEF Sides

LEMMA SetParentResult ==
    ASSUME NEW t, IsTree(t), NEW n \in DOMAIN t, NEW v \in DOMAIN t \cup {Null}
    PROVE  ParentIsSet(t, SetParent(t, n, v), n, v)
BY DEF IsTree, NodeType, SetParent, Sides, ParentIsSet, Fields

\* The links that a rotation changes, pivot p being lifted over r.
Relinked(t, r, side, p, o, i, up) ==
    LET t1 == [t EXCEPT ![p][o] = r, ![p].parent = up, ![r].parent = p, ![r][side] = i]
        t2 == IF i = Null THEN t1 ELSE [t1 EXCEPT ![i].parent = r]
    IN  replace_subnode(t2, up, r, p)

Turned(t, u, r, side, p, o, i, up) ==
    /\ IsTree(u) /\ DOMAIN u = DOMAIN t
    /\ \A m \in DOMAIN t : Fields(t, u, m)
    /\ \A m \in DOMAIN t : u[m].parent =
        (IF m = p THEN up ELSE IF m = r THEN p ELSE IF m = i THEN r ELSE t[m].parent)
    /\ \A m \in DOMAIN t : \A s \in Sides : u[m][s] =
        (IF m = p THEN IF s = o THEN r ELSE t[p][s]
         ELSE IF m = r THEN IF s = side THEN i ELSE t[r][s]
         ELSE IF m = up /\ t[m][s] = r THEN p ELSE t[m][s])

LEMMA RelinkedResult ==
    ASSUME NEW t, IsTree(t), NEW D, DOMAIN t = D, NEW r \in D, NEW side \in Sides,
           NEW p \in D, p # r, NEW o \in Sides, o # side, NEW i \in D \cup {Null},
           NEW up \in D \cup {Null}, i # p, i # r, up # r, up # p, up # i \/ i = Null,
           up # Null => (t[up].left = r <=> t[up].right # r)
    PROVE  Turned(t, Relinked(t, r, side, p, o, i, up), r, side, p, o, i, up)
<1> DEFINE t1 == [t EXCEPT ![p][o] = r, ![p].parent = up, ![r].parent = p, ![r][side] = i]
           t2 == IF i = Null THEN t1 ELSE [t1 EXCEPT ![i].parent = r]
           t3 == replace_subnode(t2, up, r, p)
           u == Relinked(t, r, side, p, o, i, up)
<1>1. u = t3
    BY DEF Relinked
<1>2. Null \notin D
    BY DEF IsTree
<1>3. /\ t1 \in [D -> NodeType(D)]
      /\ t1[p][side] = t[p][side] /\ t1[p][o] = r /\ t1[p].parent = up
      /\ t1[r][side] = i /\ t1[r][o] = t[r][o] /\ t1[r].parent = p
      /\ \A m \in D \ {p, r} : t1[m] = t[m]
      /\ \A m \in D : t1[m].size = t[m].size /\ t1[m].height = t[m].height
    <2> DEFINE a1 == SetChild(t, p, o, r)
               a2 == SetParent(a1, p, up)
               a3 == SetParent(a2, r, p)
               a4 == SetChild(a3, r, side, i)
    <2>1. t1 = a4
        BY DEF SetChild, SetParent
    <2>2. ChildIsSet(t, a1, p, o, r)
        BY SetChildResult
    <2> HIDE DEF a1
    <2>3. ParentIsSet(a1, a2, p, up)
        <3>1. IsTree(a1) /\ p \in DOMAIN a1 /\ up \in DOMAIN a1 \cup {Null}
            BY <2>2 DEF ChildIsSet
        <3>2. QED
            BY <3>1, SetParentResult
    <2> HIDE DEF a2
    <2>4. ParentIsSet(a2, a3, r, p)
        <3>1. IsTree(a2) /\ r \in DOMAIN a2 /\ p \in DOMAIN a2 \cup {Null}
            BY <2>2, <2>3 DEF ChildIsSet, ParentIsSet
        <3>2. QED
            BY <3>1, SetParentResult
    <2> HIDE DEF a3
    <2>5. ChildIsSet(a3, a4, r, side, i)
        <3>1. IsTree(a3) /\ r \in DOMAIN a3 /\ i \in DOMAIN a3 \cup {Null}
            BY <2>2, <2>3, <2>4 DEF ChildIsSet, ParentIsSet
        <3>2. QED
            BY <3>1, SetChildResult
    <2> HIDE DEF a4, t1
    <2>6. QED
        BY <1>2, <2>1, <2>2, <2>3, <2>4, <2>5 DEF IsTree, ChildIsSet, ParentIsSet, Fields
<1> HIDE DEF t1
<1>4. /\ t2 \in [D -> NodeType(D)]
      /\ \A m \in D : m # i => t2[m] = t1[m]
      /\ i # Null => t2[i].parent = r /\ t2[i].left = t1[i].left /\ t2[i].right = t1[i].right
      /\ \A m \in D : t2[m].size = t[m].size /\ t2[m].height = t[m].height
    BY <1>2, <1>3 DEF NodeType
<1> HIDE DEF t2
<1>5. /\ t3 \in [D -> NodeType(D)]
      /\ \A m \in D : m # up => t3[m] = t2[m]
      /\ up # Null =>
            /\ t3[up].parent = t2[up].parent
            /\ t2[up].left = r => t3[up].left = p /\ t3[up].right = t2[up].right
            /\ t2[up].left # r => t3[up].left = t2[up].left /\ t3[up].right = p
      /\ \A m \in D : t3[m].size = t[m].size /\ t3[m].height = t[m].height
    BY <1>2, <1>4 DEF NodeType, replace_subnode
<1> HIDE DEF t3
<1>6. up # Null => t2[up] = t[up]
    BY <1>2, <1>3, <1>4
<1>7. i # Null => t1[i] = t[i] /\ t3[i] = t2[i]
    BY <1>2, <1>3, <1>4, <1>5
<1>8. t3[p] = t1[p] /\ t3[r] = t1[r]
    BY <1>2, <1>4, <1>5
<1>9. \A m \in D \ {p, r, i, up} : t3[m] = t[m]
    BY <1>3, <1>4, <1>5
<1>10. IsTree(t3) /\ DOMAIN t3 = D
    BY <1>2, <1>5 DEF IsTree
<1> HIDE DEF u
<1>11. \A m \in D : Fields(t, u, m)
    BY <1>1, <1>5 DEF Fields
<1>12. \A m \in D : u[m].parent =
        (IF m = p THEN up ELSE IF m = r THEN p ELSE IF m = i THEN r ELSE t[m].parent)
    BY <1>1, <1>2, <1>3, <1>4, <1>5, <1>6, <1>7, <1>8, <1>9
<1>13. \A m \in D : \A s \in Sides : u[m][s] =
        (IF m = p THEN IF s = o THEN r ELSE t[p][s]
         ELSE IF m = r THEN IF s = side THEN i ELSE t[r][s]
         ELSE IF m = up /\ t[m][s] = r THEN p ELSE t[m][s])
    <2> SUFFICES ASSUME NEW m \in D, NEW s \in Sides
                 PROVE  u[m][s] =
                    (IF m = p THEN IF s = o THEN r ELSE t[p][s]
                     ELSE IF m = r THEN IF s = side THEN i ELSE t[r][s]
                     ELSE IF m = up /\ t[m][s] = r THEN p ELSE t[m][s])
        OBVIOUS
    <2>1. CASE m = p \/ m = r
        BY <1>1, <1>3, <1>8, <2>1 DEF Sides
    <2>2. CASE m = i
        BY <1>1, <1>2, <1>4, <1>7, <2>2 DEF Sides
    <2>3. CASE m = up
        BY <1>1, <1>2, <1>5, <1>6, <2>3 DEF Sides
    <2>4. CASE m \notin {p, r, i, up}
        BY <1>1, <1>9, <2>4
    <2>5. QED
        BY <2>1, <2>2, <2>3, <2>4
<1>14. QED
    BY <1>1, <1>10, <1>11, <1>12, <1>13 DEF Turned, u

-----------------------------------------------------------------------------
(* A rotation keeps the order.                                               *)

\* The nodes that a rotation relinks are different ones.
LEMMA RotationNodes ==
    ASSUME NEW t, NEW S, NEW root, Linked(t, S, root), NEW pos, NEW edge,
           Ordered(t, S, pos, edge), NEW r \in S, NEW side \in Sides, NEW p, p = t[r][side],
           p # Null, NEW o, o = Opposite(side), NEW i, i = t[p][o], NEW up, up = t[r].parent
    PROVE  /\ o \in Sides /\ o # side /\ Opposite(o) = side
           /\ p \in S /\ p # r /\ t[p].parent = r
           /\ i \in S \cup {Null} /\ i # p /\ i # r /\ (i # Null => t[i].parent = p)
           /\ up \in S \cup {Null} /\ up # r /\ up # p /\ (up # i \/ i = Null)
           /\ up # Null => (t[up].left = r <=> t[up].right # r)
           /\ up # Null => \E s \in Sides : t[up][s] = r
           /\ Null \notin S
<1>1. o \in Sides /\ o # side /\ Opposite(o) = side
    BY OppositeSide
<1>2. p \in S /\ t[p].parent = r /\ Null \notin S
    BY ChildFacts
<1>3. Width(edge, p) \in Nat /\ Width(edge, r) \in Nat /\ Width(edge, p) < Width(edge, r)
    BY ChildNarrower
<1>4. i # Null => i \in S /\ t[i].parent = p
    BY <1>1, <1>2, ChildFacts
<1>5. i # Null => Width(edge, i) \in Nat /\ Width(edge, i) < Width(edge, p)
    BY <1>1, <1>2, ChildNarrower
<1>6. up # Null => up \in S /\ \E s \in Sides : t[up][s] = r
    BY DEF Linked
<1>7. ASSUME up # Null
      PROVE  /\ Width(edge, up) \in Nat /\ Width(edge, r) < Width(edge, up)
             /\ (t[up].left = r <=> t[up].right # r)
    <2>1. PICK s \in Sides : t[up][s] = r
        BY <1>6, <1>7
    <2>2. t[up][s] # Null /\ up \in S
        BY <1>2, <1>6, <1>7, <2>1
    <2>3. Width(edge, up) \in Nat /\ Width(edge, r) < Width(edge, up) /\ t[up][s] # t[up][Opposite(s)]
        BY <2>1, <2>2, ChildNarrower
    <2>4. CASE s = "left"
        BY <2>1, <2>3, <2>4, OppositeSide
    <2>5. CASE s = "right"
        BY <2>1, <2>3, <2>5, OppositeSide
    <2>6. QED
        BY <2>3, <2>4, <2>5 DEF Sides
<1> DEFINE wp == Width(edge, p)
           wr == Width(edge, r)
           wi == Width(edge, i)
           wu == Width(edge, up)
<1>8. i # p /\ i # r
    <2>1. CASE i = Null
        BY <1>2, <2>1
    <2>2. CASE i # Null
        <3>1. wi \in Nat /\ wp \in Nat /\ wr \in Nat /\ wi < wp /\ wp < wr
            BY <1>3, <1>5, <2>2
        <3> HIDE DEF wi, wp, wr
        <3>2. wi # wp /\ wi # wr
            BY <3>1
        <3>3. QED
            BY <3>2 DEF wi, wp, wr
    <2>3. QED
        BY <2>1, <2>2
<1>9. up # r /\ up # p /\ (up # i \/ i = Null)
    <2>1. CASE up = Null
        BY <1>2, <1>4, <2>1
    <2>2. CASE up # Null
        <3>1. wu \in Nat /\ wp \in Nat /\ wr \in Nat /\ wp < wr /\ wr < wu
            BY <1>3, <1>7, <2>2
        <3>2. i # Null => wi \in Nat /\ wi < wp
            BY <1>5
        <3> HIDE DEF wi, wp, wr, wu
        <3>3. wu # wp /\ wu # wr /\ (i # Null => wu # wi)
            BY <3>1, <3>2
        <3>4. QED
            BY <3>3 DEF wi, wp, wr, wu
    <2>3. QED
        BY <2>1, <2>2
<1>10. p # r
    <2>1. wp \in Nat /\ wr \in Nat /\ wp < wr
        BY <1>3
    <2> HIDE DEF wp, wr
    <2>2. wp # wr
        BY <2>1
    <2>3. QED
        BY <2>2 DEF wp, wr
<1>11. QED
    BY <1>1, <1>2, <1>4, <1>6, <1>7, <1>8, <1>9, <1>10

\* The links agree again, the pivot being the child of the node's parent.
LEMMA TurnedLinks ==
    ASSUME NEW t, NEW S, NEW root, Linked(t, S, root), NEW r \in S, NEW side \in Sides,
           NEW p \in S, p = t[r][side], p # r, NEW o \in Sides, o # side,
           NEW i \in S \cup {Null}, i = t[p][o], i # p, i # r, i # Null => t[i].parent = p,
           NEW up \in S \cup {Null}, up = t[r].parent, up # r, up # p, up # i \/ i = Null,
           t[p].parent = r, Null \notin S, \A n \in S : t[n][side] = Null \/ t[n][side] # t[n][o],
           up # Null => \E s \in Sides : t[up][s] = r,
           NEW u, Turned(t, u, r, side, p, o, i, up)
    PROVE  Linked(u, S, IF root = r THEN p ELSE root)
<1> DEFINE top == IF root = r THEN p ELSE root
<1>1. IsTree(u) /\ S \subseteq DOMAIN u /\ top \in S /\ S \subseteq DOMAIN t
    BY DEF Linked, Turned
<1>2. \A m \in S : u[m].parent =
        (IF m = p THEN up ELSE IF m = r THEN p ELSE IF m = i THEN r ELSE t[m].parent)
    BY <1>1 DEF Turned
<1>3. \A m \in S : \A s \in Sides : u[m][s] =
        (IF m = p THEN IF s = o THEN r ELSE t[p][s]
         ELSE IF m = r THEN IF s = side THEN i ELSE t[r][s]
         ELSE IF m = up /\ t[m][s] = r THEN p ELSE t[m][s])
    BY <1>1 DEF Turned
<1>4. \A n \in S : \A s \in Sides : t[n][s] # Null => t[n][s] \in S /\ t[t[n][s]].parent = n
    BY DEF Linked
<1>5. \A n \in S : t[n].parent # Null =>
            t[n].parent \in S /\ \E s \in Sides : t[t[n].parent][s] = n
    BY DEF Linked
<1>6. \A s \in Sides : s = side \/ s = o
    BY DEF Sides
<1>7. ASSUME NEW n \in S, NEW s \in Sides, u[n][s] # Null
      PROVE  u[n][s] \in S /\ u[u[n][s]].parent = n
    <2>1. CASE n = p
        <3>1. CASE s = o
            BY <1>2, <1>3, <2>1, <3>1
        <3>2. CASE s = side
            <4> DEFINE c == t[p][side]
            <4>1. u[n][s] = c /\ c \in S /\ t[c].parent = p
                BY <1>3, <1>4, <1>7, <2>1, <3>2
            <4>2. c # i
                BY <4>1
            <4>3. c # r /\ c # p
                BY <4>1
            <4>4. QED
                BY <1>2, <2>1, <4>1, <4>2, <4>3
        <3>3. QED
            BY <1>6, <3>1, <3>2
    <2>2. CASE n = r
        <3>1. CASE s = side
            BY <1>2, <1>3, <1>7, <2>2, <3>1
        <3>2. CASE s = o
            <4> DEFINE c == t[r][o]
            <4>1. u[n][s] = c /\ c \in S /\ t[c].parent = r
                BY <1>3, <1>4, <1>7, <2>2, <3>2
            <4>2. c # p /\ c # r /\ c # i
                BY <4>1
            <4>3. QED
                BY <1>2, <2>2, <4>1, <4>2
        <3>3. QED
            BY <1>6, <3>1, <3>2
    <2>3. CASE n = up /\ t[n][s] = r
        BY <1>2, <1>3, <2>3
    <2>4. CASE n # p /\ n # r /\ ~(n = up /\ t[n][s] = r)
        <3> DEFINE c == t[n][s]
        <3>1. u[n][s] = c /\ c \in S /\ t[c].parent = n
            BY <1>3, <1>4, <1>7, <2>4
        <3>2. c # p /\ c # r /\ c # i
            BY <2>4, <3>1
        <3>3. QED
            BY <1>2, <3>1, <3>2
    <2>5. QED
        BY <2>1, <2>2, <2>3, <2>4
<1>8. ASSUME NEW n \in S, u[n].parent # Null
      PROVE  u[n].parent \in S /\ \E s \in Sides : u[u[n].parent][s] = n
    <2>1. CASE n = p
        <3>1. u[n].parent = up /\ up \in S
            BY <1>2, <1>8, <2>1
        <3>2. PICK s \in Sides : t[up][s] = r
            BY <3>1
        <3>3. u[up][s] = p
            BY <1>3, <3>1, <3>2
        <3>4. QED
            BY <2>1, <3>1, <3>3
    <2>2. CASE n = r
        <3>1. u[n].parent = p /\ u[p][o] = r
            BY <1>2, <1>3, <2>2
        <3>2. QED
            BY <2>2, <3>1
    <2>3. CASE n = i
        <3>1. u[n].parent = r /\ u[r][side] = i
            BY <1>2, <1>3, <2>3
        <3>2. QED
            BY <2>3, <3>1
    <2>4. CASE n \notin {p, r, i}
        <3> DEFINE q == t[n].parent
        <3>1. u[n].parent = q /\ q \in S
            BY <1>2, <1>5, <1>8, <2>4
        <3>2. PICK s \in Sides : t[q][s] = n
            BY <1>5, <1>8, <3>1
        <3>3. u[q][s] = n
            <4>1. CASE q = p
                <5>1. s # o
                    BY <2>4, <3>2, <4>1
                <5>2. QED
                    BY <1>3, <3>1, <3>2, <4>1, <5>1
            <4>2. CASE q = r
                <5>1. s # side
                    BY <2>4, <3>2, <4>2
                <5>2. QED
                    BY <1>3, <3>1, <3>2, <4>2, <5>1
            <4>3. CASE q # p /\ q # r
                BY <1>3, <2>4, <3>1, <3>2, <4>3
            <4>4. QED
                BY <4>1, <4>2, <4>3
        <3>4. QED
            BY <3>1, <3>3
    <2>5. QED
        BY <2>1, <2>2, <2>3, <2>4
<1>9. ASSUME NEW n \in S PROVE u[n].parent = Null <=> n = top
    <2>1. t[r].parent = Null <=> r = root
        BY DEF Linked
    <2>2. t[n].parent = Null <=> n = root
        BY DEF Linked
    <2>3. t[p].parent # Null /\ p # root
        BY DEF Linked
    <2>4. i # Null => i # root
        BY DEF Linked
    <2>5. QED
        BY <1>2, <2>1, <2>2, <2>3, <2>4
<1> HIDE DEF top
<1>10. Linked(u, S, top)
    BY <1>1, <1>7, <1>8, <1>9 DEF Linked
<1>11. QED
    BY <1>10 DEF top

\* The subtrees of the two nodes after the rotation.
TurnedEdges(S, pos, edge, r, side, p, o) ==
    [n \in S |-> [s \in Sides |->
        IF n = p /\ s = o THEN edge[r][o] ELSE IF n = r /\ s = side THEN pos[p] ELSE edge[n][s]]]

\* The positions of the nodes divide the list as before.
LEMMA TurnedOrder ==
    ASSUME NEW t, NEW S, NEW root, Linked(t, S, root), NEW pos, NEW edge,
           Ordered(t, S, pos, edge), NEW r \in S, NEW side \in Sides,
           NEW p \in S, p = t[r][side], p # r, NEW o \in Sides, o = Opposite(side), o # side,
           NEW i \in S \cup {Null}, i = t[p][o], i # p, i # r,
           NEW up \in S \cup {Null}, up = t[r].parent, up # r, up # p,
           t[p].parent = r, Null \notin S, \A n \in S : t[n][side] = Null \/ t[n][side] # t[n][o],
           NEW u, Turned(t, u, r, side, p, o, i, up)
    PROVE  Ordered(u, S, pos, TurnedEdges(S, pos, edge, r, side, p, o))
<1> DEFINE e == TurnedEdges(S, pos, edge, r, side, p, o)
<1>1. \A m \in S : \A s \in Sides : u[m][s] =
        (IF m = p THEN IF s = o THEN r ELSE t[p][s]
         ELSE IF m = r THEN IF s = side THEN i ELSE t[r][s]
         ELSE IF m = up /\ t[m][s] = r THEN p ELSE t[m][s])
    BY DEF Turned, Linked
<1>2. pos \in [S -> Int] /\ edge \in [S -> [Sides -> Int]]
    BY DEF Ordered
<1>3. e \in [S -> [Sides -> Int]]
    BY <1>2 DEF TurnedEdges
<1>4. \A n \in S : \A s \in Sides : e[n][s] =
        IF n = p /\ s = o THEN edge[r][o] ELSE IF n = r /\ s = side THEN pos[p] ELSE edge[n][s]
    BY DEF TurnedEdges
<1> HIDE DEF e
<1>5. \A n \in S : edge[n]["left"] < pos[n] /\ pos[n] < edge[n]["right"]
    BY DEF Ordered
<1>6. \A n \in S, s \in Sides : t[n][s] # Null =>
            edge[t[n][s]][s] = edge[n][s] /\ edge[t[n][s]][Opposite(s)] = pos[n]
    BY DEF Ordered
<1>7. \A n \in S, s \in Sides : t[n][s] = Null => edge[n][s] = pos[n] + Toward(s)
    BY DEF Ordered
<1>8. \A s \in Sides : (s = side \/ s = o) /\ (Opposite(s) = IF s = side THEN o ELSE side)
    BY OppositeSide DEF Sides
<1>9. edge[p][side] = edge[r][side] /\ edge[p][o] = pos[r]
    BY <1>6
<1>10. \A n \in S : \A s \in Sides : t[n][s] # Null => t[n][s] \in S /\ t[t[n][s]].parent = n
    BY DEF Linked
<1>11. ASSUME NEW n \in S PROVE e[n]["left"] < pos[n] /\ pos[n] < e[n]["right"]
    <2>1. "left" \in Sides /\ "right" \in Sides
        BY DEF Sides
    <2>2. /\ edge[p]["left"] \in Int /\ edge[p]["right"] \in Int /\ pos[p] \in Int
          /\ edge[r]["left"] \in Int /\ edge[r]["right"] \in Int /\ pos[r] \in Int
        BY <1>2, <2>1
    <2>3. CASE side = "left"
        <3>1. o = "right"
            BY <2>3, OppositeSide
        <3>2. pos[p] < pos[r] /\ pos[r] < edge[r]["right"] /\ edge[p]["left"] < pos[p]
            BY <1>5, <1>9, <3>1
        <3>3. pos[p] < edge[r]["right"]
            BY <2>2, <3>2
        <3>4. QED
            BY <1>4, <1>5, <2>1, <2>3, <3>1, <3>2, <3>3
    <2>4. CASE side = "right"
        <3>1. o = "left"
            BY <2>4, OppositeSide
        <3>2. pos[r] < pos[p] /\ edge[r]["left"] < pos[r] /\ pos[p] < edge[p]["right"]
            BY <1>5, <1>9, <3>1
        <3>3. edge[r]["left"] < pos[p]
            BY <2>2, <3>2
        <3>4. QED
            BY <1>4, <1>5, <2>1, <2>4, <3>1, <3>2, <3>3
    <2>5. QED
        BY <2>3, <2>4 DEF Sides
<1>12. ASSUME NEW n \in S, NEW s \in Sides
       PROVE  LET c == u[n][s]
              IN  IF c = Null THEN e[n][s] = pos[n] + Toward(s)
                  ELSE e[c][s] = e[n][s] /\ e[c][Opposite(s)] = pos[n]
    <2> DEFINE c == u[n][s]
    <2>1. CASE n = p
        <3>1. CASE s = o
            <4>1. c = r /\ Opposite(s) = side /\ e[r][o] = edge[r][o] /\ e[p][o] = edge[r][o]
                  /\ e[r][side] = pos[p]
                BY <1>1, <1>4, <1>8, <2>1, <3>1
            <4>2. QED
                BY <2>1, <3>1, <4>1
        <3>2. CASE s = side
            <4>1. c = t[p][side] /\ Opposite(s) = o /\ e[p][side] = edge[p][side]
                BY <1>1, <1>4, <1>8, <2>1, <3>2
            <4>2. CASE c = Null
                BY <1>7, <2>1, <3>2, <4>1, <4>2
            <4>3. CASE c # Null
                <5>1. c \in S /\ t[c].parent = p
                    BY <1>10, <4>1, <4>3
                <5>2. c # p /\ c # r
                    BY <5>1
                <5>3. e[c][side] = edge[c][side] /\ e[c][o] = edge[c][o]
                    BY <1>4, <5>1, <5>2
                <5>4. edge[c][side] = edge[p][side] /\ edge[c][o] = pos[p]
                    BY <1>6, <3>2, <4>1, <4>3
                <5>5. QED
                    BY <2>1, <3>2, <4>1, <4>3, <5>3, <5>4
            <4>4. QED
                BY <4>2, <4>3
        <3>3. QED
            BY <1>8, <3>1, <3>2
    <2>2. CASE n = r
        <3>1. CASE s = side
            <4>1. c = i /\ Opposite(s) = o /\ e[r][side] = pos[p]
                BY <1>1, <1>4, <1>8, <2>2, <3>1
            <4>2. CASE i = Null
                <5>1. edge[p][o] = pos[p] + Toward(o)
                    BY <1>7, <4>2
                <5>2. Toward(o) = -Toward(side) /\ Toward(side) \in Int
                    BY OppositeSide
                <5>3. pos[r] \in Int /\ pos[p] \in Int
                    BY <1>2
                <5>4. pos[p] = pos[r] + Toward(side)
                    BY <1>9, <5>1, <5>2, <5>3
                <5>5. QED
                    BY <2>2, <3>1, <4>1, <4>2, <5>4
            <4>3. CASE i # Null
                <5>1. edge[i][o] = edge[p][o] /\ edge[i][side] = pos[p]
                    BY <1>6, <1>8, <4>3
                <5>2. e[i][o] = edge[i][o] /\ e[i][side] = edge[i][side]
                    BY <1>4, <4>3
                <5>3. QED
                    BY <1>9, <2>2, <3>1, <4>1, <4>3, <5>1, <5>2
            <4>4. QED
                BY <4>2, <4>3
        <3>2. CASE s = o
            <4>1. c = t[r][o] /\ Opposite(s) = side /\ e[r][o] = edge[r][o]
                BY <1>1, <1>4, <1>8, <2>2, <3>2
            <4>2. CASE c = Null
                BY <1>7, <2>2, <3>2, <4>1, <4>2
            <4>3. CASE c # Null
                <5>1. c \in S /\ t[c].parent = r
                    BY <1>10, <4>1, <4>3
                <5>2. c # p /\ c # r
                    BY <4>1, <5>1
                <5>3. e[c][side] = edge[c][side] /\ e[c][o] = edge[c][o]
                    BY <1>4, <5>1, <5>2
                <5>4. edge[c][o] = edge[r][o] /\ edge[c][side] = pos[r]
                    BY <1>6, <3>2, <4>1, <4>3
                <5>5. QED
                    BY <2>2, <3>2, <4>1, <4>3, <5>3, <5>4
            <4>4. QED
                BY <4>2, <4>3
        <3>3. QED
            BY <1>8, <3>1, <3>2
    <2>3. CASE n # p /\ n # r
        <3>1. e[n][s] = edge[n][s]
            BY <1>4, <2>3
        <3>2. CASE n = up /\ t[n][s] = r
            <4>1. c = p
                BY <1>1, <2>3, <3>2
            <4>2. edge[r][s] = edge[n][s] /\ edge[r][Opposite(s)] = pos[n]
                BY <1>6, <3>2
            <4>3. e[p][s] = edge[r][s] /\ e[p][Opposite(s)] = edge[r][Opposite(s)]
                <5>1. e[p][side] = edge[r][side] /\ e[p][o] = edge[r][o]
                    BY <1>4, <1>9
                <5>2. QED
                    BY <1>8, <5>1
            <4>4. QED
                BY <3>1, <4>1, <4>2, <4>3
        <3>3. CASE ~(n = up /\ t[n][s] = r)
            <4>1. c = t[n][s]
                BY <1>1, <2>3, <3>3
            <4>2. CASE c = Null
                BY <1>7, <3>1, <4>1, <4>2
            <4>3. CASE c # Null
                <5>1. c \in S /\ t[c].parent = n
                    BY <1>10, <4>1, <4>3
                <5>2. c # p
                    BY <2>3, <5>1
                <5>3. c # r
                    BY <3>3, <4>1, <5>1
                <5>4. Opposite(s) \in Sides
                    BY OppositeSide
                <5>5. e[c][s] = edge[c][s] /\ e[c][Opposite(s)] = edge[c][Opposite(s)]
                    BY <1>4, <5>1, <5>2, <5>3, <5>4
                <5>6. edge[c][s] = edge[n][s] /\ edge[c][Opposite(s)] = pos[n]
                    BY <1>6, <4>1, <4>3
                <5>7. QED
                    BY <3>1, <4>3, <5>5, <5>6
            <4>4. QED
                BY <4>2, <4>3
        <3>4. QED
            BY <3>2, <3>3
    <2>4. QED
        BY <2>1, <2>2, <2>3
<1>13. Ordered(u, S, pos, e)
    BY <1>2, <1>3, <1>11, <1>12 DEF Ordered
<1>14. QED
    BY <1>13 DEF e

-----------------------------------------------------------------------------
(* Sizes and heights.                                                        *)

HigherOf(t, n) ==
    IF height(t, t[n].left) > height(t, t[n].right)
    THEN height(t, t[n].left) ELSE height(t, t[n].right)

\* The fields are right, except in the stale nodes of A.
Counted(t, S, edge, A) ==
    \A n \in S \ A : t[n].size = Width(edge, n) /\ t[n].height = HigherOf(t, n) + 1

\* The nodes of other trees are left alone.
SameElsewhere(t, u, S) ==
    /\ DOMAIN u = DOMAIN t
    /\ \A m \in DOMAIN t \ S :
        u[m].left = t[m].left /\ u[m].right = t[m].right /\ u[m].parent = t[m].parent
        /\ Fields(t, u, m)

\* The sizes of a node's subtrees, if they are right, say how far its edges are.
LEMMA ChildSizes ==
    ASSUME NEW t, NEW S, NEW root, Linked(t, S, root), NEW pos, NEW edge,
           Ordered(t, S, pos, edge), NEW B, Counted(t, S, edge, B),
           NEW n \in S, \A side \in Sides : t[n][side] \notin B
    PROVE  /\ size(t, t[n].left) = pos[n] - edge[n]["left"] - 1
           /\ size(t, t[n].right) = edge[n]["right"] - pos[n] - 1
<1>1. "left" \in Sides /\ "right" \in Sides
    BY DEF Sides
<1>2. \A m \in S : pos[m] \in Int /\ edge[m]["left"] \in Int /\ edge[m]["right"] \in Int
    BY <1>1 DEF Ordered
<1>3. size(t, t[n].left) = pos[n] - edge[n]["left"] - 1
    <2> DEFINE c == t[n]["left"]
    <2>1. CASE c = Null
        <3>1. edge[n]["left"] = pos[n] + Toward("left")
            BY <1>1, <2>1 DEF Ordered
        <3>2. edge[n]["left"] = pos[n] + -1
            BY <3>1 DEF Toward
        <3>3. pos[n] - edge[n]["left"] - 1 = 0
            BY <1>2, <3>2
        <3>4. QED
            BY <2>1, <3>3 DEF size
    <2>2. CASE c # Null
        <3>1. c \in S
            BY <1>1, <2>2, ChildFacts
        <3>2. edge[c]["left"] = edge[n]["left"] /\ edge[c]["right"] = pos[n]
            BY <1>1, <2>2, OppositeSide DEF Ordered
        <3>3. c \notin B
            BY <1>1
        <3>4. t[c].size = edge[c]["right"] - edge[c]["left"] - 1
            BY <3>1, <3>3 DEF Counted, Width
        <3>5. QED
            BY <2>2, <3>2, <3>4 DEF size
    <2>3. QED
        BY <2>1, <2>2
<1>4. size(t, t[n].right) = edge[n]["right"] - pos[n] - 1
    <2> DEFINE c == t[n]["right"]
    <2>1. CASE c = Null
        <3>1. edge[n]["right"] = pos[n] + Toward("right")
            BY <1>1, <2>1 DEF Ordered
        <3>2. edge[n]["right"] = pos[n] + 1
            BY <3>1 DEF Toward
        <3>3. edge[n]["right"] - pos[n] - 1 = 0
            BY <1>2, <3>2
        <3>4. QED
            BY <2>1, <3>3 DEF size
    <2>2. CASE c # Null
        <3>1. c \in S
            BY <1>1, <2>2, ChildFacts
        <3>2. edge[c]["right"] = edge[n]["right"] /\ edge[c]["left"] = pos[n]
            BY <1>1, <2>2, OppositeSide DEF Ordered
        <3>3. c \notin B
            BY <1>1
        <3>4. t[c].size = edge[c]["right"] - edge[c]["left"] - 1
            BY <3>1, <3>3 DEF Counted, Width
        <3>5. QED
            BY <2>2, <3>2, <3>4 DEF size
    <2>3. QED
        BY <2>1, <2>2
<1>5. QED
    BY <1>3, <1>4

\* The node whose fields are recalculated is stale no more.
LEMMA RecalculatedCount ==
    ASSUME NEW t, NEW S, NEW root, Linked(t, S, root), NEW pos, NEW edge,
           Ordered(t, S, pos, edge), NEW B, Counted(t, S, edge, B),
           NEW n \in S, \A side \in Sides : t[n][side] \notin B,
           t[n].parent \in B \cup {Null},
           NEW u, IsRecalculated(t, u, n)
    PROVE  /\ Linked(u, S, root) /\ Ordered(u, S, pos, edge)
           /\ Counted(u, S, edge, B \ {n}) /\ SameElsewhere(t, u, S)
<1>1. /\ IsTree(u) /\ DOMAIN u = DOMAIN t
      /\ \A m \in DOMAIN t : \A side \in Sides : u[m][side] = t[m][side]
      /\ \A m \in DOMAIN t : u[m].parent = t[m].parent
      /\ \A m \in DOMAIN t : m # n => u[m].size = t[m].size /\ u[m].height = t[m].height
      /\ u[n].size = size(t, t[n].left) + size(t, t[n].right) + 1
      /\ u[n].height = HigherOf(t, n) + 1
    BY DEF IsRecalculated, HigherOf
<1>2. S \subseteq DOMAIN t /\ IsTree(t) /\ Null \notin S
    BY DEF Linked, IsTree
<1>3. Linked(u, S, root)
    <2>1. \A m \in S : \A side \in Sides : u[m][side] = t[m][side]
        BY <1>1, <1>2
    <2>2. \A m \in S : u[m].parent = t[m].parent
        BY <1>1, <1>2
    <2>3. \A m \in S : \A side \in Sides :
            t[m][side] # Null => t[m][side] \in S /\ t[t[m][side]].parent = m
        BY DEF Linked
    <2>4. \A m \in S : \A side \in Sides :
            u[m][side] # Null => u[m][side] \in S /\ u[u[m][side]].parent = m
        BY <2>1, <2>2, <2>3
    <2>5. \A m \in S : t[m].parent # Null =>
            t[m].parent \in S /\ \E side \in Sides : t[t[m].parent][side] = m
        BY DEF Linked
    <2>6. \A m \in S : u[m].parent # Null =>
            u[m].parent \in S /\ \E side \in Sides : u[u[m].parent][side] = m
        BY <2>1, <2>2, <2>5
    <2>7. \A m \in S : u[m].parent = Null <=> m = root
        BY <2>2 DEF Linked
    <2>8. QED
        BY <1>1, <2>4, <2>6, <2>7 DEF Linked
<1>4. Ordered(u, S, pos, edge)
    <2>1. \A m \in S : \A side \in Sides : u[m][side] = t[m][side]
        BY <1>1, <1>2
    <2>2. ASSUME NEW m \in S, NEW side \in Sides
          PROVE  LET c == u[m][side]
                 IN  IF c = Null THEN edge[m][side] = pos[m] + Toward(side)
                     ELSE edge[c][side] = edge[m][side] /\ edge[c][Opposite(side)] = pos[m]
        <3>1. u[m][side] = t[m][side]
            BY <2>1
        <3>2. QED
            BY <3>1 DEF Ordered
    <2>3. QED
        BY <2>2 DEF Ordered
<1>5. ASSUME NEW m \in S \ (B \ {n})
      PROVE  u[m].size = Width(edge, m) /\ u[m].height = HigherOf(u, m) + 1
    <2>0. "left" \in Sides /\ "right" \in Sides
        BY DEF Sides
    <2>1. \A side \in Sides : t[m][side] # n
        <3> SUFFICES ASSUME NEW side \in Sides, t[m][side] = n PROVE FALSE
            OBVIOUS
        <3>1. t[n].parent = m
            BY <1>2, ChildFacts
        <3>2. m \in B \/ m = Null
            BY <3>1
        <3>3. m = n
            BY <1>2, <3>2
        <3>4. m \notin B
            BY <3>3
        <3>5. QED
            BY <1>2, <3>2, <3>4
    <2>2. \A side \in Sides : height(u, u[m][side]) = height(t, t[m][side])
        <3> SUFFICES ASSUME NEW side \in Sides
                     PROVE  height(u, u[m][side]) = height(t, t[m][side])
            OBVIOUS
        <3>1. t[m][side] # Null => t[m][side] \in DOMAIN t /\ t[m][side] # n
            BY <2>1, ChildFacts
        <3>2. u[m][side] = t[m][side]
            BY <1>1, <1>2
        <3>3. QED
            BY <1>1, <3>1, <3>2 DEF height
    <2>3. HigherOf(u, m) = HigherOf(t, m)
        <3>1. height(u, u[m].left) = height(t, t[m].left) /\ height(u, u[m].right) = height(t, t[m].right)
            BY <2>0, <2>2
        <3>2. QED
            BY <3>1 DEF HigherOf
    <2>4. CASE m = n
        <3>1. /\ size(t, t[n].left) = pos[n] - edge[n]["left"] - 1
              /\ size(t, t[n].right) = edge[n]["right"] - pos[n] - 1
            BY ChildSizes
        <3>2. pos[n] \in Int /\ edge[n]["left"] \in Int /\ edge[n]["right"] \in Int
            BY <2>0 DEF Ordered
        <3> DEFINE x == pos[n]
                   y == edge[n]["left"]
                   z == edge[n]["right"]
        <3>3. (x - y - 1) + (z - x - 1) + 1 = z - y - 1
            <4> HIDE DEF x, y, z
            <4>1. x \in Int /\ y \in Int /\ z \in Int
                BY <3>2 DEF x, y, z
            <4>2. QED
                BY <4>1
        <3>4. u[n].size = Width(edge, n)
            BY <1>1, <3>1, <3>3 DEF Width
        <3>5. QED
            BY <1>1, <2>3, <2>4, <3>4
    <2>5. CASE m # n
        <3>1. t[m].size = Width(edge, m) /\ t[m].height = HigherOf(t, m) + 1
            BY <2>5 DEF Counted
        <3>2. QED
            BY <1>1, <1>2, <2>3, <2>5, <3>1
    <2>6. QED
        BY <2>4, <2>5
<1>6. Counted(u, S, edge, B \ {n})
    BY <1>5 DEF Counted
<1>7. SameElsewhere(t, u, S)
    BY <1>1 DEF SameElsewhere, Sides, Fields
<1>8. QED
    BY <1>3, <1>4, <1>6, <1>7

\* A rotation leaves only the two nodes it turns with fields to recalculate.
LEMMA TurnedCount ==
    ASSUME NEW t, NEW S, NEW root, Linked(t, S, root), NEW pos, NEW edge,
           Ordered(t, S, pos, edge), NEW B, Counted(t, S, edge, B), NEW r \in S, NEW side \in Sides,
           NEW p \in S, NEW o \in Sides, NEW i \in S \cup {Null}, NEW up \in B \cup {Null},
           up \in S \cup {Null},
           NEW u, Turned(t, u, r, side, p, o, i, up)
    PROVE  /\ Counted(u, S, TurnedEdges(S, pos, edge, r, side, p, o), B \cup {r, p})
           /\ SameElsewhere(t, u, S)
<1> DEFINE e == TurnedEdges(S, pos, edge, r, side, p, o)
<1>0. "left" \in Sides /\ "right" \in Sides
    BY DEF Sides
<1>1. S \subseteq DOMAIN t /\ IsTree(t) /\ Null \notin S
    BY DEF Linked, IsTree
<1>2. \A m \in DOMAIN t : Fields(t, u, m)
    BY DEF Turned
<1>3. \A m \in DOMAIN t : u[m].parent =
        (IF m = p THEN up ELSE IF m = r THEN p ELSE IF m = i THEN r ELSE t[m].parent)
    BY DEF Turned
<1>4. \A m \in DOMAIN t : \A s \in Sides : u[m][s] =
        (IF m = p THEN IF s = o THEN r ELSE t[p][s]
         ELSE IF m = r THEN IF s = side THEN i ELSE t[r][s]
         ELSE IF m = up /\ t[m][s] = r THEN p ELSE t[m][s])
    BY DEF Turned
<1>5. \A n \in S : \A s \in Sides : n # p /\ n # r => e[n][s] = edge[n][s]
    BY DEF TurnedEdges
<1> HIDE DEF e
<1>6. ASSUME NEW m \in S \ (B \cup {r, p})
      PROVE  u[m].size = Width(e, m) /\ u[m].height = HigherOf(u, m) + 1
    <2>1. m # up /\ m # r /\ m # p /\ m \in S \ B /\ m \in DOMAIN t
        BY <1>1
    <2>2. \A s \in Sides : u[m][s] = t[m][s]
        BY <1>4, <2>1
    <2>3. \A s \in Sides : height(u, u[m][s]) = height(t, t[m][s])
        <3> SUFFICES ASSUME NEW s \in Sides PROVE height(u, u[m][s]) = height(t, t[m][s])
            OBVIOUS
        <3>1. t[m][s] # Null => t[m][s] \in DOMAIN t
            BY <2>1, ChildFacts
        <3>2. QED
            BY <1>2, <2>2, <3>1 DEF height, Fields
    <2>4. HigherOf(u, m) = HigherOf(t, m)
        <3>1. height(u, u[m].left) = height(t, t[m].left) /\ height(u, u[m].right) = height(t, t[m].right)
            BY <1>0, <2>3
        <3>2. QED
            BY <3>1 DEF HigherOf
    <2>5. Width(e, m) = Width(edge, m)
        BY <1>0, <1>5, <2>1 DEF Width
    <2>6. t[m].size = Width(edge, m) /\ t[m].height = HigherOf(t, m) + 1
        BY <2>1 DEF Counted
    <2>7. QED
        BY <1>2, <2>1, <2>4, <2>5, <2>6 DEF Fields
<1>7. SameElsewhere(t, u, S)
    <2>1. ASSUME NEW m \in DOMAIN t \ S
          PROVE  u[m].left = t[m].left /\ u[m].right = t[m].right /\ u[m].parent = t[m].parent
                 /\ Fields(t, u, m)
        <3>1. m # p /\ m # r /\ (m = i => i = Null) /\ (m = up => up = Null)
            OBVIOUS
        <3>2. Null \notin DOMAIN t
            BY <1>1 DEF IsTree
        <3>3. u[m].parent = t[m].parent
            BY <1>3, <3>1, <3>2
        <3>4. u[m]["left"] = t[m]["left"] /\ u[m]["right"] = t[m]["right"]
            BY <1>0, <1>4, <3>1, <3>2
        <3>5. QED
            BY <1>2, <3>3, <3>4
    <2>2. DOMAIN u = DOMAIN t
        BY DEF Turned
    <2>3. QED
        BY <2>1, <2>2 DEF SameElsewhere
<1>8. QED
    BY <1>6, <1>7 DEF Counted, e

-----------------------------------------------------------------------------
(* The way up.  The stale nodes are those from n to the root.                *)

Stale(t, S, A, n) ==
    /\ A \subseteq S
    /\ n \in A
    /\ \A a \in A : t[a].parent \in A \cup {Null}
    /\ \A side \in Sides : t[n][side] \notin A
    /\ \A a \in A \ {n} : \E side \in Sides : t[a][side] \in A /\ t[a][Opposite(side)] \notin A

\* A tree whose nodes have the positions pos, and right fields outside A.
Tree(t, S, root, pos, edge, A) ==
    Linked(t, S, root) /\ Ordered(t, S, pos, edge) /\ Counted(t, S, edge, A)

\* Above the root nothing is stale.
LEMMA StaleEnds ==
    ASSUME NEW t, NEW S, NEW root, Linked(t, S, root), NEW pos, NEW edge,
           Ordered(t, S, pos, edge), NEW A, Stale(t, S, A, root)
    PROVE  A = {root}
<1> SUFFICES ASSUME A # {root} PROVE FALSE
    OBVIOUS
<1> DEFINE B == A \ {root}
           T == {Width(edge, b) : b \in B}
<1>1. root \in A /\ B # {} /\ B \subseteq S /\ Null \notin S
    BY DEF Stale, Linked, IsTree
<1>2. ASSUME NEW b \in B
      PROVE  \E side \in Sides : t[b][side] \in B
    <2>1. PICK side \in Sides : t[b][side] \in A
        BY DEF Stale
    <2>2. t[b][side] # Null
        BY <1>1, <2>1 DEF Stale
    <2>3. t[t[b][side]].parent = b /\ b # Null
        BY <1>1, <2>2, ChildFacts
    <2>4. t[b][side] # root
        BY <2>3 DEF Linked
    <2>5. QED
        BY <2>1, <2>4
<1>3. ASSUME NEW b \in B
      PROVE  Width(edge, b) \in Nat /\ \E c \in B : Width(edge, c) < Width(edge, b)
    <2>1. PICK side \in Sides : t[b][side] \in B
        BY <1>2
    <2>2. t[b][side] # Null
        BY <1>1, <2>1
    <2>3. QED
        BY <1>1, <2>1, <2>2, ChildNarrower
<1>4. T \subseteq Nat /\ T # {}
    BY <1>1, <1>3
<1>5. PICK x \in T : \A y \in T : x <= y
    BY <1>4, Least
<1>6. PICK b \in B : x = Width(edge, b)
    BY <1>5
<1>7. PICK c \in B : Width(edge, c) < Width(edge, b)
    BY <1>3
<1>8. Width(edge, c) \in T /\ Width(edge, c) \in Nat /\ Width(edge, b) \in Nat
    BY <1>3
<1>9. Width(edge, b) <= Width(edge, c)
    BY <1>5, <1>6, <1>8
<1> DEFINE y == Width(edge, c)
           z == Width(edge, b)
<1>10. y \in Nat /\ z \in Nat /\ y < z /\ z <= y
    BY <1>7, <1>8, <1>9
<1> HIDE DEF y, z
<1>11. QED
    BY <1>10

\* From t to u the links above n stay, but for those of n and of what replaces it.
SameAbove(t, u, A, n, up) ==
    /\ \A a \in A \ {n} : u[a].parent = t[a].parent
    /\ \A a \in A \ {n} : \A s \in Sides : a # up => u[a][s] = t[a][s]
    /\ \A s \in Sides : u[up][s] = t[up][s] \/ (t[up][s] = n /\ u[up][s] \notin A)

\* What is stale above n stays stale then.
LEMMA StaleAbove ==
    ASSUME NEW t, NEW S, NEW root, Linked(t, S, root), NEW A, NEW n, Stale(t, S, A, n),
           NEW up, up = t[n].parent, up # Null, NEW u, SameAbove(t, u, A, n, up)
    PROVE  Stale(u, S, A \ {n}, up)
<1> DEFINE B == A \ {n}
<1>0. /\ \A a \in A \ {n} : u[a].parent = t[a].parent
      /\ \A a \in A \ {n} : \A s \in Sides : a # up => u[a][s] = t[a][s]
      /\ \A s \in Sides : u[up][s] = t[up][s] \/ (t[up][s] = n /\ u[up][s] \notin A)
    BY DEF SameAbove
<1>1. n \in S /\ A \subseteq S /\ Null \notin S
    BY DEF Stale, Linked, IsTree
<1>2. up \in A
    BY DEF Stale
<1>3. up # n
    <2>1. PICK s \in Sides : t[up][s] = n
        BY <1>1 DEF Linked
    <2>2. t[n][s] \notin A
        BY DEF Stale
    <2>3. QED
        BY <1>2, <2>1, <2>2
<1>4. \A a \in A : t[a].parent # n
    <2> SUFFICES ASSUME NEW a \in A, t[a].parent = n PROVE FALSE
        OBVIOUS
    <2>1. a \in S /\ n # Null
        BY <1>1
    <2>2. PICK s \in Sides : t[n][s] = a
        BY <2>1 DEF Linked
    <2>3. QED
        BY <2>2 DEF Stale
<1>5. ASSUME NEW a \in B PROVE u[a].parent \in B \cup {Null}
    BY <1>0, <1>4 DEF Stale
<1>6. ASSUME NEW s \in Sides PROVE u[up][s] \notin B
    <2>1. PICK x \in Sides : t[up][x] \in A /\ t[up][Opposite(x)] \notin A
        BY <1>2, <1>3 DEF Stale
    <2>2. PICK y \in Sides : t[up][y] = n
        BY <1>1 DEF Linked
    <2>3. n \in A
        BY DEF Stale
    <2>4. x = y
        BY <2>1, <2>2, <2>3 DEF Sides, Opposite
    <2>5. CASE s = x
        BY <1>0, <2>2, <2>4, <2>5
    <2>6. CASE s # x
        BY <1>0, <2>1, <2>6 DEF Sides, Opposite
    <2>7. QED
        BY <2>5, <2>6
<1>7. ASSUME NEW a \in B \ {up}
      PROVE  \E side \in Sides : u[a][side] \in B /\ u[a][Opposite(side)] \notin B
    <2>1. PICK side \in Sides : t[a][side] \in A /\ t[a][Opposite(side)] \notin A
        BY DEF Stale
    <2>2. t[a][side] # Null
        BY <1>1, <2>1
    <2>3. t[t[a][side]].parent = a
        BY <1>1, <2>2, ChildFacts
    <2>4. t[a][side] # n
        BY <2>3
    <2>5. Opposite(side) \in Sides
        BY OppositeSide
    <2>6. u[a][side] = t[a][side] /\ u[a][Opposite(side)] = t[a][Opposite(side)]
        BY <1>0, <2>5
    <2>7. QED
        BY <2>1, <2>4, <2>6
<1> HIDE DEF B
<1>8. B \subseteq S /\ up \in B
    BY <1>1, <1>2, <1>3 DEF B
<1>9. Stale(u, S, B, up)
    BY <1>5, <1>6, <1>7, <1>8 DEF Stale
<1>10. QED
    BY <1>9 DEF B

\* The loop of restore_height_size_and_balance_of_tree at one node.
LevelDone(t, S, pos, A, n, up, l) ==
    \E root, edge :
        /\ Tree(l.tree, S, root, pos, edge, A \ {n})
        /\ SameElsewhere(t, l.tree, S)
        /\ l.node \in S /\ l.tree[l.node].parent = up
        /\ IF up = Null THEN A \ {n} = {} ELSE Stale(l.tree, S, A \ {n}, up)

LEMMA LevelResult ==
    ASSUME NEW t, NEW S, NEW root, NEW pos, NEW edge, NEW A, NEW n,
           Tree(t, S, root, pos, edge, A), Stale(t, S, A, n), NEW up, up = t[n].parent
    PROVE  LevelDone(t, S, pos, A, n, up, RestoreLevel(t, n))
<1> DEFINE v == recalculate(t, n)
           l == RestoreLevel(t, n)
           B == A \ {n}
<1>1. Linked(t, S, root) /\ Ordered(t, S, pos, edge) /\ Counted(t, S, edge, A)
    BY DEF Tree
<1>2. /\ n \in S /\ n \in A /\ up \in A \cup {Null} /\ A \subseteq S /\ Null \notin S
      /\ \A side \in Sides : t[n][side] \notin A
    BY <1>1 DEF Stale, Linked, IsTree
<1>3. IsRecalculated(t, v, n)
    <2>1. IsTree(t) /\ n \in DOMAIN t
        BY <1>1, <1>2 DEF Linked
    <2>2. QED
        BY <2>1, RecalculateResult
<1> HIDE DEF v
<1>4. Linked(v, S, root) /\ Ordered(v, S, pos, edge) /\ Counted(v, S, edge, B)
      /\ SameElsewhere(t, v, S)
    BY <1>1, <1>2, <1>3, RecalculatedCount
<1>5. \A m \in S : v[m].parent = t[m].parent /\ \A s \in Sides : v[m][s] = t[m][s]
    BY <1>1, <1>3 DEF IsRecalculated, Linked
<1>6. up # n
    <2>1. CASE up = Null
        BY <1>2, <2>1
    <2>2. CASE up # Null
        <3>1. PICK s \in Sides : t[up][s] = n
            BY <1>1, <1>2, <2>2 DEF Linked
        <3>2. QED
            BY <1>2, <3>1
    <2>3. QED
        BY <2>1, <2>2
<1>7. up = Null => B = {}
    <2> SUFFICES ASSUME up = Null PROVE B = {}
        OBVIOUS
    <2>1. n = root
        BY <1>1, <1>2 DEF Linked
    <2>2. A = {root}
        BY <1>1, <2>1, StaleEnds
    <2>3. QED
        BY <2>1, <2>2
<1>8. up \in S \cup {Null} /\ up \in B \cup {Null}
    BY <1>2, <1>6
<1>9. l = check_and_restore_balance_of_level(v, n)
    BY DEF RestoreLevel, v
<1>10. CASE Heavy(v, n) = {}
    <2>1. l = [tree |-> v, node |-> n]
        BY <1>9, <1>10 DEF check_and_restore_balance_of_level
    <2>2. up # Null => Stale(v, S, B, up)
        <3> SUFFICES ASSUME up # Null PROVE Stale(v, S, B, up)
            OBVIOUS
        <3>1. \A a \in A \ {n} : v[a].parent = t[a].parent
            BY <1>2, <1>5
        <3>2. \A a \in A \ {n} : \A s \in Sides : a # up => v[a][s] = t[a][s]
            BY <1>2, <1>5
        <3>3. \A s \in Sides : v[up][s] = t[up][s] \/ (t[up][s] = n /\ v[up][s] \notin A)
            BY <1>5, <1>8
        <3>4. QED
            <4>1. SameAbove(t, v, A, n, up)
                BY <3>1, <3>2, <3>3 DEF SameAbove
            <4>2. Stale(v, S, A \ {n}, up)
                BY <1>1, <4>1, StaleAbove
            <4>3. QED
                BY <4>2 DEF B
    <2>3. l.tree = v /\ l.node = n
        BY <2>1
    <2> HIDE DEF l
    <2>4. Tree(l.tree, S, root, pos, edge, B) /\ SameElsewhere(t, l.tree, S)
        BY <1>4, <2>3 DEF Tree
    <2>5. l.node \in S /\ l.tree[l.node].parent = up
        BY <1>2, <1>5, <2>3
    <2>6. IF up = Null THEN B = {} ELSE Stale(l.tree, S, B, up)
        BY <1>7, <2>2, <2>3
    <2>7. LevelDone(t, S, pos, A, n, up, l)
        BY <2>4, <2>5, <2>6 DEF LevelDone
    <2>8. QED
        BY <2>7 DEF l
<1>11. CASE Heavy(v, n) # {}
    <2> DEFINE side == CHOOSE s \in Heavy(v, n) : TRUE
               p == v[n][side]
               o == Opposite(side)
               i == v[p][o]
    <2>1. side \in Heavy(v, n)
        BY <1>11
    <2> HIDE DEF side
    <2>2. side \in Sides /\ height(v, v[n][side]) > height(v, v[n][Opposite(side)]) + 1
        BY <2>1 DEF Heavy, Sides
    <2>3. p # Null
        <3> SUFFICES ASSUME p = Null PROVE FALSE
            OBVIOUS
        <3>1. o \in Sides
            BY <2>2, OppositeSide
        <3>2. v[n][o] \in DOMAIN v \cup {Null}
            <4>1. IsTree(v) /\ n \in DOMAIN v
                BY <1>2, <1>4 DEF Linked
            <4>2. QED
                BY <3>1, <4>1, NodeFields
        <3>3. height(v, v[n][o]) \in Nat
            BY <1>4, <3>2, NodeFields DEF height, Linked
        <3>4. height(v, v[n][side]) = 0
            BY DEF height
        <3>5. QED
            BY <2>2, <3>3, <3>4
    <2>4. v[n].parent = up
        BY <1>2, <1>5
    <2> HIDE DEF p, o, i
    <2>5. p = v[n][side] /\ o = Opposite(side) /\ i = v[p][o]
        BY DEF p, o, i
    <2>6. /\ o \in Sides /\ o # side /\ Opposite(o) = side
          /\ p \in S /\ p # n /\ v[p].parent = n
          /\ i \in S \cup {Null} /\ i # p /\ i # n /\ (i # Null => v[i].parent = p)
          /\ up \in S \cup {Null} /\ up # n /\ up # p /\ (up # i \/ i = Null)
          /\ up # Null => (v[up].left = n <=> v[up].right # n)
          /\ up # Null => \E s \in Sides : v[up][s] = n
          /\ Null \notin S
        BY <1>2, <1>4, <2>2, <2>3, <2>4, <2>5, RotationNodes
    <2> DEFINE w == Relinked(v, n, side, p, o, i, up)
               x == recalculate(w, n)
               y == recalculate(x, p)
               e == TurnedEdges(S, pos, edge, n, side, p, o)
               top == IF root = n THEN p ELSE root
    <2>7. l = [tree |-> y, node |-> p]
        <3>1. l = [tree |-> rotate(v, n, side, TRUE), node |-> p]
            BY <1>9, <1>11, <2>5 DEF check_and_restore_balance_of_level, side
        <3>2. rotate(v, n, side, TRUE) = y
            BY <2>4, <2>5 DEF rotate, Relinked
        <3>3. QED
            BY <3>1, <3>2
    <2>8. Turned(v, w, n, side, p, o, i, up)
        <3> DEFINE D == DOMAIN v
        <3>1. IsTree(v) /\ S \subseteq D
            BY <1>4 DEF Linked
        <3>2. n \in D /\ p \in D /\ i \in D \cup {Null} /\ up \in D \cup {Null}
            BY <1>2, <2>6, <3>1
        <3> HIDE DEF D
        <3>3. DOMAIN v = D
            BY DEF D
        <3>4. QED
            BY <2>2, <2>6, <3>1, <3>2, <3>3, RelinkedResult
    <2> HIDE DEF w
    <2>9. \A m \in S : v[m][side] = Null \/ v[m][side] # v[m][o]
        <3> SUFFICES ASSUME NEW m \in S, v[m][side] # Null PROVE v[m][side] # v[m][o]
            OBVIOUS
        <3>1. v[m][side] # v[m][Opposite(side)]
            BY <1>4, <2>2, ChildNarrower
        <3>2. QED
            BY <2>5, <3>1
    <2>10. Linked(w, S, top)
        BY <1>2, <1>4, <2>2, <2>4, <2>5, <2>6, <2>8, <2>9, TurnedLinks
    <2>11. Ordered(w, S, pos, e)
        BY <1>2, <1>4, <2>2, <2>4, <2>5, <2>6, <2>8, <2>9, TurnedOrder
    <2>12. Counted(w, S, e, B \cup {n, p}) /\ SameElsewhere(v, w, S)
        BY <1>2, <1>4, <1>8, <2>2, <2>6, <2>8, TurnedCount
    <2> HIDE DEF x, y, e, top
    <2>13. \A m \in S : w[m].parent =
            (IF m = p THEN up ELSE IF m = n THEN p ELSE IF m = i THEN n ELSE v[m].parent)
        BY <1>4, <2>8 DEF Turned, Linked
    <2>14. \A m \in S : \A s \in Sides : w[m][s] =
            (IF m = p THEN IF s = o THEN n ELSE v[p][s]
             ELSE IF m = n THEN IF s = side THEN i ELSE v[n][s]
             ELSE IF m = up /\ v[m][s] = n THEN p ELSE v[m][s])
        BY <1>4, <2>8 DEF Turned, Linked
    <2>15. p \notin A /\ i \notin A
        <3>1. p \notin A
            BY <1>2, <1>5, <2>2, <2>5
        <3>2. i # Null => t[i].parent = p /\ i \in S
            BY <1>5, <2>6
        <3>3. i \in A => t[i].parent \in A \cup {Null}
            BY DEF Stale
        <3>4. QED
            BY <1>2, <2>6, <3>1, <3>2, <3>3
    <2>16. \A s \in Sides : w[n][s] \notin B \cup {n, p}
        <3> SUFFICES ASSUME NEW s \in Sides PROVE w[n][s] \notin B \cup {n, p}
            OBVIOUS
        <3>1. CASE s = side
            BY <1>2, <2>6, <2>14, <2>15, <3>1
        <3>2. CASE s # side
            <4>1. w[n][s] = v[n][s] /\ v[n][s] = t[n][s] /\ s = o
                BY <1>2, <1>5, <2>2, <2>6, <2>14, <3>2 DEF Sides
            <4>2. v[n][o] # p
                BY <1>2, <2>3, <2>5, <2>9
            <4>3. v[n][o] # n
                <5>1. v[n][o] # Null => v[v[n][o]].parent = n
                    BY <1>2, <1>4, <2>6, ChildFacts
                <5>2. QED
                    BY <1>2, <2>4, <2>6, <5>1
            <4>4. QED
                BY <1>2, <4>1, <4>2, <4>3
        <3>3. QED
            BY <3>1, <3>2
    <2>17. IsRecalculated(w, x, n)
        <3>1. IsTree(w) /\ n \in DOMAIN w
            BY <1>2, <2>10 DEF Linked
        <3>2. QED
            BY <3>1, RecalculateResult DEF x
    <2>18. /\ Linked(x, S, top) /\ Ordered(x, S, pos, e)
           /\ Counted(x, S, e, (B \cup {n, p}) \ {n}) /\ SameElsewhere(w, x, S)
        <3>1. w[n].parent \in (B \cup {n, p}) \cup {Null}
            BY <1>2, <2>6, <2>13
        <3>2. QED
            BY <1>2, <2>10, <2>11, <2>12, <2>16, <2>17, <3>1, RecalculatedCount
    <2>19. Counted(x, S, e, B \cup {p})
        <3>1. (B \cup {n, p}) \ {n} = B \cup {p}
            BY <2>6
        <3>2. QED
            BY <2>18, <3>1
    <2>20. IsRecalculated(x, y, p)
        <3>1. IsTree(x) /\ p \in DOMAIN x
            BY <2>6, <2>18 DEF Linked
        <3>2. QED
            BY <3>1, RecalculateResult DEF y
    <2>21. \A m \in S : x[m].parent = w[m].parent /\ \A s \in Sides : x[m][s] = w[m][s]
        BY <2>10, <2>17 DEF IsRecalculated, Linked
    <2>22. \A s \in Sides : x[p][s] \notin B \cup {p}
        <3> SUFFICES ASSUME NEW s \in Sides PROVE x[p][s] \notin B \cup {p}
            OBVIOUS
        <3>1. x[p][s] = w[p][s]
            BY <2>6, <2>21
        <3>2. CASE s = o
            BY <2>6, <2>14, <3>1, <3>2
        <3>3. CASE s # o
            <4>1. x[p][s] = v[p][s]
                BY <2>6, <2>14, <3>1, <3>3
            <4>2. v[p][s] # Null => v[p][s] \in S /\ v[v[p][s]].parent = p
                BY <1>4, <2>6, ChildFacts
            <4>3. v[p][s] # p
                BY <2>6, <4>2
            <4>4. v[p][s] \notin A
                <5>1. v[p][s] \in A => v[p][s] # Null
                    BY <1>2
                <5>2. v[p][s] \in A => t[v[p][s]].parent = p
                    BY <1>5, <4>2, <5>1
                <5>3. v[p][s] \in A => p \in A \cup {Null}
                    BY <5>2 DEF Stale
                <5>4. QED
                    BY <2>6, <2>15, <5>3
            <4>5. QED
                BY <4>1, <4>3, <4>4
        <3>4. QED
            BY <3>2, <3>3
    <2>23. /\ Linked(y, S, top) /\ Ordered(y, S, pos, e)
           /\ Counted(y, S, e, (B \cup {p}) \ {p}) /\ SameElsewhere(x, y, S)
        <3>1. x[p].parent \in (B \cup {p}) \cup {Null}
            BY <1>8, <2>6, <2>13, <2>21
        <3>2. QED
            BY <2>6, <2>18, <2>19, <2>20, <2>22, <3>1, RecalculatedCount
    <2>24. Tree(y, S, top, pos, e, B)
        <3>1. (B \cup {p}) \ {p} = B
            BY <2>15
        <3>2. QED
            BY <2>23, <3>1 DEF Tree
    <2>25. SameElsewhere(t, y, S)
        BY <1>4, <2>12, <2>18, <2>23 DEF SameElsewhere, Fields
    <2>26. \A m \in S : y[m].parent = w[m].parent /\ \A s \in Sides : y[m][s] = w[m][s]
        <3>1. \A m \in S : y[m].parent = x[m].parent /\ \A s \in Sides : y[m][s] = x[m][s]
            BY <2>18, <2>20 DEF IsRecalculated, Linked
        <3>2. QED
            BY <2>21, <3>1
    <2>27. y[p].parent = up
        BY <2>6, <2>13, <2>26
    <2>28. up # Null => Stale(y, S, B, up)
        <3> SUFFICES ASSUME up # Null PROVE Stale(y, S, B, up)
            OBVIOUS
        <3>1. \A a \in A \ {n} : y[a].parent = t[a].parent
            <4> SUFFICES ASSUME NEW a \in A \ {n} PROVE y[a].parent = t[a].parent
                OBVIOUS
            <4>1. a \in S /\ a # p /\ a # i /\ a # n
                BY <1>2, <2>15
            <4>2. QED
                BY <1>5, <2>13, <2>26, <4>1
        <3>2. \A a \in A \ {n} : \A s \in Sides : a # up => y[a][s] = t[a][s]
            <4> SUFFICES ASSUME NEW a \in A \ {n}, NEW s \in Sides, a # up PROVE y[a][s] = t[a][s]
                OBVIOUS
            <4>1. a \in S /\ a # p /\ a # n
                BY <1>2, <2>15
            <4>2. QED
                BY <1>5, <2>14, <2>26, <4>1
        <3>3. \A s \in Sides : y[up][s] = t[up][s] \/ (t[up][s] = n /\ y[up][s] \notin A)
            <4> SUFFICES ASSUME NEW s \in Sides
                         PROVE  y[up][s] = t[up][s] \/ (t[up][s] = n /\ y[up][s] \notin A)
                OBVIOUS
            <4>1. up \in S /\ up # p /\ up # n
                BY <2>6
            <4>2. y[up][s] = (IF v[up][s] = n THEN p ELSE v[up][s]) /\ v[up][s] = t[up][s]
                BY <1>5, <2>14, <2>26, <4>1
            <4>3. QED
                BY <2>15, <4>2
        <3>4. QED
            <4>1. SameAbove(t, y, A, n, up)
                BY <3>1, <3>2, <3>3 DEF SameAbove
            <4>2. Stale(y, S, A \ {n}, up)
                BY <1>1, <4>1, StaleAbove
            <4>3. QED
                BY <4>2 DEF B
    <2>29. l.tree = y /\ l.node = p
        BY <2>7
    <2> HIDE DEF l
    <2>30. Tree(l.tree, S, top, pos, e, B) /\ SameElsewhere(t, l.tree, S)
        BY <2>24, <2>25, <2>29
    <2>31. l.node \in S /\ l.tree[l.node].parent = up
        BY <2>6, <2>27, <2>29
    <2>32. IF up = Null THEN B = {} ELSE Stale(l.tree, S, B, up)
        BY <1>7, <2>28, <2>29
    <2>33. LevelDone(t, S, pos, A, n, up, l)
        BY <2>30, <2>31, <2>32 DEF LevelDone
    <2>34. QED
        BY <2>33 DEF l
<1>12. QED
    BY <1>10, <1>11

\* What holds after every round of the loop: the stale nodes are those above the
\* node reached, and there are none when it is the root.
Restoring(t, S, pos, A, l) ==
    \E root, edge :
        /\ Tree(l.tree, S, root, pos, edge, A)
        /\ SameElsewhere(t, l.tree, S)
        /\ l.node \in S
        /\ LET up == l.tree[l.node].parent
           IN  IF up = Null THEN A = {} ELSE Stale(l.tree, S, A, up)

\* The state of the loop.
Level(t, S) == [tree : [DOMAIN t -> NodeType(DOMAIN t)], node : S]

NextLevel(l) ==
    LET up == l.tree[l.node].parent
    IN  IF up = Null THEN l ELSE RestoreLevel(l.tree, up)

LEMMA RestoringLevel ==
    ASSUME NEW t, NEW S, NEW pos, NEW A, NEW l, Restoring(t, S, pos, A, l),
           l = [tree |-> l.tree, node |-> l.node]
    PROVE  l \in Level(t, S)
<1>1. PICK root, edge : Tree(l.tree, S, root, pos, edge, A)
                        /\ SameElsewhere(t, l.tree, S) /\ l.node \in S
    BY DEF Restoring
<1>2. DOMAIN l.tree = DOMAIN t /\ IsTree(l.tree)
    BY <1>1 DEF Tree, Linked, SameElsewhere
<1>3. l.tree \in [DOMAIN t -> NodeType(DOMAIN t)]
    BY <1>2 DEF IsTree
<1>4. QED
    BY <1>1, <1>3 DEF Level

LEMMA SameElsewhereTwice ==
    ASSUME NEW t, NEW u, NEW v, NEW S, SameElsewhere(t, u, S), SameElsewhere(u, v, S)
    PROVE  SameElsewhere(t, v, S)
BY DEF SameElsewhere, Fields

LEMMA RestoreLevelForm ==
    ASSUME NEW t, NEW n
    PROVE  LET l == RestoreLevel(t, n) IN l = [tree |-> l.tree, node |-> l.node]
<1> DEFINE v == recalculate(t, n)
           side == CHOOSE s \in Heavy(v, n) : TRUE
<1>1. RestoreLevel(t, n) = check_and_restore_balance_of_level(v, n)
    BY DEF RestoreLevel
<1> HIDE DEF v
<1>2. CASE Heavy(v, n) = {}
    BY <1>1, <1>2 DEF check_and_restore_balance_of_level
<1>3. CASE Heavy(v, n) # {}
    <2>1. RestoreLevel(t, n) = [tree |-> rotate(v, n, side, TRUE), node |-> v[n][side]]
        BY <1>1, <1>3 DEF check_and_restore_balance_of_level
    <2>2. QED
        BY <2>1
<1>4. QED
    BY <1>2, <1>3

\* One more round: either the way up has ended, or one stale node fewer is left.
RoundDone(t, S, pos, A, l) ==
    LET up == l.tree[l.node].parent
    IN  /\ NextLevel(l) \in Level(t, S)
        /\ up = Null => A = {} /\ NextLevel(l) = l
        /\ up # Null => up \in A /\ Restoring(t, S, pos, A \ {up}, NextLevel(l))

LEMMA NextLevelResult ==
    ASSUME NEW t, NEW S, NEW pos, NEW A, NEW l \in Level(t, S), Restoring(t, S, pos, A, l)
    PROVE  RoundDone(t, S, pos, A, l)
<1> DEFINE u == l.tree
           up == u[l.node].parent
           m == NextLevel(l)
<1>1. PICK root, edge :
        /\ Tree(u, S, root, pos, edge, A) /\ SameElsewhere(t, u, S) /\ l.node \in S
        /\ IF up = Null THEN A = {} ELSE Stale(u, S, A, up)
    BY DEF Restoring
<1>2. CASE up = Null
    BY <1>1, <1>2 DEF NextLevel, RoundDone
<1>3. CASE up # Null
    <2>1. Stale(u, S, A, up) /\ up \in A
        BY <1>1, <1>3 DEF Stale
    <2>2. m = RestoreLevel(u, up)
        BY <1>3 DEF NextLevel
    <2>3. m = [tree |-> m.tree, node |-> m.node]
        BY <2>2, RestoreLevelForm
    <2> DEFINE over == u[up].parent
    <2> HIDE DEF u, up, m
    <2>4. LevelDone(u, S, pos, A, up, over, m)
        <3>1. Tree(u, S, root, pos, edge, A) /\ over = u[up].parent
            BY <1>1
        <3> HIDE DEF over
        <3>2. QED
            BY <2>1, <2>2, <3>1, LevelResult
    <2> HIDE DEF over
    <2>5. Restoring(t, S, pos, A \ {up}, m)
        <3>1. PICK root2, edge2 :
                /\ Tree(m.tree, S, root2, pos, edge2, A \ {up})
                /\ SameElsewhere(u, m.tree, S)
                /\ m.node \in S /\ m.tree[m.node].parent = over
                /\ IF over = Null THEN A \ {up} = {} ELSE Stale(m.tree, S, A \ {up}, over)
            BY <2>4 DEF LevelDone
        <3>2. SameElsewhere(t, m.tree, S)
            BY <1>1, <3>1, SameElsewhereTwice
        <3>3. QED
            BY <3>1, <3>2 DEF Restoring
    <2>6. m \in Level(t, S)
        BY <2>3, <2>5, RestoringLevel
    <2>7. QED
        BY <1>3, <2>1, <2>5, <2>6 DEF up, m, u, RoundDone
<1>4. QED
    BY <1>2, <1>3

\* The function of the loop starts with the lowest node and goes on as the code.
LEMMA LevelsAre ==
    ASSUME NEW t, NEW S, NEW root, NEW pos, NEW edge, NEW A, NEW n,
           Tree(t, S, root, pos, edge, A), Stale(t, S, A, n)
    PROVE  LET level == RestoreLevels(t, n)
           IN  /\ level[0] = RestoreLevel(t, n)
               /\ \A k \in Nat : level[k + 1] = NextLevel(level[k])
<1> DEFINE first == RestoreLevel(t, n)
           X == {l \in Level(t, S) : \E B : Restoring(t, S, pos, B, l)}
           F == [l \in X |-> NextLevel(l)]
           Body(g) == [k \in Nat |->
                        IF k = 0 THEN RestoreLevel(t, n)
                        ELSE LET below == g[k - 1]
                                 up    == below.tree[below.node].parent
                             IN  IF up = Null THEN below ELSE RestoreLevel(below.tree, up)]
           level == RestoreLevels(t, n)
<1>1. level = CHOOSE g : g = Body(g)
    BY DEF RestoreLevels
<1>2. first \in X
    <2> DEFINE up == t[n].parent
    <2>1. LevelDone(t, S, pos, A, n, up, first)
        BY LevelResult
    <2>2. first = [tree |-> first.tree, node |-> first.node]
        BY RestoreLevelForm
    <2> HIDE DEF first, up
    <2>3. Restoring(t, S, pos, A \ {n}, first)
        BY <2>1 DEF LevelDone, Restoring
    <2>4. first \in Level(t, S)
        BY <2>2, <2>3, RestoringLevel
    <2>5. QED
        BY <2>3, <2>4
<1>3. F \in [X -> X]
    <2>1. ASSUME NEW l \in X PROVE NextLevel(l) \in X
        <3>1. PICK B : Restoring(t, S, pos, B, l)
            OBVIOUS
        <3> DEFINE up == l.tree[l.node].parent
        <3>2. /\ NextLevel(l) \in Level(t, S)
              /\ up = Null => B = {} /\ NextLevel(l) = l
              /\ up # Null => up \in B /\ Restoring(t, S, pos, B \ {up}, NextLevel(l))
            BY <3>1, NextLevelResult DEF RoundDone
        <3> HIDE DEF up
        <3>3. QED
            BY <3>1, <3>2
    <2>2. QED
        BY <2>1
<1> HIDE DEF first, X, F
<1>4. PICK f : f \in [Nat -> X] /\ f[0] = first /\ \A k \in Nat : f[k + 1] = F[f[k]]
    <2>1. PICK f : Iterates(f, X, F, first)
        BY <1>2, <1>3, IterationExists
    <2>2. QED
        BY <2>1 DEF Iterates
<1>5. f = Body(f)
    <2>1. ASSUME NEW k \in Nat PROVE f[k] = Body(f)[k]
        <3>1. CASE k = 0
            BY <1>4, <3>1 DEF first
        <3>2. CASE k # 0
            <4> DEFINE j == k - 1
            <4>1. j \in Nat /\ j + 1 = k
                BY <3>2
            <4> HIDE DEF j
            <4>2. f[k] = NextLevel(f[j])
                BY <1>4, <4>1 DEF F
            <4>3. Body(f)[k] = NextLevel(f[j])
                BY <3>2 DEF j, NextLevel
            <4>4. QED
                BY <4>2, <4>3
        <3>3. QED
            BY <3>1, <3>2
    <2> HIDE DEF Body
    <2>2. DOMAIN Body(f) = Nat /\ Body(f) = [k \in Nat |-> Body(f)[k]]
        BY DEF Body
    <2>3. QED
        BY <1>4, <2>1, <2>2
<1>6. level = Body(level)
    <2> HIDE DEF Body, level
    <2>1. QED
        BY <1>1, <1>5
<1> HIDE DEF level
<1>7. level[0] = first
    <2>1. Body(level)[0] = first
        BY DEF first
    <2> HIDE DEF Body
    <2>2. QED
        BY <1>6, <2>1
<1>8. ASSUME NEW k \in Nat PROVE level[k + 1] = NextLevel(level[k])
    <2>1. k + 1 # 0 /\ k + 1 \in Nat /\ (k + 1) - 1 = k
        OBVIOUS
    <2>2. Body(level)[k + 1] = NextLevel(level[k])
        BY <2>1 DEF NextLevel
    <2> HIDE DEF Body
    <2>3. QED
        BY <1>6, <2>2
<1>9. QED
    BY <1>7, <1>8 DEF level, first

\* restore_height_size_and_balance_of_tree, called on the lowest node whose fields
\* are out of date, on a tree where all nodes above it may be and no others are,
\* ends within as many rounds as the memory has nodes; whatever rotations it makes,
\* it keeps every node and the order they are in, all sizes and heights are right
\* afterwards, the node returned is the root, and other trees are left alone.
THEOREM RestoreKeepsOrder ==
    ASSUME NEW t, IsFiniteSet(DOMAIN t), NEW S, NEW root, NEW pos, NEW edge, NEW A, NEW n,
           Tree(t, S, root, pos, edge, A), Stale(t, S, A, n)
    PROVE  LET top == restore_height_size_and_balance_of_tree(t, n)
           IN  /\ \E edge2 : Tree(top.tree, S, top.node, pos, edge2, {})
               /\ SameElsewhere(t, top.tree, S)
               /\ top.tree[top.node].parent = Null
<1> DEFINE level == RestoreLevels(t, n)
           N == Cardinality(DOMAIN t)
           Ended(k) == level[k].tree[level[k].node].parent = Null
           Left(k, B) == /\ level[k] \in Level(t, S)
                         /\ Restoring(t, S, pos, B, level[k])
                         /\ IsFiniteSet(B)
                         /\ B = {} \/ Cardinality(B) + k < N
           K == {k \in Nat : \E B : Left(k, B)}
           top == restore_height_size_and_balance_of_tree(t, n)
<1>1. level[0] = RestoreLevel(t, n) /\ \A k \in Nat : level[k + 1] = NextLevel(level[k])
    BY LevelsAre
<1> HIDE DEF level
<1>2. N \in Nat /\ IsFiniteSet(A) /\ Cardinality(A) <= N /\ n \in A
    <2>1. A \subseteq DOMAIN t
        BY DEF Stale, Tree, Linked
    <2>2. QED
        BY <2>1, FS_CardinalityType, FS_Subset DEF Stale
<1>3. 0 \in K
    <2> DEFINE first == RestoreLevel(t, n)
               up == t[n].parent
    <2>1. LevelDone(t, S, pos, A, n, up, first)
        BY LevelResult
    <2>2. first = [tree |-> first.tree, node |-> first.node]
        BY RestoreLevelForm
    <2> HIDE DEF first, up
    <2>3. Restoring(t, S, pos, A \ {n}, first)
        BY <2>1 DEF LevelDone, Restoring
    <2>4. first \in Level(t, S)
        BY <2>2, <2>3, RestoringLevel
    <2>5. IsFiniteSet(A \ {n}) /\ Cardinality(A \ {n}) = Cardinality(A) - 1
        BY <1>2, FS_RemoveElement
    <2>6. Cardinality(A) \in Nat
        BY <1>2, FS_CardinalityType
    <2> DEFINE c == Cardinality(A)
               d == Cardinality(A \ {n})
    <2>7. c \in Nat /\ d = c - 1 /\ c <= N
        BY <1>2, <2>5, <2>6
    <2> HIDE DEF N, c, d
    <2>8. d + 0 < N
        BY <1>2, <2>7
    <2>9. Left(0, A \ {n})
        BY <1>1, <2>3, <2>4, <2>5, <2>8 DEF first, d
    <2>10. QED
        BY <2>9
<1>4. ASSUME NEW k \in Nat, k \in K PROVE k + 1 \in K
    <2>1. PICK B : Left(k, B)
        BY <1>4
    <2> DEFINE l == level[k]
               up == l.tree[l.node].parent
    <2>2. /\ NextLevel(l) \in Level(t, S)
          /\ up = Null => B = {} /\ NextLevel(l) = l
          /\ up # Null => up \in B /\ Restoring(t, S, pos, B \ {up}, NextLevel(l))
        <3>1. l \in Level(t, S) /\ Restoring(t, S, pos, B, l)
            BY <2>1
        <3> HIDE DEF l
        <3>2. RoundDone(t, S, pos, B, l)
            BY <3>1, NextLevelResult
        <3>3. QED
            BY <3>2 DEF RoundDone
    <2>3. level[k + 1] = NextLevel(l)
        BY <1>1
    <2> HIDE DEF up
    <2>4. CASE up = Null
        <3>1. Left(k + 1, B)
            BY <2>1, <2>2, <2>3, <2>4
        <3>2. QED
            BY <3>1
    <2>5. CASE up # Null
        <3>1. up \in B /\ Restoring(t, S, pos, B \ {up}, level[k + 1])
            BY <2>2, <2>3, <2>5
        <3>2. IsFiniteSet(B \ {up}) /\ Cardinality(B \ {up}) = Cardinality(B) - 1
              /\ Cardinality(B) \in Nat
            BY <2>1, <3>1, FS_RemoveElement, FS_CardinalityType
        <3> DEFINE c == Cardinality(B)
                   d == Cardinality(B \ {up})
        <3>3. c \in Nat /\ d = c - 1 /\ c + k < N
            BY <2>1, <3>1, <3>2
        <3> HIDE DEF N, c, d
        <3>4. d + (k + 1) < N
            BY <1>2, <3>3
        <3>5. Left(k + 1, B \ {up})
            BY <2>2, <2>3, <3>1, <3>2, <3>4 DEF d
        <3>6. QED
            BY <3>5
    <2>6. QED
        BY <2>4, <2>5
<1>5. Nat \subseteq K
    <2> HIDE DEF K
    <2>1. QED
        BY <1>3, <1>4, SetInduction
<1>6. ASSUME NEW k \in Nat PROVE \E B : Left(k, B)
    BY <1>5
<1> HIDE DEF K
<1>7. ASSUME NEW k \in Nat, NEW B, Left(k, B)
      PROVE  Ended(k) <=> B = {}
    <2>1. LET up == level[k].tree[level[k].node].parent
          IN  IF up = Null THEN B = {} ELSE Stale(level[k].tree, S, B, up)
        BY <1>7 DEF Restoring
    <2>2. QED
        BY <2>1 DEF Stale
<1>8. N \in Rounds(t) /\ Ended(N)
    <2>1. PICK B : Left(N, B)
        BY <1>2, <1>6
    <2>2. B # {} => Cardinality(B) \in Nat /\ Cardinality(B) + N < N
        BY <2>1, FS_CardinalityType
    <2> DEFINE c == Cardinality(B)
    <2>3. B # {} => c \in Nat /\ c + N < N
        BY <2>2
    <2>4. N \in Rounds(t)
        BY <1>2 DEF Rounds
    <2> HIDE DEF N, c
    <2>5. B = {}
        BY <1>2, <2>3
    <2>6. Ended(N)
        BY <1>2, <1>7, <2>1, <2>5
    <2>7. QED
        BY <2>4, <2>6
<1>9. PICK k \in Nat : Ended(k) /\ top = level[k]
    <2> DEFINE k == CHOOSE k \in Rounds(t) : Ended(k)
    <2>1. k \in Rounds(t) /\ Ended(k)
        BY <1>8
    <2>2. Rounds(t) \subseteq Nat
        BY <1>2 DEF Rounds
    <2>3. top = level[k]
        BY DEF restore_height_size_and_balance_of_tree, LevelOfRoot, level
    <2>4. QED
        BY <2>1, <2>2, <2>3
<1> HIDE DEF top
<1>10. PICK B : Left(k, B)
    BY <1>6
<1>11. B = {}
    BY <1>7, <1>9, <1>10
<1>12. PICK root2, edge2 : Tree(top.tree, S, root2, pos, edge2, {})
                           /\ SameElsewhere(t, top.tree, S) /\ top.node \in S
    BY <1>9, <1>10, <1>11 DEF Restoring
<1>13. top.tree[top.node].parent = Null
    BY <1>9
<1>14. root2 = top.node
    BY <1>12, <1>13 DEF Tree, Linked
<1>15. QED
    BY <1>12, <1>13, <1>14 DEF top
=============================================================================
