-------------------------- MODULE AvlTreeListProofs ---------------------------
(***************************************************************************)
(* Theorems about the tree of the list as a list: what getIndex,           *)
(* getByIndex, forward, backward and go_to return, what resetInvariant,    *)
(* insert_before and delete_and_get_next do to the order, for every tree.  *)
(***************************************************************************)
EXTENDS AvlTreeProofs

-----------------------------------------------------------------------------
(* Positions                                                                 *)

\* A walk on which a measure grows stands still within as many steps as there are places.
LEMMA Arrives ==
    ASSUME NEW D, IsFiniteSet(D), NEW f \in [Nat -> D], NEW w \in [D -> Int],
           \A k \in Nat : f[k + 1] # f[k] => w[f[k]] < w[f[k + 1]]
    PROVE  \E k \in 0 .. Cardinality(D) : f[k + 1] = f[k]
<1> DEFINE N == Cardinality(D)
           g == [k \in 0 .. N |-> f[k]]
<1> SUFFICES ASSUME \A k \in 0 .. N : f[k + 1] # f[k] PROVE FALSE
    OBVIOUS
<1>1. N \in Nat
    BY FS_CardinalityType
<1> HIDE DEF N
<1>2. ASSUME NEW k \in 0 .. N
      PROVE  w[f[k]] \in Int /\ w[f[k + 1]] \in Int /\ w[f[k]] < w[f[k + 1]]
    <2>1. k \in Nat /\ k + 1 \in Nat
        BY <1>1
    <2>2. QED
        BY <2>1
<1>3. IsFiniteSet(0 .. N) /\ Cardinality(0 .. N) = N + 1
    BY <1>1, FS_Interval
<1>4. g \in [0 .. N -> D]
    BY <1>1
<1>5. Cardinality(D) < Cardinality(0 .. N)
    BY <1>1, <1>3 DEF N
<1> HIDE DEF g
<1>6. \E x, y \in 0 .. N : x # y /\ g[x] = g[y]
    <2> DEFINE I == 0 .. N
    <2>1. IsFiniteSet(I) /\ Cardinality(D) < Cardinality(I) /\ g \in [I -> D]
        BY <1>3, <1>4, <1>5
    <2> HIDE DEF I
    <2>2. \E x, y \in I : x # y /\ g[x] = g[y]
        BY ONLY IsFiniteSet(D), <2>1, FS_PigeonHole, ZenonT(30)
    <2>3. QED
        BY <2>2 DEF I
<1>7. PICK x \in 0 .. N, y \in 0 .. N : x < y /\ f[x] = f[y]
    <2>1. PICK x \in 0 .. N, y \in 0 .. N : x # y /\ g[x] = g[y]
        BY <1>6
    <2>2. f[x] = f[y] /\ (x < y \/ y < x)
        BY <1>1, <2>1 DEF g
    <2>3. QED
        BY <2>2
<1> DEFINE T == {d \in Nat : x + d + 1 <= N + 1 => w[f[x]] < w[f[x + d + 1]]}
<1>8. 0 \in T
    BY <1>1, <1>2
<1>9. ASSUME NEW d \in Nat, d \in T PROVE d + 1 \in T
    <2> SUFFICES ASSUME x + (d + 1) + 1 <= N + 1
                 PROVE  w[f[x]] < w[f[x + (d + 1) + 1]]
        OBVIOUS
    <2> DEFINE z == x + d + 1
    <2>1. z \in 0 .. N /\ x + (d + 1) + 1 = z + 1 /\ x + d + 1 <= N + 1
        BY <1>1
    <2>2. w[f[x]] < w[f[z]]
        BY <1>9, <2>1
    <2> HIDE DEF z
    <2>3. w[f[z]] < w[f[z + 1]] /\ w[f[z]] \in Int /\ w[f[z + 1]] \in Int
        BY <1>2, <2>1
    <2>4. w[f[x]] \in Int
        BY <1>2
    <2>5. w[f[x]] < w[f[z + 1]]
        BY <2>2, <2>3, <2>4
    <2>6. QED
        BY <2>1, <2>5
<1> HIDE DEF T
<1>10. Nat \subseteq T
    BY <1>8, <1>9, SetInduction
<1> DEFINE e == y - x - 1
<1>11. e \in Nat /\ x + e + 1 = y /\ y <= N + 1
    BY <1>1, <1>7
<1> HIDE DEF e
<1>12. w[f[x]] < w[f[y]]
    <2>1. e \in T
        BY <1>10, <1>11
    <2>2. QED
        BY <1>11, <2>1 DEF T
<1>13. QED
    BY <1>2, <1>7, <1>12

\* How far a node lies from its child.
LEMMA PathSizes ==
    ASSUME NEW t, NEW S, NEW root, NEW pos, NEW edge, Tree(t, S, root, pos, edge, {}),
           NEW n \in S
    PROVE  /\ pos[n] \in Int /\ edge[n]["left"] \in Int /\ edge[n]["right"] \in Int
           /\ edge[n]["left"] < pos[n] /\ pos[n] < edge[n]["right"]
           /\ left_subtree_size(t, n) = pos[n] - edge[n]["left"] - 1
           /\ t[n].left # Null =>
                /\ t[n].left \in S /\ t[t[n].left].parent = n
                /\ edge[t[n].left]["left"] = edge[n]["left"]
                /\ edge[t[n].left]["right"] = pos[n]
                /\ left_path_size(t, n) = pos[n] - pos[t[n].left]
           /\ t[n].right # Null =>
                /\ t[n].right \in S /\ t[t[n].right].parent = n
                /\ edge[t[n].right]["left"] = pos[n]
                /\ edge[t[n].right]["right"] = edge[n]["right"]
                /\ right_path_size(t, n) = pos[t[n].right] - pos[n]
<1>1. "left" \in Sides /\ "right" \in Sides
    BY DEF Sides
<1>2. Linked(t, S, root) /\ Ordered(t, S, pos, edge) /\ Counted(t, S, edge, {})
    BY DEF Tree
<1>3. ASSUME NEW m \in S
      PROVE  /\ pos[m] \in Int /\ edge[m]["left"] \in Int /\ edge[m]["right"] \in Int
             /\ edge[m]["left"] < pos[m] /\ pos[m] < edge[m]["right"]
             /\ left_subtree_size(t, m) = pos[m] - edge[m]["left"] - 1
             /\ right_subtree_size(t, m) = edge[m]["right"] - pos[m] - 1
    <2>1. /\ pos[m] \in Int /\ edge[m]["left"] \in Int /\ edge[m]["right"] \in Int
          /\ edge[m]["left"] < pos[m] /\ pos[m] < edge[m]["right"]
        BY <1>1, <1>2 DEF Ordered
    <2>2. size(t, t[m].left) = pos[m] - edge[m]["left"] - 1
        BY <1>2, ChildSizes
    <2>3. size(t, m) = edge[m]["right"] - edge[m]["left"] - 1
        BY <1>2 DEF size, Counted, Width, Linked, IsTree
    <2> DEFINE a == pos[m]  b == edge[m]["left"]  c == edge[m]["right"]
               x == size(t, t[m].left)  y == size(t, m)
    <2>4. a \in Int /\ b \in Int /\ c \in Int /\ x = a - b - 1 /\ y = c - b - 1
        BY <2>1, <2>2, <2>3
    <2>5. left_subtree_size(t, m) = x /\ right_subtree_size(t, m) = y - x - 1
        BY DEF left_subtree_size, right_subtree_size
    <2> HIDE DEF x, y
    <2>6. right_subtree_size(t, m) = c - a - 1
        <3> HIDE DEF a, b, c
        <3>1. QED
            BY <2>4, <2>5
    <2>7. QED
        BY <2>1, <2>2, <2>5, <2>6 DEF x
<1>4. t[n].left # Null =>
        /\ t[n].left \in S /\ t[t[n].left].parent = n
        /\ edge[t[n].left]["left"] = edge[n]["left"]
        /\ edge[t[n].left]["right"] = pos[n]
        /\ left_path_size(t, n) = pos[n] - pos[t[n].left]
    <2> SUFFICES ASSUME t[n].left # Null
                 PROVE  /\ t[n].left \in S /\ t[t[n].left].parent = n
                        /\ edge[t[n].left]["left"] = edge[n]["left"]
                        /\ edge[t[n].left]["right"] = pos[n]
                        /\ left_path_size(t, n) = pos[n] - pos[t[n].left]
        OBVIOUS
    <2> DEFINE c == t[n]["left"]
    <2>1. c \in S /\ t[c].parent = n
        BY <1>1, <1>2 DEF Linked
    <2>2. edge[c]["left"] = edge[n]["left"] /\ edge[c]["right"] = pos[n]
        BY <1>1, <1>2, OppositeSide DEF Ordered
    <2>3. left_path_size(t, n) = left_subtree_size(t, n) - left_subtree_size(t, c)
        BY DEF left_path_size
    <2>4. left_path_size(t, n) = (pos[n] - edge[n]["left"] - 1) - (pos[c] - edge[c]["left"] - 1)
        BY <1>3, <2>1, <2>3
    <2>5. left_path_size(t, n) = pos[n] - pos[c]
        <3> DEFINE a == pos[n]  b == edge[n]["left"]  d == pos[c]
        <3>1. a \in Int /\ b \in Int /\ d \in Int
            BY <1>3, <2>1
        <3>2. left_path_size(t, n) = (a - b - 1) - (d - b - 1)
            BY <2>2, <2>4
        <3> HIDE DEF a, b, d
        <3>3. left_path_size(t, n) = a - d
            BY <3>1, <3>2
        <3>4. QED
            BY <3>3 DEF a, d
    <2>6. QED
        BY <2>1, <2>2, <2>5
<1>5. t[n].right # Null =>
        /\ t[n].right \in S /\ t[t[n].right].parent = n
        /\ edge[t[n].right]["left"] = pos[n]
        /\ edge[t[n].right]["right"] = edge[n]["right"]
        /\ right_path_size(t, n) = pos[t[n].right] - pos[n]
    <2> SUFFICES ASSUME t[n].right # Null
                 PROVE  /\ t[n].right \in S /\ t[t[n].right].parent = n
                        /\ edge[t[n].right]["left"] = pos[n]
                        /\ edge[t[n].right]["right"] = edge[n]["right"]
                        /\ right_path_size(t, n) = pos[t[n].right] - pos[n]
        OBVIOUS
    <2> DEFINE c == t[n]["right"]
    <2>1. c \in S /\ t[c].parent = n
        BY <1>1, <1>2 DEF Linked
    <2>2. edge[c]["right"] = edge[n]["right"] /\ edge[c]["left"] = pos[n]
        BY <1>1, <1>2, OppositeSide DEF Ordered
    <2>3. right_path_size(t, n) = right_subtree_size(t, n) - right_subtree_size(t, c)
        BY DEF right_path_size
    <2>4. right_path_size(t, n) = (edge[n]["right"] - pos[n] - 1) - (edge[c]["right"] - pos[c] - 1)
        BY <1>3, <2>1, <2>3
    <2>5. right_path_size(t, n) = pos[c] - pos[n]
        <3> DEFINE a == pos[n]  b == edge[n]["right"]  d == pos[c]
        <3>1. a \in Int /\ b \in Int /\ d \in Int
            BY <1>3, <2>1
        <3>2. right_path_size(t, n) = (b - a - 1) - (b - d - 1)
            BY <2>2, <2>4
        <3> HIDE DEF a, b, d
        <3>3. right_path_size(t, n) = d - a
            BY <3>1, <3>2
        <3>4. QED
            BY <3>3 DEF a, d
    <2>6. QED
        BY <2>1, <2>2, <2>5
<1>6. QED
    BY <1>3, <1>4, <1>5

\* The subtree of n lies within that of m.
Within(edge, n, m) ==
    edge[m]["left"] <= edge[n]["left"] /\ edge[n]["right"] <= edge[m]["right"]

\* A step of the way up from n: the accumulator is how far the node reached lies
\* from n, and n lies within the subtree of that node.
UpFrom(S, pos, edge, n) ==
    {place \in [node : S, accumulator : Int] :
        /\ place.accumulator = pos[place.node] - pos[n]
        /\ Within(edge, n, place.node)}

NextUp(t, below) ==
    LET up == t[below.node].parent
    IN  IF up = Null THEN below
        ELSE [node |-> up,
              accumulator |-> below.accumulator +
                (IF child_type(t, below.node) = "left" THEN left_path_size(t, up)
                                                       ELSE -right_path_size(t, up))]

LEMMA NextUpResult ==
    ASSUME NEW t, NEW S, NEW root, NEW pos, NEW edge, Tree(t, S, root, pos, edge, {}),
           NEW n \in S, NEW place \in UpFrom(S, pos, edge, n)
    PROVE  /\ NextUp(t, place) \in UpFrom(S, pos, edge, n)
           /\ t[place.node].parent = Null => NextUp(t, place) = place
           /\ t[place.node].parent # Null =>
                /\ NextUp(t, place).node = t[place.node].parent
                /\ \E side \in Sides : t[t[place.node].parent][side] = place.node
                /\ Width(edge, place.node) < Width(edge, t[place.node].parent)
                /\ t[place.node].parent # place.node
<1> DEFINE c == place.node
           up == t[c].parent
           next == NextUp(t, place)
<1>1. /\ c \in S /\ place.accumulator = pos[c] - pos[n] /\ place.accumulator \in Int
      /\ edge[c]["left"] <= edge[n]["left"] /\ edge[n]["right"] <= edge[c]["right"]
    BY DEF UpFrom, Within
<1>2. Linked(t, S, root) /\ Ordered(t, S, pos, edge)
    BY DEF Tree
<1>3. CASE up = Null
    BY <1>3 DEF NextUp
<1>4. CASE up # Null
    <2>1. up \in S /\ \E side \in Sides : t[up][side] = c
        BY <1>1, <1>2, <1>4 DEF Linked
    <2>2. c # Null
        BY <1>1, <1>2 DEF Linked, IsTree
    <2>3. /\ Width(edge, c) < Width(edge, up) /\ c # up
          /\ \A side \in Sides : t[up][side] = c => t[up][Opposite(side)] # c
        <3>1. PICK side \in Sides : t[up][side] = c
            BY <2>1
        <3>2. Width(edge, t[up][side]) < Width(edge, up) /\ t[up][side] # up
            BY <1>2, <2>1, <2>2, <3>1, ChildNarrower
        <3>3. \A s \in Sides : t[up][s] = c => t[up][s] # t[up][Opposite(s)]
            BY <1>2, <2>1, <2>2, ChildNarrower
        <3>4. QED
            BY <3>1, <3>2, <3>3
    <2>4. /\ pos[up] \in Int /\ edge[up]["left"] \in Int /\ edge[up]["right"] \in Int
          /\ edge[up]["left"] < pos[up] /\ pos[up] < edge[up]["right"]
          /\ t[up].left # Null =>
                /\ edge[t[up].left]["left"] = edge[up]["left"]
                /\ edge[t[up].left]["right"] = pos[up]
                /\ left_path_size(t, up) = pos[up] - pos[t[up].left]
          /\ t[up].right # Null =>
                /\ edge[t[up].right]["left"] = pos[up]
                /\ edge[t[up].right]["right"] = edge[up]["right"]
                /\ right_path_size(t, up) = pos[t[up].right] - pos[up]
        BY <2>1, PathSizes
    <2>5. /\ pos[c] \in Int /\ pos[n] \in Int /\ place.accumulator \in Int
          /\ edge[n]["left"] \in Int /\ edge[n]["right"] \in Int
        BY <1>1, PathSizes
    <2> DEFINE d == IF child_type(t, c) = "left" THEN left_path_size(t, up)
                                                 ELSE -right_path_size(t, up)
    <2>6. /\ d = pos[up] - pos[c]
          /\ edge[up]["left"] <= edge[n]["left"] /\ edge[n]["right"] <= edge[up]["right"]
        <3>1. CASE t[up].left = c
            <4>1. child_type(t, c) = "left"
                BY <3>1 DEF child_type
            <4>2. d = pos[up] - pos[c]
                BY <2>2, <2>4, <3>1, <4>1
            <4>3. edge[c]["left"] = edge[up]["left"] /\ edge[c]["right"] = pos[up]
                BY <2>2, <2>4, <3>1
            <4>4. QED
                BY <1>1, <2>4, <2>5, <4>2, <4>3
        <3>2. CASE t[up].left # c
            <4>1. t[up].right = c
                BY <2>1, <3>2 DEF Sides
            <4>2. child_type(t, c) = "right"
                BY <3>2 DEF child_type
            <4>3. /\ right_path_size(t, up) = pos[c] - pos[up]
                  /\ edge[c]["left"] = pos[up] /\ edge[c]["right"] = edge[up]["right"]
                BY <2>2, <2>4, <4>1
            <4>4. d = pos[up] - pos[c]
                <5>1. d = -(pos[c] - pos[up])
                    BY <4>2, <4>3
                <5> DEFINE a == pos[c]  b == pos[up]
                <5>2. a \in Int /\ b \in Int /\ d = -(a - b)
                    BY <2>4, <2>5, <5>1
                <5> HIDE DEF a, b, d
                <5>3. d = b - a
                    BY <5>2
                <5>4. QED
                    BY <5>3 DEF a, b
            <4>5. QED
                BY <1>1, <2>4, <2>5, <4>3, <4>4
        <3>3. QED
            BY <3>1, <3>2
    <2>7. next = [node |-> up, accumulator |-> place.accumulator + d]
        BY <1>4 DEF NextUp
    <2> HIDE DEF d
    <2>8. next.node = up /\ next.accumulator = place.accumulator + d
        BY <2>7
    <2>9. place.accumulator + d = pos[up] - pos[n] /\ place.accumulator + d \in Int
        <3> DEFINE a == pos[c]  b == pos[up]  z == pos[n]  acc == place.accumulator
        <3>1. a \in Int /\ b \in Int /\ z \in Int /\ acc = a - z /\ d = b - a
            BY <1>1, <2>4, <2>5, <2>6
        <3> HIDE DEF a, b, z, acc
        <3>2. acc + d = b - z /\ acc + d \in Int
            BY <3>1
        <3>3. QED
            BY <3>2 DEF b, z, acc
    <2>10. next \in [node : S, accumulator : Int]
        BY <2>1, <2>7, <2>9
    <2> HIDE DEF next
    <2>11. next \in UpFrom(S, pos, edge, n)
        BY <2>6, <2>8, <2>9, <2>10 DEF UpFrom, Within
    <2>12. QED
        BY <1>4, <2>1, <2>3, <2>8, <2>11 DEF next
<1>5. QED
    BY <1>3, <1>4

LEMMA IndexWayIs ==
    ASSUME NEW t, NEW S, NEW root, NEW pos, NEW edge, Tree(t, S, root, pos, edge, {}),
           NEW n \in S
    PROVE  LET at == IndexWay(t, n)
           IN  /\ at[0] = [node |-> n, accumulator |-> 0]
               /\ \A k \in Nat : /\ at[k] \in UpFrom(S, pos, edge, n)
                                 /\ at[k + 1] = NextUp(t, at[k])
<1> DEFINE first == [node |-> n, accumulator |-> 0]
           X == UpFrom(S, pos, edge, n)
           F == [place \in X |-> NextUp(t, place)]
           Body(g) == [k \in Nat |->
                IF k = 0 THEN [node |-> n, accumulator |-> 0]
                ELSE LET below == g[k - 1]
                         up    == t[below.node].parent
                     IN  IF up = Null THEN below
                         ELSE [node |-> up,
                               accumulator |-> below.accumulator +
                                 (IF child_type(t, below.node) = "left" THEN left_path_size(t, up)
                                                                        ELSE -right_path_size(t, up))]]
           at == IndexWay(t, n)
<1>1. at = CHOOSE g : g = Body(g)
    BY DEF IndexWay
<1>2. first \in X
    <2>1. pos[n] \in Int /\ edge[n]["left"] \in Int /\ edge[n]["right"] \in Int
        BY PathSizes
    <2>2. pos[n] - pos[n] = 0
        BY <2>1
    <2>3. Within(edge, n, n)
        BY <2>1 DEF Within
    <2>4. QED
        BY <2>2, <2>3 DEF UpFrom
<1>3. ASSUME NEW place \in X PROVE NextUp(t, place) \in X
    BY NextUpResult
<1>4. F \in [X -> X]
    BY <1>3
<1> HIDE DEF first, X, F
<1>5. PICK f : f \in [Nat -> X] /\ f[0] = first /\ \A k \in Nat : f[k + 1] = F[f[k]]
    <2>1. PICK f : Iterates(f, X, F, first)
        BY <1>2, <1>4, IterationExists
    <2>2. QED
        BY <2>1 DEF Iterates
<1>6. ASSUME NEW g, NEW k \in Nat
      PROVE  Body(g)[k] = (IF k = 0 THEN first ELSE NextUp(t, g[k - 1]))
    BY DEF NextUp, first
<1>7. \A g : Body(g) = [k \in Nat |-> Body(g)[k]]
    OBVIOUS
<1> HIDE DEF Body
<1>8. f = Body(f)
    <2>1. ASSUME NEW k \in Nat PROVE f[k] = Body(f)[k]
        <3>1. CASE k = 0
            BY <1>5, <1>6, <3>1
        <3>2. CASE k # 0
            <4>1. k - 1 \in Nat /\ (k - 1) + 1 = k
                BY <3>2
            <4>2. f[k] = NextUp(t, f[k - 1])
                BY <1>5, <4>1 DEF F
            <4>3. QED
                BY <1>6, <3>2, <4>2
        <3>3. QED
            BY <3>1, <3>2
    <2>2. QED
        BY <1>5, <1>7, <2>1
<1>9. at = Body(at)
    <2> HIDE DEF at
    <2>1. QED
        BY <1>1, <1>8
<1> HIDE DEF at
<1>10. at[0] = first
    BY <1>6, <1>9
<1>11. ASSUME NEW k \in Nat PROVE at[k + 1] = NextUp(t, at[k])
    <2>1. k + 1 # 0 /\ k + 1 \in Nat /\ (k + 1) - 1 = k
        OBVIOUS
    <2>2. Body(at)[k + 1] = NextUp(t, at[k])
        BY <1>6, <2>1
    <2>3. QED
        BY <1>9, <2>2
<1> DEFINE K == {k \in Nat : at[k] \in X}
<1>12. 0 \in K
    BY <1>2, <1>10
<1>13. ASSUME NEW k \in Nat, k \in K PROVE k + 1 \in K
    BY <1>3, <1>11, <1>13
<1> HIDE DEF K
<1>14. Nat \subseteq K
    BY <1>12, <1>13, SetInduction
<1>15. \A k \in Nat : at[k] \in X
    BY <1>14 DEF K
<1>16. QED
    BY <1>10, <1>11, <1>15 DEF at, X, first

\* The way up reaches the root.
LEMMA IndexWayEnds ==
    ASSUME NEW t, IsFiniteSet(DOMAIN t), NEW S, NEW root, NEW pos, NEW edge,
           Tree(t, S, root, pos, edge, {}), NEW n \in S
    PROVE  \E k \in Rounds(t) : t[IndexWay(t, n)[k].node].parent = Null
<1> DEFINE at == IndexWay(t, n)
           f == [k \in Nat |-> at[k].node]
           w == [m \in S |-> Width(edge, m)]
<1>1. \A k \in Nat : at[k] \in UpFrom(S, pos, edge, n) /\ at[k + 1] = NextUp(t, at[k])
    BY IndexWayIs
<1> HIDE DEF at
<1>2. S \subseteq DOMAIN t
    BY DEF Tree, Linked
<1>3. IsFiniteSet(S) /\ Cardinality(S) <= Cardinality(DOMAIN t)
      /\ Cardinality(S) \in Nat /\ Cardinality(DOMAIN t) \in Nat
    BY <1>2, FS_Subset, FS_CardinalityType
<1>4. f \in [Nat -> S]
    <2>1. ASSUME NEW k \in Nat PROVE at[k].node \in S
        BY <1>1 DEF UpFrom
    <2>2. QED
        BY <2>1
<1>5. w \in [S -> Int]
    <2>1. ASSUME NEW m \in S PROVE Width(edge, m) \in Int
        BY PathSizes DEF Width
    <2>2. QED
        BY <2>1
<1>6. ASSUME NEW k \in Nat
      PROVE  /\ f[k + 1] # f[k] => w[f[k]] < w[f[k + 1]]
             /\ f[k + 1] = f[k] => t[at[k].node].parent = Null
    <2> DEFINE place == at[k]
               up == t[place.node].parent
    <2>1. place \in UpFrom(S, pos, edge, n) /\ at[k + 1] = NextUp(t, place)
        BY <1>1
    <2>2. f[k] = place.node /\ f[k + 1] = NextUp(t, place).node
        BY <2>1
    <2>3. f[k] \in S /\ f[k + 1] \in S
        BY <1>4
    <2> HIDE DEF f, place
    <2>4. /\ up = Null => NextUp(t, place) = place
          /\ up # Null => /\ NextUp(t, place).node = up /\ up # place.node
                          /\ Width(edge, place.node) < Width(edge, up)
        BY <2>1, NextUpResult
    <2>5. CASE up = Null
        BY <2>2, <2>4, <2>5 DEF place
    <2>6. CASE up # Null
        BY <2>2, <2>3, <2>4, <2>6
    <2>7. QED
        BY <2>5, <2>6
<1> HIDE DEF f, w
<1>7. PICK k \in 0 .. Cardinality(S) : f[k + 1] = f[k]
    BY <1>3, <1>4, <1>5, <1>6, Arrives
<1>8. k \in Nat /\ k \in Rounds(t)
    BY <1>3 DEF Rounds
<1>9. t[at[k].node].parent = Null
    BY <1>6, <1>7, <1>8
<1>10. QED
    BY <1>8, <1>9 DEF at

\* getIndex: the index of a node is the number of nodes before it.
THEOREM IndexIsPosition ==
    ASSUME NEW t, IsFiniteSet(DOMAIN t), NEW S, NEW root, NEW pos, NEW edge,
           Tree(t, S, root, pos, edge, {}), NEW n \in S
    PROVE  getIndex(t, n) = pos[n] - edge[root]["left"] - 1
<1> DEFINE at == IndexWay(t, n)
           k == CHOOSE k \in Rounds(t) : t[at[k].node].parent = Null
           top == at[k]
<1>1. k \in Rounds(t) /\ t[top.node].parent = Null
    BY IndexWayEnds
<1>2. getIndex(t, n) = left_subtree_size(t, top.node) - top.accumulator
    BY DEF getIndex
<1> HIDE DEF k, at
<1>3. k \in Nat
    <2>1. Cardinality(DOMAIN t) \in Nat
        BY FS_CardinalityType
    <2>2. QED
        BY <1>1, <2>1 DEF Rounds
<1>4. top \in UpFrom(S, pos, edge, n)
    BY <1>3, IndexWayIs DEF at
<1> HIDE DEF top
<1>5. top.node \in S /\ top.accumulator = pos[top.node] - pos[n]
    BY <1>4 DEF UpFrom
<1>6. top.node = root
    BY <1>1, <1>5 DEF Tree, Linked
<1>7. /\ left_subtree_size(t, root) = pos[root] - edge[root]["left"] - 1
      /\ pos[root] \in Int /\ edge[root]["left"] \in Int /\ pos[n] \in Int
    BY <1>5, <1>6, PathSizes
<1> DEFINE a == pos[root]  b == edge[root]["left"]  c == pos[n]
<1>8. a \in Int /\ b \in Int /\ c \in Int /\ getIndex(t, n) = (a - b - 1) - (a - c)
    BY <1>2, <1>5, <1>6, <1>7
<1> HIDE DEF a, b, c
<1>9. getIndex(t, n) = c - b - 1
    BY <1>8
<1>10. QED
    BY <1>9 DEF b, c

\* The nodes on the way up from n: the parents of each are among them and, but for
\* n, a child; the subtree of each spans n.
Ways(t, S, edge, root, p, n, C) ==
    /\ C \subseteq S /\ n \in C /\ root \in C
    /\ \A m \in C : edge[m]["left"] < p /\ p < edge[m]["right"]
    /\ \A m \in C : Within(edge, n, m)
    /\ \A m \in C : t[m].parent \in C \cup {Null}
    /\ \A m \in C \ {n} : \E side \in Sides : t[m][side] \in C

LEMMA WayUp ==
    ASSUME NEW t, IsFiniteSet(DOMAIN t), NEW S, NEW root, NEW pos, NEW edge,
           Tree(t, S, root, pos, edge, {}), NEW n \in S
    PROVE  \E C : Ways(t, S, edge, root, pos[n], n, C)
<1> DEFINE at == IndexWay(t, n)
           C == {at[k].node : k \in Nat}
<1>1. at[0] = [node |-> n, accumulator |-> 0]
    BY IndexWayIs
<1>2. \A k \in Nat : at[k] \in UpFrom(S, pos, edge, n) /\ at[k + 1] = NextUp(t, at[k])
    BY IndexWayIs
<1>3. \E k \in Rounds(t) : t[at[k].node].parent = Null
    BY IndexWayEnds
<1> HIDE DEF at
<1>4. ASSUME NEW m \in C
      PROVE  /\ m \in S /\ Within(edge, n, m)
             /\ edge[m]["left"] < pos[n] /\ pos[n] < edge[m]["right"]
    <2>1. m \in S /\ Within(edge, n, m)
        BY <1>2 DEF UpFrom
    <2>2. /\ edge[m]["left"] \in Int /\ edge[m]["right"] \in Int
          /\ edge[n]["left"] \in Int /\ edge[n]["right"] \in Int /\ pos[n] \in Int
          /\ edge[n]["left"] < pos[n] /\ pos[n] < edge[n]["right"]
        BY <2>1, PathSizes
    <2>3. QED
        BY <2>1, <2>2 DEF Within
<1>5. n \in C
    BY <1>1
<1>6. root \in C
    <2>1. PICK k \in Rounds(t) : t[at[k].node].parent = Null
        BY <1>3
    <2>2. k \in Nat
        BY FS_CardinalityType DEF Rounds
    <2>3. at[k].node \in C /\ at[k].node \in S
        BY <1>2, <2>2 DEF UpFrom
    <2>4. at[k].node = root
        BY <2>1, <2>3 DEF Tree, Linked
    <2>5. QED
        BY <2>3, <2>4
<1>7. ASSUME NEW m \in C, m # n PROVE \E side \in Sides : t[m][side] \in C
    <2> DEFINE T == {k \in Nat : at[k].node = m}
    <2>1. T \subseteq Nat /\ T # {}
        OBVIOUS
    <2>2. PICK k \in T : \A j \in T : k <= j
        BY <2>1, Least
    <2>3. k \in Nat /\ at[k].node = m /\ k # 0
        BY <1>1, <1>7
    <2> DEFINE j == k - 1
               place == at[j]
    <2>4. j \in Nat /\ j + 1 = k /\ j \notin T
        BY <2>2, <2>3
    <2>5. place \in UpFrom(S, pos, edge, n) /\ at[k] = NextUp(t, place)
        BY <1>2, <2>4
    <2>6. place.node # m /\ place.node \in C
        BY <2>4
    <2> HIDE DEF place, j, C, T
    <2>7. t[place.node].parent # Null
        BY <2>3, <2>5, <2>6, NextUpResult
    <2>8. NextUp(t, place).node = t[place.node].parent
          /\ \E side \in Sides : t[t[place.node].parent][side] = place.node
        BY <2>5, <2>7, NextUpResult
    <2>9. QED
        BY <2>3, <2>5, <2>6, <2>8
<1>8. ASSUME NEW m \in C PROVE t[m].parent \in C \cup {Null}
    <2>1. PICK k \in Nat : m = at[k].node
        OBVIOUS
    <2> DEFINE place == at[k]
    <2>2. place \in UpFrom(S, pos, edge, n) /\ at[k + 1] = NextUp(t, place)
        BY <1>2
    <2>3. at[k + 1].node \in C
        OBVIOUS
    <2> HIDE DEF place, C
    <2>4. t[place.node].parent # Null => NextUp(t, place).node = t[place.node].parent
        BY <2>2, NextUpResult
    <2>5. QED
        BY <2>1, <2>2, <2>3, <2>4 DEF place
<1> HIDE DEF C
<1>9. Ways(t, S, edge, root, pos[n], n, C)
    BY <1>4, <1>5, <1>6, <1>7, <1>8 DEF Ways
<1>10. QED
    BY <1>9

\* A step of the way down to position p: left_index_border nodes lie left of the
\* subtree of the node reached, which spans p.
DownTo(S, edge, root, p) ==
    {place \in [node : S, left_index_border : Int] :
        /\ place.left_index_border = edge[place.node]["left"] - edge[root]["left"]
        /\ edge[place.node]["left"] < p /\ p < edge[place.node]["right"]}

NextDown(t, above, searched) ==
    LET current == IndexBelow(t, above)
    IN  CASE current > searched -> [above EXCEPT !.node = t[@].left]
          [] current < searched -> [node |-> t[above.node].right,
                                    left_index_border |-> current + 1]
          [] OTHER -> above

LEMMA NextDownResult ==
    ASSUME NEW t, NEW S, NEW root, NEW pos, NEW edge, Tree(t, S, root, pos, edge, {}),
           NEW p \in Int, NEW place \in DownTo(S, edge, root, p),
           NEW searched, searched = p - edge[root]["left"] - 1
    PROVE  /\ NextDown(t, place, searched) \in DownTo(S, edge, root, p)
           /\ IndexBelow(t, place) = searched <=> pos[place.node] = p
           /\ pos[place.node] = p => NextDown(t, place, searched) = place
           /\ p < pos[place.node] =>
                /\ t[place.node].left # Null
                /\ NextDown(t, place, searched).node = t[place.node].left
           /\ pos[place.node] < p =>
                /\ t[place.node].right # Null
                /\ NextDown(t, place, searched).node = t[place.node].right
<1> DEFINE m == place.node
           border == place.left_index_border
           current == IndexBelow(t, place)
           next == NextDown(t, place, searched)
           z == edge[root]["left"]
           el == edge[m]["left"]
           er == edge[m]["right"]
           pm == pos[m]
<1>1. /\ m \in S /\ border = el - z /\ border \in Int /\ el < p /\ p < er
      /\ place = [node |-> m, left_index_border |-> border]
    BY DEF DownTo
<1>2. /\ pm \in Int /\ el \in Int /\ er \in Int /\ el < pm /\ pm < er
      /\ left_subtree_size(t, m) = pm - el - 1
      /\ t[m].left # Null =>
            /\ t[m].left \in S
            /\ edge[t[m].left]["left"] = el /\ edge[t[m].left]["right"] = pm
      /\ t[m].right # Null =>
            /\ t[m].right \in S
            /\ edge[t[m].right]["left"] = pm /\ edge[t[m].right]["right"] = er
    BY <1>1, PathSizes
<1>3. z \in Int
    <2>1. root \in S
        BY DEF Tree, Linked
    <2>2. QED
        BY <2>1, PathSizes
<1>4. /\ t[m].left = Null => el = pm - 1
      /\ t[m].right = Null => er = pm + 1
    <2>1. Ordered(t, S, pos, edge)
        BY DEF Tree
    <2>2. t[m]["left"] = Null => edge[m]["left"] = pos[m] + Toward("left")
        BY <1>1, <2>1 DEF Ordered, Sides
    <2>3. t[m]["right"] = Null => edge[m]["right"] = pos[m] + Toward("right")
        BY <1>1, <2>1 DEF Ordered, Sides
    <2>4. Toward("left") = -1 /\ Toward("right") = 1
        BY DEF Toward
    <2>5. pos[m] + -1 = pos[m] - 1
        BY <1>2
    <2>6. QED
        BY <2>2, <2>3, <2>4, <2>5
<1>5. current = pm - z - 1 /\ current \in Int /\ searched = p - z - 1 /\ searched \in Int
    <2>1. current = border + left_subtree_size(t, m)
        BY DEF IndexBelow
    <2>2. current = (el - z) + (pm - el - 1)
        BY <1>1, <1>2, <2>1
    <2> HIDE DEF current, pm, el
    <2>3. current = pm - z - 1
        BY <1>2, <1>3, <2>2
    <2>4. searched = p - z - 1
        OBVIOUS
    <2> HIDE DEF z
    <2>5. QED
        BY <1>2, <1>3, <2>3, <2>4
<1>6. CASE pm = p
    <2>1. current = searched /\ ~(current > searched) /\ ~(current < searched)
        <3> HIDE DEF current, pm, z
        <3>1. QED
            BY <1>2, <1>3, <1>5, <1>6
    <2>2. next = place
        BY <2>1 DEF NextDown
    <2>3. ~(p < pm) /\ ~(pm < p)
        BY <1>2, <1>6
    <2>4. QED
        BY <1>6, <2>1, <2>2, <2>3
<1>7. CASE p < pm
    <2>1. current > searched /\ ~(current < searched) /\ current # searched /\ ~(pm < p) /\ pm # p
        <3> HIDE DEF current, pm, z
        <3>1. QED
            BY <1>2, <1>3, <1>5, <1>7
    <2>2. t[m].left # Null
        <3>1. t[m].left = Null => FALSE
            <4> DEFINE b == t[m].left = Null
            <4>1. b => el = pm - 1
                BY <1>4
            <4> HIDE DEF b, pm, el
            <4>2. ~b
                BY <1>1, <1>2, <1>7, <4>1
            <4>3. QED
                BY <4>2 DEF b
        <3>2. QED
            BY <3>1
    <2>3. next = [place EXCEPT !.node = t[m].left]
        BY <2>1 DEF NextDown
    <2>4. next = [node |-> t[m].left, left_index_border |-> border]
        BY <1>1, <2>3
    <2> HIDE DEF next
    <2>5. next.node = t[m].left /\ next.left_index_border = border
        BY <2>4
    <2>6. next \in [node : S, left_index_border : Int]
        BY <1>1, <1>2, <2>2, <2>4
    <2>7. next \in DownTo(S, edge, root, p)
        BY <1>1, <1>2, <1>7, <2>2, <2>5, <2>6 DEF DownTo
    <2>8. QED
        BY <2>1, <2>2, <2>5, <2>7 DEF next
<1>8. CASE pm < p
    <2>1. current < searched /\ ~(current > searched) /\ current # searched /\ ~(p < pm) /\ pm # p
        <3> HIDE DEF current, pm, z
        <3>1. QED
            BY <1>2, <1>3, <1>5, <1>8
    <2>2. t[m].right # Null
        <3> DEFINE b == t[m].right = Null
        <3>1. b => er = pm + 1
            BY <1>4
        <3> HIDE DEF b, pm, er
        <3>2. ~b
            BY <1>1, <1>2, <1>8, <3>1
        <3>3. QED
            BY <3>2 DEF b
    <2>3. next = [node |-> t[m].right, left_index_border |-> current + 1]
        BY <2>1 DEF NextDown
    <2> HIDE DEF next
    <2>4. next.node = t[m].right /\ next.left_index_border = current + 1
        BY <2>3
    <2>5. next \in [node : S, left_index_border : Int]
        BY <1>2, <1>5, <2>2, <2>3
    <2>6. current + 1 = pm - z
        <3> HIDE DEF current, pm, z
        <3>1. QED
            BY <1>2, <1>3, <1>5
    <2>7. next \in DownTo(S, edge, root, p)
        BY <1>1, <1>2, <1>8, <2>2, <2>4, <2>5, <2>6 DEF DownTo
    <2>8. QED
        BY <2>1, <2>2, <2>4, <2>7 DEF next
<1>9. QED
    <2>1. pm = p \/ p < pm \/ pm < p
        BY <1>2
    <2>2. QED
        BY <1>6, <1>7, <1>8, <2>1

Descends(t, S, edge, root, p, searched, at) ==
    /\ at[0] = [node |-> root, left_index_border |-> 0]
    /\ \A k \in Nat : /\ at[k] \in DownTo(S, edge, root, p)
                      /\ at[k + 1] = NextDown(t, at[k], searched)

LEMMA DescentIs ==
    ASSUME NEW t, NEW S, NEW root, NEW pos, NEW edge, Tree(t, S, root, pos, edge, {}),
           NEW p \in Int, edge[root]["left"] < p, p < edge[root]["right"],
           NEW searched, searched = p - edge[root]["left"] - 1
    PROVE  Descends(t, S, edge, root, p, searched, Descent(t, root, searched))
<1> DEFINE first == [node |-> root, left_index_border |-> 0]
           X == DownTo(S, edge, root, p)
           F == [place \in X |-> NextDown(t, place, searched)]
           Body(g) == [k \in Nat |->
                IF k = 0 THEN [node |-> root, left_index_border |-> 0]
                ELSE LET above   == g[k - 1]
                         current == IndexBelow(t, above)
                     IN  CASE current > searched -> [above EXCEPT !.node = t[@].left]
                           [] current < searched -> [node |-> t[above.node].right,
                                                     left_index_border |-> current + 1]
                           [] OTHER -> above]
           at == Descent(t, root, searched)
<1>1. at = CHOOSE g : g = Body(g)
    BY DEF Descent
<1>2. first \in X
    <2>1. root \in S
        BY DEF Tree, Linked
    <2>2. edge[root]["left"] \in Int
        BY <2>1, PathSizes
    <2>3. edge[root]["left"] - edge[root]["left"] = 0
        BY <2>2
    <2>4. QED
        BY <2>1, <2>3 DEF DownTo
<1>3. ASSUME NEW place \in X PROVE NextDown(t, place, searched) \in X
    BY NextDownResult
<1>4. F \in [X -> X]
    BY <1>3
<1> HIDE DEF first, X, F
<1>5. PICK f : f \in [Nat -> X] /\ f[0] = first /\ \A k \in Nat : f[k + 1] = F[f[k]]
    <2>1. PICK f : Iterates(f, X, F, first)
        BY <1>2, <1>4, IterationExists
    <2>2. QED
        BY <2>1 DEF Iterates
<1>6. ASSUME NEW g, NEW k \in Nat
      PROVE  Body(g)[k] = (IF k = 0 THEN first ELSE NextDown(t, g[k - 1], searched))
    BY DEF NextDown, first
<1>7. \A g : Body(g) = [k \in Nat |-> Body(g)[k]]
    OBVIOUS
<1> HIDE DEF Body
<1>8. f = Body(f)
    <2>1. ASSUME NEW k \in Nat PROVE f[k] = Body(f)[k]
        <3>1. CASE k = 0
            BY <1>5, <1>6, <3>1
        <3>2. CASE k # 0
            <4>1. k - 1 \in Nat /\ (k - 1) + 1 = k
                BY <3>2
            <4>2. f[k] = NextDown(t, f[k - 1], searched)
                BY <1>5, <4>1 DEF F
            <4>3. QED
                BY <1>6, <3>2, <4>2
        <3>3. QED
            BY <3>1, <3>2
    <2>2. QED
        BY <1>5, <1>7, <2>1
<1>9. at = Body(at)
    <2> HIDE DEF at
    <2>1. QED
        BY <1>1, <1>8
<1> HIDE DEF at
<1>10. at[0] = first
    BY <1>6, <1>9
<1>11. ASSUME NEW k \in Nat PROVE at[k + 1] = NextDown(t, at[k], searched)
    <2>1. k + 1 # 0 /\ k + 1 \in Nat /\ (k + 1) - 1 = k
        OBVIOUS
    <2>2. Body(at)[k + 1] = NextDown(t, at[k], searched)
        BY <1>6, <2>1
    <2>3. QED
        BY <1>9, <2>2
<1> DEFINE K == {k \in Nat : at[k] \in X}
<1>12. 0 \in K
    BY <1>2, <1>10
<1>13. ASSUME NEW k \in Nat, k \in K PROVE k + 1 \in K
    BY <1>3, <1>11, <1>13
<1> HIDE DEF K
<1>14. Nat \subseteq K
    BY <1>12, <1>13, SetInduction
<1>15. \A k \in Nat : at[k] \in X
    BY <1>14 DEF K
<1>16. QED
    BY <1>10, <1>11, <1>15 DEF at, X, first, Descends

\* The way down stops at a node with the position searched.
LEMMA DescentEnds ==
    ASSUME NEW t, IsFiniteSet(DOMAIN t), NEW S, NEW root, NEW pos, NEW edge,
           Tree(t, S, root, pos, edge, {}),
           NEW p \in Int, edge[root]["left"] < p, p < edge[root]["right"],
           NEW searched, searched = p - edge[root]["left"] - 1
    PROVE  \E k \in Rounds(t) : IndexBelow(t, Descent(t, root, searched)[k]) = searched
<1> DEFINE at == Descent(t, root, searched)
           f == [k \in Nat |-> at[k].node]
           w == [m \in S |-> -Width(edge, m)]
<1>1. \A k \in Nat : at[k] \in DownTo(S, edge, root, p)
                     /\ at[k + 1] = NextDown(t, at[k], searched)
    <2>1. Descends(t, S, edge, root, p, searched, at)
        BY DescentIs
    <2>2. QED
        BY <2>1 DEF Descends
<1> HIDE DEF at
<1>2. S \subseteq DOMAIN t /\ Null \notin S
    BY DEF Tree, Linked, IsTree
<1>3. IsFiniteSet(S) /\ Cardinality(S) <= Cardinality(DOMAIN t)
      /\ Cardinality(S) \in Nat /\ Cardinality(DOMAIN t) \in Nat
    BY <1>2, FS_Subset, FS_CardinalityType
<1>4. f \in [Nat -> S]
    <2>1. ASSUME NEW k \in Nat PROVE at[k].node \in S
        BY <1>1 DEF DownTo
    <2>2. QED
        BY <2>1
<1>5. w \in [S -> Int] /\ \A m \in S : Width(edge, m) \in Int /\ pos[m] \in Int
    <2>1. ASSUME NEW m \in S PROVE Width(edge, m) \in Int /\ pos[m] \in Int
        BY PathSizes DEF Width
    <2>2. QED
        BY <2>1
<1>6. ASSUME NEW k \in Nat
      PROVE  /\ f[k + 1] # f[k] => w[f[k]] < w[f[k + 1]]
             /\ f[k + 1] = f[k] => IndexBelow(t, at[k]) = searched
    <2> DEFINE place == at[k]
               m == place.node
               next == NextDown(t, place, searched)
    <2>1. place \in DownTo(S, edge, root, p) /\ at[k + 1] = next
        BY <1>1
    <2>2. f[k] = m /\ f[k + 1] = next.node
        BY <2>1
    <2>3. m \in S /\ next.node \in S
        BY <1>4, <2>2
    <2> HIDE DEF f, place
    <2>4. /\ IndexBelow(t, place) = searched <=> pos[m] = p
          /\ pos[m] = p => next = place
          /\ p < pos[m] => t[m].left # Null /\ next.node = t[m].left
          /\ pos[m] < p => t[m].right # Null /\ next.node = t[m].right
        BY <2>1, NextDownResult
    <2>5. CASE pos[m] = p
        BY <2>2, <2>4, <2>5 DEF place
    <2>6. CASE pos[m] # p
        <3>1. \E side \in Sides : t[m][side] # Null /\ next.node = t[m][side]
            <4>1. p < pos[m] \/ pos[m] < p
                BY <1>5, <2>3, <2>6
            <4>2. QED
                BY <2>4, <4>1 DEF Sides
        <3> HIDE DEF m, next
        <3>2. Width(edge, next.node) < Width(edge, m) /\ next.node # m
            BY <2>3, <3>1, ChildNarrower DEF Tree
        <3>3. w[m] = -Width(edge, m) /\ w[next.node] = -Width(edge, next.node)
            BY <2>3
        <3>4. w[m] < w[next.node]
            <4> DEFINE a == Width(edge, m)
                       b == Width(edge, next.node)
            <4>1. a \in Int /\ b \in Int /\ b < a
                BY <1>5, <2>3, <3>2
            <4> HIDE DEF a, b
            <4>2. -a < -b
                BY <4>1
            <4>3. QED
                BY <3>3, <4>2 DEF a, b
        <3>5. QED
            BY <2>2, <3>2, <3>4
    <2>7. QED
        BY <2>5, <2>6
<1> HIDE DEF f, w
<1>7. PICK k \in 0 .. Cardinality(S) : f[k + 1] = f[k]
    BY <1>3, <1>4, <1>5, <1>6, Arrives
<1>8. k \in Nat /\ k \in Rounds(t)
    BY <1>3 DEF Rounds
<1>9. IndexBelow(t, at[k]) = searched
    BY <1>6, <1>7, <1>8
<1>10. QED
    BY <1>8, <1>9 DEF at

\* getByIndex, for an index within the list: where the way down ends.
LEMMA ByIndexEnds ==
    ASSUME NEW t, IsFiniteSet(DOMAIN t), NEW S, NEW root, NEW pos, NEW edge,
           Tree(t, S, root, pos, edge, {}),
           NEW p \in Int, edge[root]["left"] < p, p < edge[root]["right"],
           NEW searched, searched = p - edge[root]["left"] - 1
    PROVE  \E k \in Nat : LET place == Descent(t, root, searched)[k]
                          IN  getByIndex(t, root, searched) = place.node /\ pos[place.node] = p
<1> DEFINE at == Descent(t, root, searched)
           k == CHOOSE k \in Rounds(t) : IndexBelow(t, at[k]) = searched
           el == edge[root]["left"]
           er == edge[root]["right"]
<1>1. k \in Rounds(t) /\ IndexBelow(t, at[k]) = searched
    BY DescentEnds
<1>2. root \in S /\ Null \notin S /\ Counted(t, S, edge, {})
    BY DEF Tree, Linked, IsTree
<1>3. el \in Int /\ er \in Int
    BY <1>2, PathSizes
<1>4. size(t, root) = er - el - 1
    BY <1>2 DEF size, Counted, Width
<1>5. ~(searched < 0 \/ searched >= size(t, root))
    <2> HIDE DEF el, er
    <2>1. el < p /\ p < er /\ searched = p - el - 1
        BY DEF el, er
    <2>2. QED
        BY <1>3, <1>4, <2>1
<1>6. getByIndex(t, root, searched) = at[k].node
    BY <1>5 DEF getByIndex
<1> HIDE DEF k, at
<1>7. k \in Nat
    <2>1. Cardinality(DOMAIN t) \in Nat
        BY FS_CardinalityType
    <2>2. QED
        BY <1>1, <2>1 DEF Rounds
<1>8. at[k] \in DownTo(S, edge, root, p)
    <2>1. Descends(t, S, edge, root, p, searched, at)
        BY DescentIs DEF at
    <2>2. QED
        BY <1>7, <2>1 DEF Descends
<1>9. pos[at[k].node] = p
    <2> DEFINE place == at[k]
    <2>1. place \in DownTo(S, edge, root, p) /\ IndexBelow(t, place) = searched
        BY <1>1, <1>8
    <2> HIDE DEF place, el, er
    <2>2. pos[place.node] = p
        BY <2>1, NextDownResult
    <2>3. QED
        BY <2>2 DEF place
<1>10. QED
    BY <1>6, <1>7, <1>9 DEF at

\* getByIndex: every index below the size of the list leads to an element, and
\* getIndex of that element is the index searched.
THEOREM ByIndexFinds ==
    ASSUME NEW t, IsFiniteSet(DOMAIN t), NEW S, NEW root, NEW pos, NEW edge,
           Tree(t, S, root, pos, edge, {}),
           NEW searched \in Int, 0 <= searched, searched < size(t, root)
    PROVE  LET found == getByIndex(t, root, searched)
           IN  found \in S /\ getIndex(t, found) = searched
<1> DEFINE found == getByIndex(t, root, searched)
           el == edge[root]["left"]
           er == edge[root]["right"]
           p == searched + el + 1
<1>1. root \in S /\ Null \notin S /\ Counted(t, S, edge, {})
    BY DEF Tree, Linked, IsTree
<1>2. el \in Int /\ er \in Int
    BY <1>1, PathSizes
<1>3. size(t, root) = er - el - 1
    BY <1>1 DEF size, Counted, Width
<1>4. p \in Int /\ el < p /\ p < er /\ searched = p - el - 1
    <2> HIDE DEF el, er
    <2>1. QED
        BY <1>2, <1>3
<1> HIDE DEF p
<1>5. PICK k \in Nat : LET place == Descent(t, root, searched)[k]
                       IN  found = place.node /\ pos[place.node] = p
    BY <1>4, ByIndexEnds
<1>6. Descends(t, S, edge, root, p, searched, Descent(t, root, searched))
    BY <1>4, DescentIs
<1>7. found \in S /\ pos[found] = p
    BY <1>5, <1>6 DEF Descends, DownTo
<1> HIDE DEF found
<1>8. getIndex(t, found) = pos[found] - el - 1
    BY <1>7, IndexIsPosition
<1>9. getIndex(t, found) = searched
    BY <1>4, <1>7, <1>8
<1>10. QED
    BY <1>7, <1>9 DEF found

\* getByIndex takes the index of an element back to that element: no two elements
\* have the same index.
THEOREM ByIndexOfIndex ==
    ASSUME NEW t, IsFiniteSet(DOMAIN t), NEW S, NEW root, NEW pos, NEW edge,
           Tree(t, S, root, pos, edge, {}), NEW n \in S
    PROVE  getByIndex(t, root, getIndex(t, n)) = n
<1> DEFINE p == pos[n]
           searched == getIndex(t, n)
           at == Descent(t, root, searched)
<1>1. searched = p - edge[root]["left"] - 1
    BY IndexIsPosition
<1>2. PICK C : Ways(t, S, edge, root, p, n, C)
    BY WayUp
<1>3. p \in Int
    BY PathSizes
<1>4. edge[root]["left"] < p /\ p < edge[root]["right"] /\ C \subseteq S
    BY <1>2 DEF Ways
<1> HIDE DEF p, searched
<1>5. Descends(t, S, edge, root, p, searched, at)
    BY <1>1, <1>3, <1>4, DescentIs
<1>6. PICK k \in Nat : getByIndex(t, root, searched) = at[k].node /\ pos[at[k].node] = p
    BY <1>1, <1>3, <1>4, ByIndexEnds
<1> HIDE DEF at
<1>7. ASSUME NEW m \in C, m # n
      PROVE  /\ pos[m] # p
             /\ p < pos[m] => t[m].left \in C
             /\ pos[m] < p => t[m].right \in C
    <2>1. m \in S /\ Null \notin S
        BY <1>4 DEF Tree, Linked, IsTree
    <2>2. PICK side \in Sides : t[m][side] \in C
        BY <1>2, <1>7 DEF Ways
    <2> DEFINE c == t[m][side]
    <2>3. c # Null /\ edge[c]["left"] < p /\ p < edge[c]["right"]
        BY <1>2, <1>4, <2>1, <2>2 DEF Ways
    <2>4. /\ pos[m] \in Int
          /\ t[m].left # Null => edge[t[m].left]["right"] = pos[m]
          /\ t[m].right # Null => edge[t[m].right]["left"] = pos[m]
        BY <2>1, PathSizes
    <2>5. CASE side = "left"
        <3>1. t[m].left \in C /\ p < pos[m]
            BY <2>2, <2>3, <2>4, <2>5
        <3>2. QED
            BY <1>3, <2>4, <3>1
    <2>6. CASE side = "right"
        <3>1. t[m].right \in C /\ pos[m] < p
            BY <2>2, <2>3, <2>4, <2>6
        <3>2. QED
            BY <1>3, <2>4, <3>1
    <2>7. QED
        BY <2>5, <2>6 DEF Sides
<1> DEFINE K == {j \in Nat : at[j].node \in C}
<1>8. 0 \in K
    BY <1>2, <1>5 DEF Descends, Ways
<1>9. ASSUME NEW j \in Nat, j \in K PROVE j + 1 \in K
    <2> DEFINE place == at[j]
               m == place.node
               next == NextDown(t, place, searched)
    <2>1. /\ place \in DownTo(S, edge, root, p) /\ at[j + 1] = next
          /\ m \in C /\ m \in S
        BY <1>4, <1>5, <1>9 DEF Descends
    <2> HIDE DEF place
    <2>2. /\ pos[m] = p => next = place
          /\ p < pos[m] => next.node = t[m].left
          /\ pos[m] < p => next.node = t[m].right
        BY <1>1, <1>3, <2>1, NextDownResult
    <2>3. next.node \in C
        <3>1. CASE m = n
            BY <2>1, <2>2, <3>1 DEF p
        <3>2. CASE m # n
            <4>1. pos[m] \in Int
                BY <2>1, PathSizes
            <4>2. p < pos[m] \/ pos[m] < p
                BY <1>3, <1>7, <2>1, <3>2, <4>1
            <4>3. QED
                BY <1>7, <2>1, <2>2, <3>2, <4>2
        <3>3. QED
            BY <3>1, <3>2
    <2>4. QED
        BY <2>1, <2>3
<1> HIDE DEF K
<1>10. Nat \subseteq K
    BY <1>8, <1>9, SetInduction
<1>11. at[k].node \in C
    BY <1>10 DEF K
<1>12. at[k].node = n
    BY <1>6, <1>7, <1>11
<1>13. QED
    BY <1>6, <1>12 DEF searched

-----------------------------------------------------------------------------
(* Walking                                                                   *)

\* Going outwards, or up from an outer child, keeps the edge of the subtree.
AtEdge(S, edge, n, side) == {m \in S : edge[m][side] = edge[n][side]}

NextOut(t, m, side) == IF t[m][side] = Null THEN m ELSE t[m][side]

NextClimb(t, m, side) == IF ClimbsOn(t, m, side) THEN t[m].parent ELSE m

LEMMA NextOutResult ==
    ASSUME NEW t, NEW S, NEW root, Linked(t, S, root), NEW pos, NEW edge,
           Ordered(t, S, pos, edge), NEW n \in S, NEW side \in Sides,
           NEW m \in AtEdge(S, edge, n, side)
    PROVE  /\ NextOut(t, m, side) \in AtEdge(S, edge, n, side)
           /\ t[m][side] # Null => /\ NextOut(t, m, side) # m
                                   /\ Width(edge, NextOut(t, m, side)) < Width(edge, m)
<1>1. m \in S /\ edge[m][side] = edge[n][side]
    BY DEF AtEdge
<1>2. CASE t[m][side] = Null
    BY <1>2 DEF NextOut
<1>3. CASE t[m][side] # Null
    <2> DEFINE c == t[m][side]
    <2>1. c \in S /\ edge[c][side] = edge[m][side]
        BY <1>1, <1>3 DEF Linked, Ordered
    <2>2. NextOut(t, m, side) = c
        BY <1>3 DEF NextOut
    <2>3. Width(edge, c) < Width(edge, m) /\ c # m
        BY <1>1, <1>3, ChildNarrower
    <2> HIDE DEF c
    <2>4. QED
        BY <1>1, <2>1, <2>2, <2>3 DEF AtEdge
<1>4. QED
    BY <1>2, <1>3

\* Which child of its parent a node is.
LEMMA ChildType ==
    ASSUME NEW t, NEW S, NEW root, Linked(t, S, root), NEW m \in S, t[m].parent # Null,
           NEW side \in Sides
    PROVE  /\ t[m].parent \in S
           /\ child_type(t, m) \in Sides /\ t[t[m].parent][child_type(t, m)] = m
           /\ child_type(t, m) # side => child_type(t, m) = Opposite(side)
<1>1. t[m].parent \in S /\ \E s \in Sides : t[t[m].parent][s] = m
    BY DEF Linked
<1>2. QED
    BY <1>1 DEF child_type, Sides, Opposite

LEMMA NextClimbResult ==
    ASSUME NEW t, NEW S, NEW root, Linked(t, S, root), NEW pos, NEW edge,
           Ordered(t, S, pos, edge), NEW n \in S, NEW side \in Sides,
           NEW m \in AtEdge(S, edge, n, side)
    PROVE  /\ NextClimb(t, m, side) \in AtEdge(S, edge, n, side)
           /\ ClimbsOn(t, m, side) => /\ NextClimb(t, m, side) # m
                                      /\ Width(edge, m) < Width(edge, NextClimb(t, m, side))
<1>1. m \in S /\ edge[m][side] = edge[n][side] /\ m # Null
    BY DEF AtEdge, Linked, IsTree
<1>2. CASE ~ClimbsOn(t, m, side)
    BY <1>2 DEF NextClimb
<1>3. CASE ClimbsOn(t, m, side)
    <2> DEFINE up == t[m].parent
    <2>1. up # Null /\ child_type(t, m) = side
        BY <1>3 DEF ClimbsOn
    <2>2. up \in S /\ t[up][side] = m
        BY <1>1, <2>1, ChildType
    <2>3. NextClimb(t, m, side) = up
        BY <1>3 DEF NextClimb
    <2> HIDE DEF up
    <2>4. edge[m][side] = edge[up][side]
        BY <1>1, <2>2 DEF Ordered
    <2>5. Width(edge, m) < Width(edge, up) /\ m # up
        BY <1>1, <2>2, ChildNarrower
    <2>6. QED
        BY <1>1, <2>2, <2>3, <2>4, <2>5 DEF AtEdge
<1>4. QED
    BY <1>2, <1>3


LEMMA OutwardsIs ==
    ASSUME NEW t, NEW S, NEW root, Linked(t, S, root), NEW pos, NEW edge,
           Ordered(t, S, pos, edge), NEW n \in S, NEW side \in Sides
    PROVE  LET at == Outwards(t, n, side)
           IN  /\ at[0] = n
               /\ \A k \in Nat : /\ at[k] \in AtEdge(S, edge, n, side)
                                 /\ at[k + 1] = NextOut(t, at[k], side)
<1> DEFINE X == AtEdge(S, edge, n, side)
           F == [m \in X |-> NextOut(t, m, side)]
           Body(g) == [k \in Nat |->
                IF k = 0 THEN n
                ELSE LET m == g[k - 1] IN IF t[m][side] = Null THEN m ELSE t[m][side]]
           at == Outwards(t, n, side)
<1>1. at = CHOOSE g : g = Body(g)
    BY DEF Outwards
<1>2. n \in X
    BY DEF AtEdge
<1>3. ASSUME NEW m \in X PROVE NextOut(t, m, side) \in X
    BY NextOutResult
<1>4. F \in [X -> X]
    BY <1>3
<1> HIDE DEF X, F
<1>5. PICK f : f \in [Nat -> X] /\ f[0] = n /\ \A k \in Nat : f[k + 1] = F[f[k]]
    <2>1. PICK f : Iterates(f, X, F, n)
        BY <1>2, <1>4, IterationExists
    <2>2. QED
        BY <2>1 DEF Iterates
<1>6. ASSUME NEW g, NEW k \in Nat
      PROVE  Body(g)[k] = (IF k = 0 THEN n ELSE NextOut(t, g[k - 1], side))
    BY DEF NextOut
<1>7. \A g : Body(g) = [k \in Nat |-> Body(g)[k]]
    OBVIOUS
<1> HIDE DEF Body
<1>8. f = Body(f)
    <2>1. ASSUME NEW k \in Nat PROVE f[k] = Body(f)[k]
        <3>1. CASE k = 0
            BY <1>5, <1>6, <3>1
        <3>2. CASE k # 0
            <4>1. k - 1 \in Nat /\ (k - 1) + 1 = k
                BY <3>2
            <4>2. f[k] = NextOut(t, f[k - 1], side)
                BY <1>5, <4>1 DEF F
            <4>3. QED
                BY <1>6, <3>2, <4>2
        <3>3. QED
            BY <3>1, <3>2
    <2>2. QED
        BY <1>5, <1>7, <2>1
<1>9. at = Body(at)
    <2> HIDE DEF at
    <2>1. QED
        BY <1>1, <1>8
<1> HIDE DEF at
<1>10. at[0] = n
    BY <1>6, <1>9
<1>11. ASSUME NEW k \in Nat PROVE at[k + 1] = NextOut(t, at[k], side)
    <2>1. k + 1 # 0 /\ k + 1 \in Nat /\ (k + 1) - 1 = k
        OBVIOUS
    <2>2. Body(at)[k + 1] = NextOut(t, at[k], side)
        BY <1>6, <2>1
    <2>3. QED
        BY <1>9, <2>2
<1> DEFINE K == {k \in Nat : at[k] \in X}
<1>12. 0 \in K
    BY <1>2, <1>10
<1>13. ASSUME NEW k \in Nat, k \in K PROVE k + 1 \in K
    BY <1>3, <1>11, <1>13
<1> HIDE DEF K
<1>14. Nat \subseteq K
    BY <1>12, <1>13, SetInduction
<1>15. \A k \in Nat : at[k] \in X
    BY <1>14 DEF K
<1>16. QED
    BY <1>10, <1>11, <1>15 DEF at, X


LEMMA UpwardsIs ==
    ASSUME NEW t, NEW S, NEW root, Linked(t, S, root), NEW pos, NEW edge,
           Ordered(t, S, pos, edge), NEW n \in S, NEW side \in Sides
    PROVE  LET at == Upwards(t, n, side)
           IN  /\ at[0] = n
               /\ \A k \in Nat : /\ at[k] \in AtEdge(S, edge, n, side)
                                 /\ at[k + 1] = NextClimb(t, at[k], side)
<1> DEFINE X == AtEdge(S, edge, n, side)
           F == [m \in X |-> NextClimb(t, m, side)]
           Body(g) == [k \in Nat |->
                IF k = 0 THEN n
                ELSE LET m == g[k - 1] IN IF ClimbsOn(t, m, side) THEN t[m].parent ELSE m]
           at == Upwards(t, n, side)
<1>1. at = CHOOSE g : g = Body(g)
    BY DEF Upwards
<1>2. n \in X
    BY DEF AtEdge
<1>3. ASSUME NEW m \in X PROVE NextClimb(t, m, side) \in X
    BY NextClimbResult
<1>4. F \in [X -> X]
    BY <1>3
<1> HIDE DEF X, F
<1>5. PICK f : f \in [Nat -> X] /\ f[0] = n /\ \A k \in Nat : f[k + 1] = F[f[k]]
    <2>1. PICK f : Iterates(f, X, F, n)
        BY <1>2, <1>4, IterationExists
    <2>2. QED
        BY <2>1 DEF Iterates
<1>6. ASSUME NEW g, NEW k \in Nat
      PROVE  Body(g)[k] = (IF k = 0 THEN n ELSE NextClimb(t, g[k - 1], side))
    BY DEF NextClimb
<1>7. \A g : Body(g) = [k \in Nat |-> Body(g)[k]]
    OBVIOUS
<1> HIDE DEF Body
<1>8. f = Body(f)
    <2>1. ASSUME NEW k \in Nat PROVE f[k] = Body(f)[k]
        <3>1. CASE k = 0
            BY <1>5, <1>6, <3>1
        <3>2. CASE k # 0
            <4>1. k - 1 \in Nat /\ (k - 1) + 1 = k
                BY <3>2
            <4>2. f[k] = NextClimb(t, f[k - 1], side)
                BY <1>5, <4>1 DEF F
            <4>3. QED
                BY <1>6, <3>2, <4>2
        <3>3. QED
            BY <3>1, <3>2
    <2>2. QED
        BY <1>5, <1>7, <2>1
<1>9. at = Body(at)
    <2> HIDE DEF at
    <2>1. QED
        BY <1>1, <1>8
<1> HIDE DEF at
<1>10. at[0] = n
    BY <1>6, <1>9
<1>11. ASSUME NEW k \in Nat PROVE at[k + 1] = NextClimb(t, at[k], side)
    <2>1. k + 1 # 0 /\ k + 1 \in Nat /\ (k + 1) - 1 = k
        OBVIOUS
    <2>2. Body(at)[k + 1] = NextClimb(t, at[k], side)
        BY <1>6, <2>1
    <2>3. QED
        BY <1>9, <2>2
<1> DEFINE K == {k \in Nat : at[k] \in X}
<1>12. 0 \in K
    BY <1>2, <1>10
<1>13. ASSUME NEW k \in Nat, k \in K PROVE k + 1 \in K
    BY <1>3, <1>11, <1>13
<1> HIDE DEF K
<1>14. Nat \subseteq K
    BY <1>12, <1>13, SetInduction
<1>15. \A k \in Nat : at[k] \in X
    BY <1>14 DEF K
<1>16. QED
    BY <1>10, <1>11, <1>15 DEF at, X

LEMMA OutwardsEnds ==
    ASSUME NEW t, IsFiniteSet(DOMAIN t), NEW S, NEW root, Linked(t, S, root), NEW pos,
           NEW edge, Ordered(t, S, pos, edge), NEW n \in S, NEW side \in Sides
    PROVE  \E k \in Rounds(t) : t[Outwards(t, n, side)[k]][side] = Null
<1> DEFINE f == Outwards(t, n, side)
           g == [k \in Nat |-> f[k]]
           w == [m \in S |-> -Width(edge, m)]
<1>1. \A k \in Nat : /\ f[k] \in AtEdge(S, edge, n, side)
                     /\ f[k + 1] = NextOut(t, f[k], side)
    BY OutwardsIs
<1> HIDE DEF f
<1>2. S \subseteq DOMAIN t
    BY DEF Linked
<1>3. IsFiniteSet(S) /\ Cardinality(S) <= Cardinality(DOMAIN t)
      /\ Cardinality(S) \in Nat /\ Cardinality(DOMAIN t) \in Nat
    BY <1>2, FS_Subset, FS_CardinalityType
<1>4. g \in [Nat -> S]
    <2>1. ASSUME NEW k \in Nat PROVE f[k] \in S
        BY <1>1 DEF AtEdge
    <2>2. QED
        BY <2>1
<1>5. w \in [S -> Int] /\ \A m \in S : Width(edge, m) \in Int
    <2>1. ASSUME NEW m \in S PROVE Width(edge, m) \in Int
        BY DEF Width, Ordered, Sides
    <2>2. QED
        BY <2>1
<1>6. ASSUME NEW k \in Nat
      PROVE  /\ g[k + 1] # g[k] => w[g[k]] < w[g[k + 1]]
             /\ g[k + 1] = g[k] => t[f[k]][side] = Null
    <2> DEFINE m == f[k]
               next == NextOut(t, m, side)
    <2>1. m \in AtEdge(S, edge, n, side) /\ f[k + 1] = next
        BY <1>1
    <2>2. g[k] = m /\ g[k + 1] = next
        BY <2>1
    <2>3. m \in S /\ next \in S
        BY <1>4, <2>2
    <2> HIDE DEF g, m
    <2>4. CASE t[m][side] = Null
        <3>1. next = m
            BY <2>4 DEF NextOut
        <3>2. QED
            BY <2>2, <2>4, <3>1 DEF m
    <2>5. CASE ~(t[m][side] = Null)
        <3>1. next # m /\ Width(edge, next) < Width(edge, m)
            BY <2>1, <2>5, NextOutResult
        <3> DEFINE a == Width(edge, m)
                   b == Width(edge, next)
        <3>2. a \in Int /\ b \in Int /\ w[m] = -a /\ w[next] = -b
            BY <1>5, <2>3
        <3> HIDE DEF a, b, w, next
        <3>3. w[m] < w[next]
            BY <3>1, <3>2 DEF a, b
        <3>4. QED
            BY <2>2, <3>1, <3>3
    <2>6. QED
        BY <2>4, <2>5
<1> HIDE DEF g, w
<1>7. PICK k \in 0 .. Cardinality(S) : g[k + 1] = g[k]
    BY <1>3, <1>4, <1>5, <1>6, Arrives
<1>8. k \in Nat /\ k \in Rounds(t)
    BY <1>3 DEF Rounds
<1>9. t[f[k]][side] = Null
    BY <1>6, <1>7, <1>8
<1>10. QED
    BY <1>8, <1>9 DEF f


LEMMA UpwardsEnds ==
    ASSUME NEW t, IsFiniteSet(DOMAIN t), NEW S, NEW root, Linked(t, S, root), NEW pos,
           NEW edge, Ordered(t, S, pos, edge), NEW n \in S, NEW side \in Sides
    PROVE  \E k \in Rounds(t) : ~ClimbsOn(t, Upwards(t, n, side)[k], side)
<1> DEFINE f == Upwards(t, n, side)
           g == [k \in Nat |-> f[k]]
           w == [m \in S |-> Width(edge, m)]
<1>1. \A k \in Nat : /\ f[k] \in AtEdge(S, edge, n, side)
                     /\ f[k + 1] = NextClimb(t, f[k], side)
    BY UpwardsIs
<1> HIDE DEF f
<1>2. S \subseteq DOMAIN t
    BY DEF Linked
<1>3. IsFiniteSet(S) /\ Cardinality(S) <= Cardinality(DOMAIN t)
      /\ Cardinality(S) \in Nat /\ Cardinality(DOMAIN t) \in Nat
    BY <1>2, FS_Subset, FS_CardinalityType
<1>4. g \in [Nat -> S]
    <2>1. ASSUME NEW k \in Nat PROVE f[k] \in S
        BY <1>1 DEF AtEdge
    <2>2. QED
        BY <2>1
<1>5. w \in [S -> Int] /\ \A m \in S : Width(edge, m) \in Int
    <2>1. ASSUME NEW m \in S PROVE Width(edge, m) \in Int
        BY DEF Width, Ordered, Sides
    <2>2. QED
        BY <2>1
<1>6. ASSUME NEW k \in Nat
      PROVE  /\ g[k + 1] # g[k] => w[g[k]] < w[g[k + 1]]
             /\ g[k + 1] = g[k] => ~ClimbsOn(t, f[k], side)
    <2> DEFINE m == f[k]
               next == NextClimb(t, m, side)
    <2>1. m \in AtEdge(S, edge, n, side) /\ f[k + 1] = next
        BY <1>1
    <2>2. g[k] = m /\ g[k + 1] = next
        BY <2>1
    <2>3. m \in S /\ next \in S
        BY <1>4, <2>2
    <2> HIDE DEF g, m
    <2>4. CASE ~ClimbsOn(t, m, side)
        <3>1. next = m
            BY <2>4 DEF NextClimb
        <3>2. QED
            BY <2>2, <2>4, <3>1 DEF m
    <2>5. CASE ~(~ClimbsOn(t, m, side))
        <3>1. next # m /\ Width(edge, m) < Width(edge, next)
            BY <2>1, <2>5, NextClimbResult
        <3> DEFINE a == Width(edge, m)
                   b == Width(edge, next)
        <3>2. a \in Int /\ b \in Int /\ w[m] = a /\ w[next] = b
            BY <1>5, <2>3
        <3> HIDE DEF a, b, w, next
        <3>3. w[m] < w[next]
            BY <3>1, <3>2 DEF a, b
        <3>4. QED
            BY <2>2, <3>1, <3>3
    <2>6. QED
        BY <2>4, <2>5
<1> HIDE DEF g, w
<1>7. PICK k \in 0 .. Cardinality(S) : g[k + 1] = g[k]
    BY <1>3, <1>4, <1>5, <1>6, Arrives
<1>8. k \in Nat /\ k \in Rounds(t)
    BY <1>3 DEF Rounds
<1>9. ~ClimbsOn(t, f[k], side)
    BY <1>6, <1>7, <1>8
<1>10. QED
    BY <1>8, <1>9 DEF f

\* find_leftmost and find_rightmost reach the last node of the subtree on that side.
LEMMA OutmostIs ==
    ASSUME NEW t, IsFiniteSet(DOMAIN t), NEW S, NEW root, Linked(t, S, root), NEW pos,
           NEW edge, Ordered(t, S, pos, edge), NEW n \in S, NEW side \in Sides
    PROVE  LET m == find_outmost(t, n, side)
           IN  /\ m \in S /\ t[m][side] = Null /\ edge[m][side] = edge[n][side]
               /\ edge[n][side] = pos[m] + Toward(side)
<1> DEFINE at == Outwards(t, n, side)
           k == CHOOSE k \in Rounds(t) : t[at[k]][side] = Null
           m == find_outmost(t, n, side)
<1>1. k \in Rounds(t) /\ t[at[k]][side] = Null
    BY OutwardsEnds
<1>2. m = at[k]
    BY DEF find_outmost, OutmostOf
<1> HIDE DEF k, at, m
<1>3. k \in Nat
    <2>1. Cardinality(DOMAIN t) \in Nat
        BY FS_CardinalityType
    <2>2. QED
        BY <1>1, <2>1 DEF Rounds
<1>4. at[k] \in AtEdge(S, edge, n, side)
    BY <1>3, OutwardsIs DEF at
<1>5. m \in S /\ t[m][side] = Null /\ edge[m][side] = edge[n][side]
    BY <1>1, <1>2, <1>4 DEF AtEdge
<1>6. edge[m][side] = pos[m] + Toward(side)
    BY <1>5 DEF Ordered
<1>7. QED
    BY <1>5, <1>6 DEF m

LEMMA ClimbIs ==
    ASSUME NEW t, IsFiniteSet(DOMAIN t), NEW S, NEW root, Linked(t, S, root), NEW pos,
           NEW edge, Ordered(t, S, pos, edge), NEW n \in S, NEW side \in Sides
    PROVE  LET m == Climb(t, n, side)
           IN  m \in S /\ ~ClimbsOn(t, m, side) /\ edge[m][side] = edge[n][side]
<1> DEFINE at == Upwards(t, n, side)
           k == CHOOSE k \in Rounds(t) : ~ClimbsOn(t, at[k], side)
           m == Climb(t, n, side)
<1>1. k \in Rounds(t) /\ ~ClimbsOn(t, at[k], side)
    BY UpwardsEnds
<1>2. m = at[k]
    BY DEF Climb, HighestOf
<1> HIDE DEF k, at, m
<1>3. k \in Nat
    <2>1. Cardinality(DOMAIN t) \in Nat
        BY FS_CardinalityType
    <2>2. QED
        BY <1>1, <2>1 DEF Rounds
<1>4. at[k] \in AtEdge(S, edge, n, side)
    BY <1>3, UpwardsIs DEF at
<1>5. QED
    BY <1>1, <1>2, <1>4 DEF AtEdge, m

\* Every node lies between the edges of the root.
LEMMA RootSpans ==
    ASSUME NEW t, IsFiniteSet(DOMAIN t), NEW S, NEW root, NEW pos, NEW edge,
           Tree(t, S, root, pos, edge, {}), NEW n \in S
    PROVE  edge[root]["left"] < pos[n] /\ pos[n] < edge[root]["right"]
<1>1. PICK C : Ways(t, S, edge, root, pos[n], n, C)
    BY WayUp
<1>2. QED
    BY <1>1 DEF Ways

\* forward and backward: from every element the walk goes to the element with the
\* next position on that side, and it ends, with Null, at the last one only.
THEOREM StepMoves ==
    ASSUME NEW t, IsFiniteSet(DOMAIN t), NEW S, NEW root, NEW pos, NEW edge,
           Tree(t, S, root, pos, edge, {}), NEW n \in S, NEW side \in Sides
    PROVE  LET next == step(t, n, side)
           IN  IF pos[n] + Toward(side) = edge[root][side] THEN next = Null
               ELSE next \in S /\ pos[next] = pos[n] + Toward(side)
<1> DEFINE o == Opposite(side)
           p == pos[n] + Toward(side)
           next == step(t, n, side)
<1>1. Linked(t, S, root) /\ Ordered(t, S, pos, edge)
    BY DEF Tree
<1>2. /\ o \in Sides /\ Opposite(o) = side /\ o # side
      /\ Toward(side) \in Int /\ Toward(o) = -Toward(side)
    BY OppositeSide
<1>3. \A m \in S : pos[m] \in Int
    BY <1>1 DEF Ordered
<1>4. root \in S /\ Null \notin S
    BY <1>1 DEF Linked, IsTree
<1>5. ASSUME NEW m \in S PROVE pos[m] # edge[root][side]
    <2>1. edge[root]["left"] < pos[m] /\ pos[m] < edge[root]["right"]
        BY RootSpans
    <2>2. pos[m] \in Int /\ edge[root]["left"] \in Int /\ edge[root]["right"] \in Int
        BY <1>4, PathSizes
    <2>3. side = "left" \/ side = "right"
        BY DEF Sides
    <2>4. QED
        BY <2>1, <2>2, <2>3
<1>6. CASE t[n][side] # Null
    <2> DEFINE c == t[n][side]
    <2>1. c \in S /\ edge[c][o] = pos[n]
        BY <1>1, <1>6 DEF Linked, Ordered
    <2>2. next = find_outmost(t, c, o)
        BY <1>6 DEF step
    <2> HIDE DEF c, o, next
    <2>3. next \in S /\ edge[c][o] = pos[next] + Toward(o)
        BY <1>1, <1>2, <2>1, <2>2, OutmostIs
    <2>4. pos[next] = p
        <3> DEFINE x == pos[next]  y == pos[n]  d == Toward(side)
        <3>1. x \in Int /\ y \in Int /\ d \in Int /\ y = x + -d
            BY <1>2, <1>3, <2>1, <2>3
        <3> HIDE DEF x, y, d
        <3>2. x = y + d
            BY <3>1
        <3>3. QED
            BY <3>2 DEF x, y, d
    <2>5. p # edge[root][side]
        BY <1>5, <2>3, <2>4
    <2>6. QED
        BY <2>3, <2>4, <2>5 DEF next
<1>7. CASE t[n][side] = Null
    <2> DEFINE m == Climb(t, n, side)
               up == t[m].parent
    <2>1. edge[n][side] = p
        BY <1>1, <1>7 DEF Ordered
    <2>2. next = up
        BY <1>7 DEF step
    <2>3. m \in S /\ ~ClimbsOn(t, m, side) /\ edge[m][side] = edge[n][side]
        BY <1>1, ClimbIs
    <2> HIDE DEF m, next
    <2>4. CASE up = Null
        <3>1. m = root
            BY <1>1, <2>3, <2>4 DEF Linked
        <3>2. p = edge[root][side]
            BY <2>1, <2>3, <3>1
        <3>3. QED
            BY <2>2, <2>4, <3>2 DEF next
    <2>5. CASE up # Null
        <3>1. child_type(t, m) # side
            BY <2>3, <2>5 DEF ClimbsOn
        <3>2. up \in S /\ t[up][o] = m
            BY <1>1, <2>3, <2>5, <3>1, ChildType
        <3>3. m # Null
            BY <1>4, <2>3
        <3> HIDE DEF up, o
        <3>4. edge[m][side] = pos[up]
            BY <1>1, <1>2, <3>2, <3>3 DEF Ordered
        <3>5. pos[up] = p
            BY <2>1, <2>3, <3>4
        <3>6. p # edge[root][side]
            BY <1>5, <3>2, <3>5
        <3>7. QED
            BY <2>2, <3>2, <3>5, <3>6 DEF next
    <2>6. QED
        BY <2>4, <2>5
<1>8. QED
    BY <1>6, <1>7

-----------------------------------------------------------------------------
(* Insertion                                                                 *)

\* On the way up from n, n is below the child on its side, and only there.
LEMMA WayDown ==
    ASSUME NEW t, NEW S, NEW root, NEW pos, NEW edge, Tree(t, S, root, pos, edge, {}),
           NEW n \in S, NEW C, Ways(t, S, edge, root, pos[n], n, C), NEW m \in C
    PROVE  /\ m = n => t[m].left \notin C /\ t[m].right \notin C
           /\ m # n => pos[m] # pos[n]
           /\ m # n /\ pos[n] < pos[m] => t[m].left \in C /\ t[m].right \notin C
           /\ m # n /\ pos[m] < pos[n] => t[m].right \in C /\ t[m].left \notin C
<1> DEFINE p == pos[n]
<1>1. m \in S /\ C \subseteq S /\ Null \notin S
    BY DEF Ways, Tree, Linked, IsTree
<1>2. \A c \in C : edge[c]["left"] < p /\ p < edge[c]["right"]
    BY DEF Ways
<1>3. /\ pos[m] \in Int
      /\ t[m].left # Null => edge[t[m].left]["right"] = pos[m]
      /\ t[m].right # Null => edge[t[m].right]["left"] = pos[m]
    BY <1>1, PathSizes
<1>4. p \in Int
    BY PathSizes
<1> HIDE DEF p
<1>5. t[m].left \in C => p < pos[m]
    BY <1>1, <1>2, <1>3
<1>6. t[m].right \in C => pos[m] < p
    BY <1>1, <1>2, <1>3
<1>7. m # n => t[m].left \in C \/ t[m].right \in C
    BY DEF Ways, Sides
<1>8. CASE m = n
    <2>1. pos[m] = p
        BY <1>8 DEF p
    <2>2. QED
        BY <1>3, <1>4, <1>5, <1>6, <1>8, <2>1
<1>9. CASE m # n
    <2>1. CASE t[m].left \in C
        <3>1. p < pos[m] /\ t[m].right \notin C
            BY <1>3, <1>4, <1>5, <1>6, <2>1
        <3>2. pos[m] # p /\ ~(pos[m] < p)
            BY <1>3, <1>4, <3>1
        <3>3. QED
            BY <1>9, <2>1, <3>1, <3>2 DEF p
    <2>2. CASE t[m].right \in C
        <3>1. pos[m] < p /\ t[m].left \notin C
            BY <1>3, <1>4, <1>5, <1>6, <2>2
        <3>2. pos[m] # p /\ ~(p < pos[m])
            BY <1>3, <1>4, <3>1
        <3>3. QED
            BY <1>9, <2>2, <3>1, <3>2 DEF p
    <2>3. QED
        BY <1>7, <1>9, <2>1, <2>2
<1>10. QED
    BY <1>8, <1>9

\* When something changes below n, the nodes on the way up are the stale ones.
LEMMA WayIsStale ==
    ASSUME NEW t, NEW S, NEW root, NEW pos, NEW edge, Tree(t, S, root, pos, edge, {}),
           NEW n \in S, NEW C, Ways(t, S, edge, root, pos[n], n, C)
    PROVE  Stale(t, S, C, n)
<1>1. /\ C \subseteq S /\ n \in C /\ \A a \in C : t[a].parent \in C \cup {Null}
    BY DEF Ways
<1>2. \A side \in Sides : t[n][side] \notin C
    BY <1>1, WayDown DEF Sides
<1>3. ASSUME NEW a \in C, a # n
      PROVE  \E side \in Sides : t[a][side] \in C /\ t[a][Opposite(side)] \notin C
    <2>1. pos[a] \in Int /\ pos[n] \in Int
        BY <1>1, PathSizes
    <2>2. /\ pos[a] # pos[n]
          /\ pos[n] < pos[a] => t[a].left \in C /\ t[a].right \notin C
          /\ pos[a] < pos[n] => t[a].right \in C /\ t[a].left \notin C
        BY <1>3, WayDown
    <2>3. (t[a].left \in C /\ t[a].right \notin C) \/ (t[a].right \in C /\ t[a].left \notin C)
        <3>1. pos[n] < pos[a] \/ pos[a] < pos[n]
            BY <2>1, <2>2
        <3>2. QED
            BY <2>2, <3>1
    <2>4. QED
        BY <2>3 DEF Sides, Opposite
<1>4. QED
    BY <1>1, <1>2, <1>3 DEF Stale

\* Where the ways up from two nodes meet.
LEMMA WaysMeet ==
    ASSUME NEW t, NEW S, NEW root, NEW pos, NEW edge, Tree(t, S, root, pos, edge, {}),
           NEW a \in S, NEW C, Ways(t, S, edge, root, pos[a], a, C),
           NEW b \in S, NEW D, Ways(t, S, edge, root, pos[b], b, D)
    PROVE  \E d \in C \cap D : t[d].left \notin C \cap D /\ t[d].right \notin C \cap D
<1> DEFINE E == C \cap D
           T == {Width(edge, e) : e \in E}
<1>1. root \in E /\ E \subseteq S /\ Null \notin S
    BY DEF Ways, Tree, Linked, IsTree
<1>2. Linked(t, S, root) /\ Ordered(t, S, pos, edge)
    BY DEF Tree
<1>3. \A e \in S : Width(edge, e) \in Nat
    <2>1. ASSUME NEW e \in S PROVE Width(edge, e) \in Nat
        <3> DEFINE x == edge[e]["left"]  y == edge[e]["right"]  z == pos[e]
        <3>1. x \in Int /\ y \in Int /\ z \in Int /\ x < z /\ z < y
            BY PathSizes
        <3>2. Width(edge, e) = y - x - 1
            BY DEF Width
        <3> HIDE DEF x, y, z
        <3>3. QED
            BY <3>1, <3>2
    <2>2. QED
        BY <2>1
<1>4. T \subseteq Nat /\ T # {}
    BY <1>1, <1>3
<1>5. PICK x \in T : \A y \in T : x <= y
    BY <1>4, Least
<1>6. PICK d \in E : x = Width(edge, d)
    BY <1>5
<1>7. ASSUME NEW side \in Sides PROVE t[d][side] \notin E
    <2> SUFFICES ASSUME t[d][side] \in E PROVE FALSE
        OBVIOUS
    <2> DEFINE c == t[d][side]
               y == Width(edge, c)
               z == Width(edge, d)
    <2>1. c # Null /\ d \in S /\ c \in S
        BY <1>1
    <2>2. y < z
        BY <1>2, <2>1, ChildNarrower
    <2>3. y \in Nat /\ z \in Nat /\ z <= y
        BY <1>3, <1>5, <1>6, <2>1
    <2> HIDE DEF y, z
    <2>4. QED
        BY <2>2, <2>3
<1>8. t[d].left \notin E /\ t[d].right \notin E
    BY <1>7 DEF Sides
<1>9. QED
    BY <1>8

\* A node whose subtree spans the position of a is on the way up from a.
LEMMA SpanIsAbove ==
    ASSUME NEW t, IsFiniteSet(DOMAIN t), NEW S, NEW root, NEW pos, NEW edge,
           Tree(t, S, root, pos, edge, {}),
           NEW a \in S, NEW C, Ways(t, S, edge, root, pos[a], a, C),
           NEW m \in S, edge[m]["left"] < pos[a], pos[a] < edge[m]["right"]
    PROVE  m \in C
<1> SUFFICES ASSUME m \notin C PROVE FALSE
    OBVIOUS
<1>1. PICK D : Ways(t, S, edge, root, pos[m], m, D)
    BY WayUp
<1>2. PICK d \in C \cap D : t[d].left \notin C \cap D /\ t[d].right \notin C \cap D
    BY <1>1, WaysMeet
<1>3. d # m /\ d \in C /\ d \in D /\ d \in S /\ Null \notin S /\ D \subseteq S
    BY <1>1 DEF Ways, Tree, Linked, IsTree
<1>4. /\ pos[d] # pos[m]
      /\ pos[m] < pos[d] => t[d].left \in D
      /\ pos[d] < pos[m] => t[d].right \in D
    BY <1>1, <1>3, WayDown
<1>5. \A x \in D : edge[x]["left"] <= edge[m]["left"] /\ edge[m]["right"] <= edge[x]["right"]
    BY <1>1 DEF Ways, Within
<1>6. /\ pos[d] \in Int /\ pos[m] \in Int /\ pos[a] \in Int
      /\ edge[m]["left"] \in Int /\ edge[m]["right"] \in Int
      /\ t[d].left # Null => edge[t[d].left]["right"] = pos[d]
      /\ t[d].right # Null => edge[t[d].right]["left"] = pos[d]
    BY <1>3, PathSizes
<1>7. CASE pos[m] < pos[d]
    <2>1. t[d].left \in D /\ t[d].left # Null
        BY <1>3, <1>4, <1>7
    <2>2. edge[m]["right"] <= pos[d]
        BY <1>5, <1>6, <2>1
    <2>3. pos[a] < pos[d]
        BY <1>6, <2>2
    <2>4. d # a
        BY <1>6, <2>3
    <2>5. t[d].left \in C
        BY <1>3, <2>3, <2>4, WayDown
    <2>6. QED
        BY <1>2, <2>1, <2>5
<1>8. CASE pos[d] < pos[m]
    <2>1. t[d].right \in D /\ t[d].right # Null
        BY <1>3, <1>4, <1>8
    <2>2. pos[d] <= edge[m]["left"]
        BY <1>5, <1>6, <2>1
    <2>3. pos[d] < pos[a]
        BY <1>6, <2>2
    <2>4. d # a
        BY <1>6, <2>3
    <2>5. t[d].right \in C
        BY <1>3, <2>3, <2>4, WayDown
    <2>6. QED
        BY <1>2, <2>1, <2>5
<1>9. QED
    BY <1>4, <1>6, <1>7, <1>8

\* Of two neighbours one is below the other.
LEMMA Neighbours ==
    ASSUME NEW t, IsFiniteSet(DOMAIN t), NEW S, NEW root, NEW pos, NEW edge,
           Tree(t, S, root, pos, edge, {}), NEW a \in S, NEW b \in S, pos[b] = pos[a] + 1
    PROVE  t[a].right # Null \/ t[b].left # Null
<1> SUFFICES ASSUME t[a].right = Null, t[b].left = Null PROVE FALSE
    OBVIOUS
<1>1. PICK C : Ways(t, S, edge, root, pos[a], a, C)
    BY WayUp
<1>2. PICK D : Ways(t, S, edge, root, pos[b], b, D)
    BY WayUp
<1>3. PICK d \in C \cap D : t[d].left \notin C \cap D /\ t[d].right \notin C \cap D
    BY <1>1, <1>2, WaysMeet
<1>4. d \in C /\ d \in D /\ d \in S /\ Null \notin S /\ C \subseteq S /\ D \subseteq S
    BY <1>1, <1>2 DEF Ways, Tree, Linked, IsTree
<1>5. pos[d] \in Int /\ pos[a] \in Int /\ pos[b] \in Int
    BY <1>4, PathSizes
<1>6. pos[a] < pos[b] /\ a # b
    BY <1>5
<1>7. d # a
    <2>1. d = a => t[d].right \in D
        BY <1>2, <1>4, <1>6, WayDown
    <2>2. QED
        BY <1>4, <2>1
<1>8. d # b
    <2>1. d = b => t[d].left \in C
        BY <1>1, <1>4, <1>6, WayDown
    <2>2. QED
        BY <1>4, <2>1
<1>9. /\ pos[d] # pos[a]
      /\ pos[a] < pos[d] => t[d].left \in C
      /\ pos[d] < pos[a] => t[d].right \in C
    BY <1>1, <1>4, <1>7, WayDown
<1>10. /\ pos[d] # pos[b]
       /\ pos[b] < pos[d] => t[d].left \in D
       /\ pos[d] < pos[b] => t[d].right \in D
    BY <1>2, <1>4, <1>8, WayDown
<1>11. (pos[a] < pos[d] /\ pos[b] < pos[d]) \/ (pos[d] < pos[a] /\ pos[d] < pos[b])
    <2> DEFINE x == pos[a]  y == pos[b]  z == pos[d]
    <2>1. x \in Int /\ y = x + 1 /\ z \in Int /\ z # x /\ z # y
        BY <1>5, <1>9, <1>10
    <2> HIDE DEF x, y, z
    <2>2. (x < z /\ y < z) \/ (z < x /\ z < y)
        BY <2>1
    <2>3. QED
        BY <2>2 DEF x, y, z
<1>12. QED
    BY <1>3, <1>9, <1>10, <1>11

\* The free place at a node, on one side, for a new node with position P; the
\* subtrees that grow by it are those on the way up.
FreePlace(t, pos, a, side, P) ==
    /\ t[a][side] = Null
    /\ \/ side = "left" /\ P = pos[a]
       \/ side = "right" /\ P = pos[a] + 1

Grows(edge, P, m) == edge[m]["left"] < P /\ P <= edge[m]["right"]

LEMMA GrowsAbove ==
    ASSUME NEW t, IsFiniteSet(DOMAIN t), NEW S, NEW root, NEW pos, NEW edge,
           Tree(t, S, root, pos, edge, {}),
           NEW a \in S, NEW C, Ways(t, S, edge, root, pos[a], a, C),
           NEW side \in Sides, NEW P, FreePlace(t, pos, a, side, P),
           NEW m \in S, Grows(edge, P, m)
    PROVE  m \in C
<1> DEFINE el == edge[m]["left"]
           er == edge[m]["right"]
           p == pos[a]
<1>1. el \in Int /\ er \in Int /\ p \in Int /\ \A x \in S : pos[x] \in Int
    BY PathSizes
<1>2. el < P /\ P <= er
    BY DEF Grows
<1>3. Linked(t, S, root) /\ Ordered(t, S, pos, edge)
    BY DEF Tree
<1>4. CASE side = "left"
    <2>1. P = p /\ t[a].left = Null
        BY <1>4 DEF FreePlace
    <2>2. CASE P < er
        <3>1. el < p /\ p < er
            BY <1>2, <2>1, <2>2
        <3>2. QED
            BY <3>1, SpanIsAbove
    <2>3. CASE ~(P < er)
        <3> DEFINE x == find_outmost(t, m, "right")
        <3>1. er = p
            <4> HIDE DEF er, el, p
            <4>1. QED
                BY <1>1, <1>2, <2>1, <2>3
        <3>2. x \in S /\ t[x]["right"] = Null /\ edge[m]["right"] = pos[x] + Toward("right")
            BY <1>3, OutmostIs DEF Sides
        <3> HIDE DEF x
        <3>3. pos[a] = pos[x] + 1
            BY <3>1, <3>2 DEF Toward
        <3>4. t[x].right # Null \/ t[a].left # Null
            BY <3>2, <3>3, Neighbours
        <3>5. QED
            BY <2>1, <3>2, <3>4
    <2>4. QED
        BY <2>2, <2>3
<1>5. CASE side = "right"
    <2>1. P = p + 1 /\ t[a].right = Null
        BY <1>5 DEF FreePlace
    <2>2. CASE el < p
        <3>1. p < er
            <4> HIDE DEF er, el, p
            <4>1. QED
                BY <1>1, <1>2, <2>1
        <3>2. QED
            BY <2>2, <3>1, SpanIsAbove
    <2>3. CASE ~(el < p)
        <3> DEFINE x == find_outmost(t, m, "left")
        <3>1. el = p
            <4> HIDE DEF er, el, p
            <4>1. QED
                BY <1>1, <1>2, <2>1, <2>3
        <3>2. x \in S /\ t[x]["left"] = Null /\ edge[m]["left"] = pos[x] + Toward("left")
            BY <1>3, OutmostIs DEF Sides
        <3> HIDE DEF x
        <3>3. pos[x] \in Int /\ p = pos[x] + -1
            BY <1>1, <3>1, <3>2 DEF Toward
        <3>4. pos[x] = pos[a] + 1
            BY <1>1, <3>3
        <3>5. t[a].right # Null \/ t[x].left # Null
            BY <3>2, <3>4, Neighbours
        <3>6. QED
            BY <2>1, <3>2, <3>5
    <2>4. QED
        BY <2>2, <2>3
<1>6. QED
    BY <1>4, <1>5 DEF Sides

\* The places of the other nodes: those from P on move up by one.
Shift(P, q) == IF q >= P THEN q + 1 ELSE q

InsertedPos(S, pos, n, P) ==
    [m \in S \cup {n} |-> IF m = n THEN P ELSE Shift(P, pos[m])]

InsertedEdge(S, edge, n, P) ==
    [m \in S \cup {n} |->
        [side \in Sides |-> IF m # n THEN Shift(P, edge[m][side])
                            ELSE P + Toward(side)]]

\* The new tree, before anything above the new leaf is recalculated.
Attached(t, u, n, a, side) ==
    /\ IsTree(u) /\ DOMAIN u = DOMAIN t
    /\ u[n].parent = a /\ u[n].left = Null /\ u[n].right = Null
    /\ u[n].size = 1 /\ u[n].height = 1
    /\ \A m \in DOMAIN t \ {n} :
        /\ u[m].parent = t[m].parent /\ u[m].size = t[m].size /\ u[m].height = t[m].height
        /\ \A s \in Sides : u[m][s] = IF m = a /\ s = side THEN n ELSE t[m][s]

LEMMA AttachedResult ==
    ASSUME NEW t, IsTree(t), NEW n \in DOMAIN t, NEW a \in DOMAIN t, a # n, NEW side \in Sides
    PROVE  Attached(t, [t EXCEPT ![n] = [FreshNode EXCEPT !.parent = a], ![a][side] = n],
                    n, a, side)
<1> DEFINE fresh == [FreshNode EXCEPT !.parent = a]
           v == [t EXCEPT ![n] = fresh]
           w == [t[a] EXCEPT ![side] = n]
           u == [t EXCEPT ![n] = fresh, ![a][side] = n]
           D == DOMAIN t
<1>1. fresh = [left |-> Null, right |-> Null, parent |-> a, size |-> 1, height |-> 1]
    BY DEF FreshNode
<1>2. fresh \in NodeType(D)
    BY <1>1 DEF NodeType
<1>3. t \in [D -> NodeType(D)] /\ Null \notin D
    BY DEF IsTree
<1>4. u = [m \in D |-> IF m = a THEN w ELSE IF m = n THEN fresh ELSE t[m]]
    BY <1>3
<1>5. w \in NodeType(D)
    <2>1. t[a] \in NodeType(D)
        BY <1>3
    <2>2. side = "left" \/ side = "right"
        BY DEF Sides
    <2>3. QED
        BY <2>1, <2>2 DEF NodeType
<1>6. /\ w.parent = t[a].parent /\ w.size = t[a].size /\ w.height = t[a].height
      /\ \A s \in Sides : w[s] = IF s = side THEN n ELSE t[a][s]
    <2>1. t[a] \in NodeType(D)
        BY <1>3
    <2>2. CASE side = "left"
        BY <2>1, <2>2 DEF NodeType, Sides
    <2>3. CASE side = "right"
        BY <2>1, <2>3 DEF NodeType, Sides
    <2>4. QED
        BY <2>2, <2>3 DEF Sides
<1>7. /\ fresh.parent = a /\ fresh.left = Null /\ fresh.right = Null
      /\ fresh.size = 1 /\ fresh.height = 1
    BY <1>1
<1> HIDE DEF fresh, w, u
<1>8. u \in [D -> NodeType(D)]
    BY <1>2, <1>3, <1>4, <1>5
<1>9. DOMAIN u = D /\ IsTree(u)
    BY <1>3, <1>8 DEF IsTree
<1>10. u[n] = fresh /\ u[a] = w /\ \A m \in D : m # n /\ m # a => u[m] = t[m]
    BY <1>4
<1>11. QED
    BY <1>6, <1>7, <1>9, <1>10 DEF Attached, u, fresh

LEMMA AttachedLinks ==
    ASSUME NEW t, NEW S, NEW root, Linked(t, S, root),
           NEW n \in DOMAIN t \ S, NEW a \in S, NEW side \in Sides, t[a][side] = Null,
           NEW u, Attached(t, u, n, a, side)
    PROVE  Linked(u, S \cup {n}, root) /\ SameElsewhere(t, u, S \cup {n})
<1> DEFINE R == S \cup {n}
<1>1. /\ IsTree(t) /\ S \subseteq DOMAIN t /\ root \in S /\ Null \notin S /\ n # Null
      /\ n \notin S /\ a # n
    BY DEF Linked, IsTree
<1>2. /\ IsTree(u) /\ DOMAIN u = DOMAIN t
      /\ u[n].parent = a /\ \A s \in Sides : u[n][s] = Null
    BY DEF Attached, Sides
<1>3. \A m \in S : /\ u[m].parent = t[m].parent
                   /\ \A s \in Sides : u[m][s] = IF m = a /\ s = side THEN n ELSE t[m][s]
    BY <1>1 DEF Attached
<1>4. ASSUME NEW m \in R, NEW s \in Sides, u[m][s] # Null
      PROVE  u[m][s] \in R /\ u[u[m][s]].parent = m
    <2>1. m \in S
        BY <1>2, <1>4
    <2>2. CASE m = a /\ s = side
        BY <1>2, <1>3, <2>1, <2>2
    <2>3. CASE ~(m = a /\ s = side)
        <3>1. u[m][s] = t[m][s] /\ t[m][s] # Null
            BY <1>3, <1>4, <2>1, <2>3
        <3>2. t[m][s] \in S /\ t[t[m][s]].parent = m
            BY <2>1, <3>1 DEF Linked
        <3>3. QED
            BY <1>3, <3>1, <3>2
    <2>4. QED
        BY <2>2, <2>3
<1>5. ASSUME NEW m \in R, u[m].parent # Null
      PROVE  u[m].parent \in R /\ \E s \in Sides : u[u[m].parent][s] = m
    <2>1. CASE m = n
        <3>1. u[a][side] = n
            BY <1>3
        <3>2. QED
            BY <1>2, <2>1, <3>1
    <2>2. CASE m \in S
        <3>1. u[m].parent = t[m].parent /\ t[m].parent # Null
            BY <1>3, <1>5, <2>2
        <3>2. t[m].parent \in S /\ \E s \in Sides : t[t[m].parent][s] = m
            BY <2>2, <3>1 DEF Linked
        <3>3. PICK s \in Sides : t[t[m].parent][s] = m
            BY <3>2
        <3>4. u[t[m].parent][s] = m
            BY <1>1, <1>3, <2>2, <3>2, <3>3
        <3>5. QED
            BY <3>1, <3>2, <3>4
    <2>3. QED
        BY <2>1, <2>2
<1>6. ASSUME NEW m \in R PROVE u[m].parent = Null <=> m = root
    <2>1. CASE m = n
        BY <1>1, <1>2, <2>1
    <2>2. CASE m \in S
        BY <1>3, <2>2 DEF Linked
    <2>3. QED
        BY <2>1, <2>2
<1>7. SameElsewhere(t, u, R)
    <2>1. ASSUME NEW m \in DOMAIN t \ R
          PROVE  u[m].left = t[m].left /\ u[m].right = t[m].right /\ u[m].parent = t[m].parent
                 /\ Fields(t, u, m)
        <3>1. m # a /\ m # n
            OBVIOUS
        <3>2. u[m]["left"] = t[m]["left"] /\ u[m]["right"] = t[m]["right"]
            BY <3>1 DEF Attached, Sides
        <3>3. QED
            BY <3>1, <3>2 DEF Attached, Fields
    <2>2. QED
        BY <1>2, <2>1 DEF SameElsewhere
<1>8. R \subseteq DOMAIN u /\ root \in R
    BY <1>1, <1>2
<1> HIDE DEF R
<1>9. Linked(u, R, root)
    BY <1>2, <1>4, <1>5, <1>6, <1>8 DEF Linked
<1>10. QED
    BY <1>7, <1>9 DEF R

LEMMA ShiftFacts ==
    ASSUME NEW P \in Int
    PROVE  /\ \A x \in Int : Shift(P, x) \in Int
           /\ \A x, y \in Int : x < y => Shift(P, x) < Shift(P, y)
           /\ \A x \in Int : x # P => Shift(P, x - 1) = Shift(P, x) - 1
           /\ \A x \in Int : x # P - 1 => Shift(P, x + 1) = Shift(P, x) + 1
           /\ Shift(P, P) = P + 1 /\ Shift(P, P - 1) = P - 1
           /\ \A x, y \in Int : x < y /\ ~(x < P /\ P <= y) =>
                Shift(P, y) - Shift(P, x) - 1 = y - x - 1
BY DEF Shift

\* The new positions fit the new links.
LEMMA AttachedOrder ==
    ASSUME NEW t, IsFiniteSet(DOMAIN t), NEW S, NEW root, NEW pos, NEW edge,
           Tree(t, S, root, pos, edge, {}),
           NEW a \in S, NEW C, Ways(t, S, edge, root, pos[a], a, C),
           NEW side \in Sides, NEW P \in Int, FreePlace(t, pos, a, side, P),
           NEW n \in DOMAIN t \ S, NEW u, Attached(t, u, n, a, side)
    PROVE  Ordered(u, S \cup {n}, InsertedPos(S, pos, n, P), InsertedEdge(S, edge, n, P))
<1> DEFINE R == S \cup {n}
           q == InsertedPos(S, pos, n, P)
           e == InsertedEdge(S, edge, n, P)
<1>1. Linked(t, S, root) /\ Ordered(t, S, pos, edge)
    BY DEF Tree
<1>2. /\ n \notin S /\ n # a /\ Null \notin S /\ n # Null /\ S \subseteq DOMAIN t
      /\ C \subseteq S
    BY <1>1 DEF Linked, IsTree, Ways
<1>3. /\ \A m \in S : pos[m] \in Int /\ \A s \in Sides : edge[m][s] \in Int
      /\ \A m \in S : edge[m]["left"] < pos[m] /\ pos[m] < edge[m]["right"]
    BY <1>1 DEF Ordered
<1>4. "left" \in Sides /\ "right" \in Sides /\ \A s \in Sides : Toward(s) \in Int
    BY DEF Sides, Toward
<1>5. q[n] = P /\ \A m \in S : q[m] = Shift(P, pos[m])
    BY <1>2 DEF InsertedPos
<1>6. /\ \A s \in Sides : e[n][s] = P + Toward(s)
      /\ \A m \in S : \A s \in Sides : e[m][s] = Shift(P, edge[m][s])
    BY <1>2 DEF InsertedEdge
<1>7. q \in [R -> Int]
    <2>1. \A m \in S : Shift(P, pos[m]) \in Int
        BY <1>3, ShiftFacts
    <2>2. QED
        BY <2>1 DEF InsertedPos
<1>8. e \in [R -> [Sides -> Int]]
    <2>1. \A m \in S : \A s \in Sides : Shift(P, edge[m][s]) \in Int
        BY <1>3, ShiftFacts
    <2>2. \A s \in Sides : P + Toward(s) \in Int
        BY <1>4
    <2>3. QED
        BY <2>1, <2>2 DEF InsertedEdge
<1> HIDE DEF q, e
<1>9. Toward("left") = -1 /\ Toward("right") = 1 /\ P + -1 = P - 1
    BY DEF Toward
<1>10. ASSUME NEW m \in R PROVE e[m]["left"] < q[m] /\ q[m] < e[m]["right"]
    <2>1. CASE m = n
        <3>1. e[m]["left"] = P - 1 /\ e[m]["right"] = P + 1 /\ q[m] = P
            BY <1>4, <1>5, <1>6, <1>9, <2>1
        <3>2. QED
            BY <3>1
    <2>2. CASE m \in S
        <3>1. /\ e[m]["left"] = Shift(P, edge[m]["left"])
              /\ e[m]["right"] = Shift(P, edge[m]["right"]) /\ q[m] = Shift(P, pos[m])
            BY <1>4, <1>5, <1>6, <2>2
        <3>2. QED
            BY <1>3, <1>4, <2>2, <3>1 DEF Shift
    <2>3. QED
        BY <2>1, <2>2
<1>11. ASSUME NEW m \in R, NEW s \in Sides
       PROVE  LET c == u[m][s]
              IN  IF c = Null THEN e[m][s] = q[m] + Toward(s)
                  ELSE e[c][s] = e[m][s] /\ e[c][Opposite(s)] = q[m]
    <2> DEFINE c == u[m][s]
    <2>1. CASE m = n
        <3>1. c = Null
            BY <2>1 DEF Attached, Sides
        <3>2. QED
            BY <1>5, <1>6, <2>1, <3>1
    <2>2. CASE m = a /\ s = side
        <3>1. c = n
            BY <1>2, <2>2 DEF Attached
        <3>2. edge[a][side] = pos[a] + Toward(side)
            BY <1>1, <2>2 DEF FreePlace, Ordered
        <3>3. CASE side = "left"
            <4>1. P = pos[a] /\ edge[a]["left"] = P - 1
                BY <1>9, <3>2, <3>3 DEF FreePlace
            <4>2. e[a]["left"] = P - 1 /\ q[a] = P + 1
                BY <1>4, <1>5, <1>6, <4>1 DEF Shift
            <4>3. e[n]["left"] = P - 1 /\ e[n]["right"] = P + 1
                BY <1>4, <1>6, <1>9
            <4>4. QED
                BY <1>2, <2>2, <3>1, <3>3, <4>2, <4>3, OppositeSide
        <3>4. CASE side = "right"
            <4>1. P = pos[a] + 1 /\ edge[a]["right"] = P /\ pos[a] = P - 1
                BY <1>3, <1>9, <3>2, <3>4 DEF FreePlace
            <4>2. e[a]["right"] = P + 1 /\ q[a] = P - 1
                <5>1. e[a]["right"] = Shift(P, P) /\ q[a] = Shift(P, P - 1)
                    BY <1>4, <1>5, <1>6, <4>1
                <5>2. QED
                    BY <5>1 DEF Shift
            <4>3. e[n]["left"] = P - 1 /\ e[n]["right"] = P + 1
                BY <1>4, <1>6, <1>9
            <4>4. QED
                BY <1>2, <2>2, <3>1, <3>4, <4>2, <4>3, OppositeSide
        <3>5. QED
            BY <3>3, <3>4 DEF Sides
    <2>3. CASE m \in S /\ ~(m = a /\ s = side)
        <3>1. c = t[m][s]
            BY <1>2, <2>3 DEF Attached
        <3>2. e[m][s] = Shift(P, edge[m][s]) /\ q[m] = Shift(P, pos[m])
            BY <1>5, <1>6, <2>3
        <3>3. CASE t[m][s] # Null
            <4>1. t[m][s] \in S
                BY <1>1, <2>3, <3>3 DEF Linked
            <4>2. edge[t[m][s]][s] = edge[m][s] /\ edge[t[m][s]][Opposite(s)] = pos[m]
                BY <1>1, <2>3, <3>3 DEF Ordered
            <4>3. Opposite(s) \in Sides
                BY OppositeSide
            <4>4. e[c][s] = Shift(P, edge[t[m][s]][s])
                  /\ e[c][Opposite(s)] = Shift(P, edge[t[m][s]][Opposite(s)])
                BY <1>6, <3>1, <4>1, <4>3
            <4>5. QED
                BY <3>1, <3>2, <3>3, <4>2, <4>4
        <3>4. CASE t[m][s] = Null
            <4>1. edge[m][s] = pos[m] + Toward(s)
                BY <1>1, <2>3, <3>4 DEF Ordered
            <4>2. pos[a] \in Int /\ pos[m] \in Int
                BY <1>3, <2>3
            <4>3. P = pos[a] \/ P = pos[a] + 1
                BY DEF FreePlace
            <4>4. m = a => s # side
                BY <2>3
            <4>5. CASE s = "left"
                <5>1. edge[m]["left"] = pos[m] - 1
                    BY <1>9, <4>1, <4>2, <4>5
                <5>2. pos[m] # P
                    <6> SUFFICES ASSUME pos[m] = P PROVE FALSE
                        OBVIOUS
                    <6>1. Grows(edge, P, m)
                        BY <1>3, <1>4, <2>3, <4>2, <5>1 DEF Grows
                    <6>2. m \in C
                        BY <2>3, <6>1, GrowsAbove
                    <6>3. m # a
                        <7>1. m = a => side = "right"
                            BY <4>4, <4>5 DEF Sides
                        <7>2. side = "right" => P = pos[a] + 1
                            BY DEF FreePlace
                        <7>3. QED
                            BY <4>2, <7>1, <7>2
                    <6>4. pos[a] < pos[m]
                        <7>1. pos[m] # pos[a]
                            BY <6>2, <6>3, WayDown
                        <7>2. QED
                            BY <4>2, <4>3, <7>1
                    <6>5. t[m].left \in C
                        BY <6>2, <6>3, <6>4, WayDown
                    <6>6. QED
                        BY <1>2, <3>4, <4>5, <6>5
                <5>3. Shift(P, edge[m]["left"]) = Shift(P, pos[m]) - 1 /\ Shift(P, pos[m]) \in Int
                    BY <4>2, <5>1, <5>2 DEF Shift
                <5>4. e[m][s] = q[m] - 1 /\ q[m] \in Int
                    BY <3>2, <4>5, <5>3
                <5>5. e[m][s] = q[m] + -1
                    BY <5>4
                <5>6. QED
                    BY <1>9, <3>1, <3>4, <4>5, <5>5
            <4>6. CASE s = "right"
                <5>1. edge[m]["right"] = pos[m] + 1
                    BY <1>9, <4>1, <4>6
                <5>2. pos[m] # P - 1
                    <6> SUFFICES ASSUME pos[m] = P - 1 PROVE FALSE
                        OBVIOUS
                    <6>1. Grows(edge, P, m)
                        <7>1. edge[m]["left"] \in Int /\ edge[m]["left"] < pos[m]
                            BY <1>3, <1>4, <2>3
                        <7>2. edge[m]["left"] < P /\ P <= edge[m]["right"]
                            BY <4>2, <5>1, <7>1
                        <7>3. QED
                            BY <7>2 DEF Grows
                    <6>2. m \in C
                        BY <2>3, <6>1, GrowsAbove
                    <6>3. m # a
                        <7>1. m = a => side = "left"
                            BY <4>4, <4>6 DEF Sides
                        <7>2. side = "left" => P = pos[a]
                            BY DEF FreePlace
                        <7>3. QED
                            BY <4>2, <7>1, <7>2
                    <6>4. pos[m] < pos[a]
                        <7>1. pos[m] # pos[a]
                            BY <6>2, <6>3, WayDown
                        <7>2. QED
                            BY <4>2, <4>3, <7>1
                    <6>5. t[m].right \in C
                        BY <6>2, <6>3, <6>4, WayDown
                    <6>6. QED
                        BY <1>2, <3>4, <4>6, <6>5
                <5>3. Shift(P, edge[m]["right"]) = Shift(P, pos[m]) + 1
                    BY <4>2, <5>1, <5>2 DEF Shift
                <5>4. e[m][s] = q[m] + 1
                    BY <3>2, <4>6, <5>3
                <5>5. QED
                    BY <1>9, <3>1, <3>4, <4>6, <5>4
            <4>7. QED
                BY <4>5, <4>6 DEF Sides
        <3>5. QED
            BY <3>3, <3>4
    <2>4. QED
        BY <2>1, <2>2, <2>3
<1> HIDE DEF R
<1>12. Ordered(u, R, q, e)
    BY <1>7, <1>8, <1>10, <1>11 DEF Ordered
<1>13. QED
    BY <1>12 DEF R, q, e

\* Only the nodes on the way up have fields that no longer fit.
LEMMA AttachedCount ==
    ASSUME NEW t, IsFiniteSet(DOMAIN t), NEW S, NEW root, NEW pos, NEW edge,
           Tree(t, S, root, pos, edge, {}),
           NEW a \in S, NEW C, Ways(t, S, edge, root, pos[a], a, C),
           NEW side \in Sides, NEW P \in Int, FreePlace(t, pos, a, side, P),
           NEW n \in DOMAIN t \ S, NEW u, Attached(t, u, n, a, side)
    PROVE  /\ Counted(u, S \cup {n}, InsertedEdge(S, edge, n, P), C)
           /\ Stale(u, S \cup {n}, C, a)
<1> DEFINE e == InsertedEdge(S, edge, n, P)
<1>1. Linked(t, S, root) /\ Ordered(t, S, pos, edge) /\ Counted(t, S, edge, {})
    BY DEF Tree
<1>2. /\ n \notin S /\ n # a /\ Null \notin S /\ n # Null /\ S \subseteq DOMAIN t
      /\ C \subseteq S /\ a \in C
    BY <1>1 DEF Linked, IsTree, Ways
<1>3. "left" \in Sides /\ "right" \in Sides
    BY DEF Sides
<1>4. /\ e[n]["left"] = P - 1 /\ e[n]["right"] = P + 1
      /\ \A m \in S : \A s \in Sides : e[m][s] = Shift(P, edge[m][s])
    <2>1. P + Toward("left") = P - 1 /\ P + Toward("right") = P + 1
        BY DEF Toward
    <2>2. QED
        BY <1>2, <1>3, <2>1 DEF InsertedEdge
<1> HIDE DEF e
<1>5. u[n].size = Width(e, n) /\ u[n].height = HigherOf(u, n) + 1
    <2>1. u[n].left = Null /\ u[n].right = Null /\ u[n].size = 1 /\ u[n].height = 1
        BY DEF Attached
    <2>2. HigherOf(u, n) = 0
        BY <2>1 DEF HigherOf, height
    <2>3. Width(e, n) = 1
        BY <1>4 DEF Width
    <2>4. QED
        BY <2>1, <2>2, <2>3
<1>6. ASSUME NEW m \in S \ C PROVE u[m].size = Width(e, m) /\ u[m].height = HigherOf(u, m) + 1
    <2>1. /\ m # a /\ m # n /\ m \in DOMAIN t
          /\ u[m].size = t[m].size /\ u[m].height = t[m].height
          /\ u[m].left = t[m].left /\ u[m].right = t[m].right
        BY <1>2, <1>3 DEF Attached
    <2>2. t[m].size = Width(edge, m) /\ t[m].height = HigherOf(t, m) + 1
        BY <1>1 DEF Counted
    <2>3. ~Grows(edge, P, m)
        BY GrowsAbove
    <2>4. Width(e, m) = Width(edge, m)
        <3> DEFINE x == edge[m]["left"]  y == edge[m]["right"]
        <3>1. x \in Int /\ y \in Int /\ pos[m] \in Int /\ x < pos[m] /\ pos[m] < y
            BY PathSizes
        <3>2. ~(x < P /\ P <= y)
            BY <2>3 DEF Grows
        <3>3. Width(e, m) = Shift(P, y) - Shift(P, x) - 1 /\ Width(edge, m) = y - x - 1
            BY <1>3, <1>4 DEF Width
        <3> HIDE DEF x, y
        <3>4. Shift(P, y) - Shift(P, x) - 1 = y - x - 1
            BY <3>1, <3>2 DEF Shift
        <3>5. QED
            BY <3>3, <3>4
    <2>5. ASSUME NEW s \in Sides PROVE height(u, t[m][s]) = height(t, t[m][s])
        <3>1. t[m][s] # Null => t[m][s] \in S /\ t[m][s] \in DOMAIN t
            BY <1>1, ChildFacts
        <3>2. QED
            BY <1>2, <3>1 DEF Attached, height
    <2>6. HigherOf(u, m) = HigherOf(t, m)
        <3>1. height(u, t[m].left) = height(t, t[m].left) /\ height(u, t[m].right) = height(t, t[m].right)
            BY <1>3, <2>5
        <3>2. QED
            BY <2>1, <3>1 DEF HigherOf
    <2>7. QED
        BY <2>1, <2>2, <2>4, <2>6
<1>7. Counted(u, S \cup {n}, e, C)
    BY <1>5, <1>6 DEF Counted
<1>8. Stale(t, S, C, a)
    BY WayIsStale
<1>9. \A m \in C : /\ u[m].parent = t[m].parent
                   /\ \A s \in Sides : u[m][s] = IF m = a /\ s = side THEN n ELSE t[m][s]
    BY <1>2 DEF Attached
<1>10. ASSUME NEW s \in Sides PROVE u[a][s] \notin C
    <2>1. t[a][s] \notin C
        BY <1>8 DEF Stale
    <2>2. QED
        BY <1>2, <1>9, <2>1
<1>11. ASSUME NEW m \in C \ {a}
       PROVE  \E s \in Sides : u[m][s] \in C /\ u[m][Opposite(s)] \notin C
    <2>1. PICK s \in Sides : t[m][s] \in C /\ t[m][Opposite(s)] \notin C
        BY <1>8 DEF Stale
    <2>2. Opposite(s) \in Sides
        BY OppositeSide
    <2>3. u[m][s] = t[m][s] /\ u[m][Opposite(s)] = t[m][Opposite(s)]
        BY <1>9, <2>2
    <2>4. QED
        BY <2>1, <2>3
<1>12. \A m \in C : u[m].parent \in C \cup {Null}
    BY <1>8, <1>9 DEF Stale
<1>13. C \subseteq S \cup {n}
    BY <1>2
<1>14. Stale(u, S \cup {n}, C, a)
    BY <1>2, <1>10, <1>11, <1>12, <1>13 DEF Stale
<1>15. QED
    BY <1>7, <1>14 DEF e

\* A new leaf at a free place, and all that follows from it.
LEMMA LeafAttached ==
    ASSUME NEW t, IsFiniteSet(DOMAIN t), NEW S, NEW root, NEW pos, NEW edge,
           Tree(t, S, root, pos, edge, {}), NEW a \in S, NEW side \in Sides,
           NEW P \in Int, FreePlace(t, pos, a, side, P), NEW n \in DOMAIN t \ S,
           NEW u, Attached(t, u, n, a, side)
    PROVE  LET top == restore_height_size_and_balance_of_tree(u, a)
           IN  /\ \E edge2 : Tree(top.tree, S \cup {n}, top.node, InsertedPos(S, pos, n, P),
                                  edge2, {})
               /\ SameElsewhere(t, top.tree, S \cup {n})
<1> DEFINE R == S \cup {n}
           q == InsertedPos(S, pos, n, P)
           e == InsertedEdge(S, edge, n, P)
           top == restore_height_size_and_balance_of_tree(u, a)
<1>1. PICK C : Ways(t, S, edge, root, pos[a], a, C)
    BY WayUp
<1>2. Linked(u, R, root) /\ SameElsewhere(t, u, R)
    <2>1. Linked(t, S, root) /\ t[a][side] = Null
        BY DEF Tree, FreePlace
    <2>2. QED
        BY <2>1, AttachedLinks
<1>3. Ordered(u, R, q, e)
    BY <1>1, AttachedOrder
<1>4. Counted(u, R, e, C) /\ Stale(u, R, C, a)
    BY <1>1, AttachedCount
<1>5. IsFiniteSet(DOMAIN u)
    BY DEF Attached
<1> HIDE DEF R, q, e
<1>6. Tree(u, R, root, q, e, C)
    BY <1>2, <1>3, <1>4 DEF Tree
<1>7. (\E edge2 : Tree(top.tree, R, top.node, q, edge2, {})) /\ SameElsewhere(u, top.tree, R)
    BY <1>4, <1>5, <1>6, RestoreKeepsOrder
<1> HIDE DEF top
<1>8. SameElsewhere(t, top.tree, R)
    BY <1>2, <1>7, SameElsewhereTwice
<1>9. QED
    BY <1>7, <1>8 DEF R, q, top

\* A stump whose tree is whole: the nodes S have the positions pos, and every
\* field is right.
Whole(s, S, pos) ==
    /\ IsFiniteSet(DOMAIN s.node)
    /\ \E edge : Tree(s.node, S, s.root, pos, edge, {})

\* insert_before takes a node that is in no tree of the stump to the position of
\* the element it is put before; that element and those behind it move up by one,
\* the elements before keep their positions, and the tree is whole again.
THEOREM InsertBeforeInserts ==
    ASSUME NEW s, s = [root |-> s.root, node |-> s.node, begin |-> s.begin,
                       before_begin |-> s.before_begin, end |-> s.end],
           NEW S, NEW pos, Whole(s, S, pos),
           NEW it \in S, NEW n \in DOMAIN s.node \ S
    PROVE  LET r == insert_before(s, it, n)
           IN  /\ Whole(r, S \cup {n}, InsertedPos(S, pos, n, pos[it]))
               /\ SameElsewhere(s.node, r.node, S \cup {n})
               /\ r = [root |-> r.root, node |-> r.node,
                       begin |-> IF it = s.begin THEN n ELSE s.begin,
                       before_begin |-> s.before_begin, end |-> s.end]
<1> DEFINE t == s.node
           root == s.root
           inner == find_outmost(t, t[it].left, "right")
           at == IF t[it].left = Null THEN it ELSE inner
           side == IF at = it THEN "left" ELSE "right"
           u == [t EXCEPT ![n] = [FreshNode EXCEPT !.parent = at], ![at][side] = n]
           top == restore_height_size_and_balance_of_tree(u, at)
           first == IF it = s.begin THEN n ELSE s.begin
           r == insert_before(s, it, n)
<1>1. PICK edge : Tree(t, S, root, pos, edge, {})
    BY DEF Whole
<1>2. IsFiniteSet(DOMAIN t) /\ Linked(t, S, root) /\ Ordered(t, S, pos, edge)
    BY <1>1 DEF Whole, Tree
<1>3. IsTree(t) /\ S \subseteq DOMAIN t /\ Null \notin S /\ it # Null
    BY <1>2 DEF Linked, IsTree
<1>4. r = [root |-> top.node, node |-> top.tree, begin |-> first,
           before_begin |-> s.before_begin, end |-> s.end]
    <2> DEFINE s1 == [s EXCEPT !.begin = first]
    <2>1. s1 = [root |-> root, node |-> t, begin |-> first,
                before_begin |-> s.before_begin, end |-> s.end]
        OBVIOUS
    <2>2. r = Restored(s1, top)
        BY <1>3 DEF insert_before
    <2> HIDE DEF s1, top, first
    <2>3. QED
        BY <2>1, <2>2 DEF Restored
<1>5. pos[it] \in Int
    BY <1>2 DEF Ordered
<1> DEFINE P == pos[it]
<1>6. at \in S /\ side \in Sides /\ FreePlace(t, pos, at, side, P)
    <2>1. CASE t[it].left = Null
        BY <2>1 DEF FreePlace, Sides
    <2>2. CASE t[it].left # Null
        <3> DEFINE c == t[it].left
        <3>1. c \in S /\ edge[c]["right"] = pos[it]
            BY <1>1, <2>2, PathSizes
        <3>2. at = inner
            BY <2>2
        <3> HIDE DEF c
        <3>3. /\ inner \in S /\ t[inner]["right"] = Null
              /\ edge[c]["right"] = pos[inner] + Toward("right")
            BY <1>2, <3>1, OutmostIs DEF c, Sides
        <3> HIDE DEF inner
        <3>4. P = pos[inner] + 1 /\ pos[inner] \in Int
            BY <1>2, <3>1, <3>3 DEF Toward, Ordered
        <3>5. inner # it
            BY <1>5, <3>4
        <3>6. side = "right"
            BY <3>2, <3>5
        <3> HIDE DEF at, side
        <3>7. QED
            BY <3>2, <3>3, <3>4, <3>6 DEF FreePlace, Sides
    <2>3. QED
        BY <2>1, <2>2
<1> HIDE DEF at, side
<1>7. Attached(t, u, n, at, side)
    <2>1. n \in DOMAIN t /\ at \in DOMAIN t /\ at # n
        BY <1>3, <1>6
    <2>2. QED
        BY <1>3, <1>6, <2>1, AttachedResult
<1> HIDE DEF u
<1> DEFINE q == InsertedPos(S, pos, n, P)
<1>8. /\ \E edge2 : Tree(top.tree, S \cup {n}, top.node, q, edge2, {})
      /\ SameElsewhere(t, top.tree, S \cup {n})
    <2>1. P \in Int /\ n \in DOMAIN t \ S
        BY <1>5
    <2> HIDE DEF P, t, root
    <2>2. QED
        BY <1>1, <1>2, <1>6, <1>7, <2>1, LeafAttached
<1> HIDE DEF top, r, q
<1>9. /\ r.root = top.node /\ r.node = top.tree
      /\ r = [root |-> r.root, node |-> r.node, begin |-> first,
              before_begin |-> s.before_begin, end |-> s.end]
    BY <1>4
<1>10. DOMAIN r.node = DOMAIN t
    BY <1>8, <1>9 DEF SameElsewhere
<1>11. Whole(r, S \cup {n}, q)
    BY <1>2, <1>8, <1>9, <1>10 DEF Whole
<1>12. QED
    BY <1>8, <1>9, <1>11 DEF r, q

\* A node is reset.
LEMMA NodeReset ==
    ASSUME NEW t, IsTree(t), NEW n \in DOMAIN t, NEW u, u = [t EXCEPT ![n] = FreshNode]
    PROVE  SameElsewhere(t, u, {n}) /\ IsTree(u) /\ u[n] = FreshNode
<1> DEFINE D == DOMAIN t
<1>1. FreshNode \in NodeType(D)
    BY DEF FreshNode, NodeType
<1>2. u \in [D -> NodeType(D)] /\ Null \notin D
    BY <1>1 DEF IsTree
<1>3. DOMAIN u = D /\ IsTree(u)
    BY <1>2 DEF IsTree
<1>4. u[n] = FreshNode /\ \A m \in D \ {n} : u[m] = t[m]
    BY <1>2 DEF IsTree
<1>5. QED
    BY <1>3, <1>4 DEF SameElsewhere, Fields

\* The first node of a tree.
LEMMA FirstNode ==
    ASSUME NEW t, IsTree(t), IsFiniteSet(DOMAIN t), NEW n \in DOMAIN t, NEW p \in Int,
           NEW u, u = [t EXCEPT ![n] = FreshNode]
    PROVE  \E edge : Tree(u, {n}, n, [m \in {n} |-> p], edge, {})
<1> DEFINE pos == [m \in {n} |-> p]
           edge == [m \in {n} |-> [side \in Sides |-> p + Toward(side)]]
<1>1. SameElsewhere(t, u, {n}) /\ IsTree(u) /\ u[n] = FreshNode
    BY NodeReset
<1>2. DOMAIN u = DOMAIN t
    BY <1>1 DEF SameElsewhere
<1>3. IsTree(u) /\ n # Null /\ n \in DOMAIN u
    BY <1>1, <1>2 DEF IsTree
<1>4. u[n] = FreshNode
    BY <1>1
<1>5. /\ u[n].parent = Null /\ u[n].size = 1 /\ u[n].height = 1
      /\ u[n].left = Null /\ u[n].right = Null /\ \A side \in Sides : u[n][side] = Null
    BY <1>4 DEF FreshNode, Sides
<1>6. Linked(u, {n}, n)
    BY <1>3, <1>5 DEF Linked
<1>7. "left" \in Sides /\ "right" \in Sides /\ \A side \in Sides : Toward(side) \in Int
    BY DEF Sides, Toward
<1>8. /\ \A side \in Sides : edge[n][side] = p + Toward(side)
      /\ edge[n]["left"] = p - 1 /\ edge[n]["right"] = p + 1
    <2>1. p + Toward("left") = p - 1 /\ p + Toward("right") = p + 1
        BY DEF Toward
    <2>2. QED
        BY <1>7, <2>1
<1>9. pos \in [{n} -> Int] /\ pos[n] = p /\ edge \in [{n} -> [Sides -> Int]]
    BY <1>7
<1> HIDE DEF pos, edge
<1>10. Ordered(u, {n}, pos, edge)
    <2>1. edge[n]["left"] < pos[n] /\ pos[n] < edge[n]["right"]
        BY <1>8, <1>9
    <2>2. QED
        BY <1>5, <1>8, <1>9, <2>1 DEF Ordered
<1>11. Counted(u, {n}, edge, {})
    <2>1. Width(edge, n) = 1
        BY <1>8 DEF Width
    <2>2. HigherOf(u, n) = 0
        BY <1>5 DEF HigherOf, height
    <2>3. QED
        BY <1>5, <2>1, <2>2 DEF Counted
<1>12. Tree(u, {n}, n, pos, edge, {})
    BY <1>6, <1>10, <1>11 DEF Tree
<1>13. QED
    BY <1>12 DEF pos

\* resetInvariant, which the constructors and clear call: the list holds the two
\* sentinels, in their order, and the first element is the end.
THEOREM ResetIsWhole ==
    ASSUME NEW s, s = [root |-> s.root, node |-> s.node, begin |-> s.begin,
                       before_begin |-> s.before_begin, end |-> s.end],
           IsTree(s.node), IsFiniteSet(DOMAIN s.node),
           s.before_begin \in DOMAIN s.node, s.end \in DOMAIN s.node,
           s.before_begin # s.end
    PROVE  LET r == resetInvariant(s)
               S == {s.before_begin, s.end}
           IN  /\ Whole(r, S, [m \in S |-> IF m = s.before_begin THEN 0 ELSE 1])
               /\ SameElsewhere(s.node, r.node, S)
               /\ r.begin = s.end
<1> DEFINE t == s.node
           b == s.before_begin
           e == s.end
           t0 == [t EXCEPT ![e] = FreshNode]
           t1 == [t0 EXCEPT ![b] = FreshNode]
           t2 == [t1 EXCEPT ![e] = FreshNode]
           first == IF Null = s.begin THEN e ELSE s.begin
           s1 == [root |-> Null, node |-> t1, begin |-> s.begin, before_begin |-> b, end |-> e]
           s2 == [root |-> e, node |-> t2, begin |-> first, before_begin |-> b, end |-> e]
           s3 == insert_before(s2, e, b)
           r == resetInvariant(s)
           S == {b, e}
           pos == [m \in {e} |-> 0]
<1>1. SameElsewhere(t, t0, {e}) /\ IsTree(t0)
    BY NodeReset
<1>2. DOMAIN t0 = DOMAIN t
    BY <1>1 DEF SameElsewhere
<1>3. SameElsewhere(t0, t1, {b}) /\ IsTree(t1) /\ DOMAIN t1 = DOMAIN t
    <2> HIDE DEF t0
    <2>1. IsFiniteSet(DOMAIN t0) /\ b \in DOMAIN t0
        BY <1>2
    <2>2. SameElsewhere(t0, t1, {b}) /\ IsTree(t1)
        BY <1>1, <2>1, NodeReset
    <2>3. QED
        BY <1>2, <2>2 DEF SameElsewhere
<1>4. /\ \E edge : Tree(t2, {e}, e, pos, edge, {})
      /\ SameElsewhere(t1, t2, {e}) /\ DOMAIN t2 = DOMAIN t
    <2> HIDE DEF t1
    <2>1. IsFiniteSet(DOMAIN t1) /\ e \in DOMAIN t1 /\ 0 \in Int
        BY <1>3
    <2>2. /\ \E edge : Tree(t2, {e}, e, pos, edge, {})
          /\ SameElsewhere(t1, t2, {e})
        BY <1>3, <2>1, FirstNode, NodeReset
    <2>3. QED
        BY <1>3, <2>2 DEF SameElsewhere
<1>5. [s EXCEPT !.root = Null, !.node[e] = FreshNode, !.node[b] = FreshNode] = s1
    <2> DEFINE x == [s EXCEPT !.root = Null]
               y == [x EXCEPT !.node = [x.node EXCEPT ![e] = FreshNode]]
               z == [y EXCEPT !.node = [y.node EXCEPT ![b] = FreshNode]]
    <2>1. [s EXCEPT !.root = Null, !.node[e] = FreshNode, !.node[b] = FreshNode] = z
        OBVIOUS
    <2>2. x = [root |-> Null, node |-> t, begin |-> s.begin, before_begin |-> b, end |-> e]
        OBVIOUS
    <2> HIDE DEF x
    <2>3. y = [root |-> Null, node |-> t0, begin |-> s.begin, before_begin |-> b, end |-> e]
        BY <2>2
    <2> HIDE DEF y
    <2>4. z = s1
        BY <2>3
    <2>5. QED
        BY <2>1, <2>4 DEF x, y
<1> HIDE DEF t0, t1
<1>6. insert_before(s1, Null, e) = s2
    BY DEF insert_before
<1>7. r = [s3 EXCEPT !.begin = e]
    BY <1>5, <1>6 DEF resetInvariant
<1>8. s2 = [root |-> s2.root, node |-> s2.node, begin |-> s2.begin,
            before_begin |-> s2.before_begin, end |-> s2.end]
    OBVIOUS
<1>9. s2.node = t2 /\ s2.root = e
    OBVIOUS
<1> HIDE DEF t2, s2
<1>10. Whole(s2, {e}, pos)
    BY <1>4, <1>9 DEF Whole
<1>11. e \in {e} /\ b \in DOMAIN s2.node \ {e}
    BY <1>4, <1>9
<1> DEFINE q == InsertedPos({e}, pos, b, pos[e])
<1>12. /\ Whole(s3, {e} \cup {b}, q)
       /\ SameElsewhere(s2.node, s3.node, {e} \cup {b})
       /\ s3 = [root |-> s3.root, node |-> s3.node,
                begin |-> IF e = s2.begin THEN b ELSE s2.begin,
                before_begin |-> s2.before_begin, end |-> s2.end]
    BY <1>8, <1>10, <1>11, InsertBeforeInserts
<1>13. q = [m \in S |-> IF m = b THEN 0 ELSE 1] /\ {e} \cup {b} = S
    BY DEF InsertedPos, Shift
<1>14. r.node = s3.node /\ r.root = s3.root /\ r.begin = e
    <2> HIDE DEF s3
    <2>1. QED
        BY <1>7, <1>12
<1>15. SameElsewhere(t, s3.node, S)
    <2>1. SameElsewhere(t2, s3.node, S)
        BY <1>9, <1>12, <1>13
    <2>2. QED
        BY <1>1, <1>3, <1>4, <2>1 DEF SameElsewhere, Fields
<1> HIDE DEF s3, q, r
<1>16. Whole(r, S, q)
    BY <1>12, <1>13, <1>14 DEF Whole
<1>17. QED
    BY <1>13, <1>14, <1>15, <1>16 DEF r

-----------------------------------------------------------------------------
(* Deletion                                                                  *)

\* The links that replace_node changes: r hangs where n hung.
Replaced(t, u, n, r) ==
    /\ IsTree(u) /\ DOMAIN u = DOMAIN t
    /\ \A m \in DOMAIN t :
        /\ Fields(t, u, m)
        /\ u[m].parent = IF m = r THEN t[n].parent ELSE t[m].parent
        /\ \A s \in Sides :
            u[m][s] = IF m = t[n].parent /\ s = child_type(t, n) THEN r ELSE t[m][s]

LEMMA ReplacedResult ==
    ASSUME NEW t, IsTree(t), NEW n \in DOMAIN t, NEW r \in DOMAIN t \cup {Null}
    PROVE  Replaced(t, replace_node(t, n, r), n, r)
<1> DEFINE up == t[n].parent
           k == child_type(t, n)
           t1 == IF r = Null THEN t ELSE SetParent(t, r, up)
           u == IF up = Null THEN t1 ELSE SetChild(t1, up, k, r)
<1>1. replace_node(t, n, r) = u
    BY DEF replace_node, SetParent, SetChild
<1>2. up \in DOMAIN t \cup {Null} /\ k \in Sides /\ Null \notin DOMAIN t
    BY NodeFields DEF child_type, Sides, IsTree
<1> HIDE DEF up, k
<1>3. /\ IsTree(t1) /\ DOMAIN t1 = DOMAIN t
      /\ \A m \in DOMAIN t : /\ Fields(t, t1, m)
                             /\ t1[m].parent = IF m = r THEN up ELSE t[m].parent
                             /\ \A s \in Sides : t1[m][s] = t[m][s]
    <2>1. CASE r = Null
        BY <1>2, <2>1 DEF Fields
    <2>2. CASE r # Null
        <3>1. r \in DOMAIN t /\ t1 = SetParent(t, r, up)
            BY <2>2
        <3>2. ParentIsSet(t, t1, r, up)
            BY <1>2, <3>1, SetParentResult
        <3> HIDE DEF t1
        <3>3. QED
            BY <3>1, <3>2 DEF ParentIsSet, Fields
    <2>3. QED
        BY <2>1, <2>2
<1> HIDE DEF t1
<1>4. /\ IsTree(u) /\ DOMAIN u = DOMAIN t
      /\ \A m \in DOMAIN t : /\ Fields(t1, u, m) /\ u[m].parent = t1[m].parent
                             /\ \A s \in Sides : u[m][s] = IF m = up /\ s = k THEN r ELSE t1[m][s]
    <2>1. CASE up = Null
        BY <1>2, <1>3, <2>1 DEF Fields
    <2>2. CASE up # Null
        <3>1. up \in DOMAIN t1 /\ u = SetChild(t1, up, k, r) /\ r \in DOMAIN t1 \cup {Null}
            BY <1>2, <1>3, <2>2
        <3>2. ChildIsSet(t1, u, up, k, r)
            BY <1>2, <1>3, <3>1, SetChildResult
        <3> HIDE DEF u
        <3>3. QED
            BY <1>3, <3>1, <3>2 DEF ChildIsSet, Fields
    <2>3. QED
        BY <2>1, <2>2
<1> HIDE DEF u
<1>5. \A m \in DOMAIN t : Fields(t, u, m)
    BY <1>3, <1>4 DEF Fields
<1>6. Replaced(t, u, n, r)
    BY <1>3, <1>4, <1>5 DEF Replaced, up, k
<1>7. QED
    BY <1>1, <1>6

\* In a tree, that is one child of one node, and one parent.
Swapped(t, u, S, n, r) ==
    /\ IsTree(u) /\ DOMAIN u = DOMAIN t
    /\ \A m \in S : /\ Fields(t, u, m)
                    /\ u[m].parent = IF m = r THEN t[n].parent ELSE t[m].parent
                    /\ \A s \in Sides : u[m][s] = IF t[m][s] = n THEN r ELSE t[m][s]

LEMMA ReplacedInTree ==
    ASSUME NEW t, NEW S, NEW root, Linked(t, S, root), NEW pos, NEW edge,
           Ordered(t, S, pos, edge), NEW n \in S, NEW r, NEW u, Replaced(t, u, n, r)
    PROVE  Swapped(t, u, S, n, r) /\ SameElsewhere(t, u, S \cup {r})
<1>1. IsTree(t) /\ S \subseteq DOMAIN t /\ Null \notin S /\ n # Null
    BY DEF Linked, IsTree
<1>2. "left" \in Sides /\ "right" \in Sides /\ Opposite("right") = "left"
    BY OppositeSide DEF Sides
<1>3. ASSUME NEW m \in S, NEW s \in Sides
      PROVE  (m = t[n].parent /\ s = child_type(t, n)) <=> t[m][s] = n
    <2>1. ASSUME m = t[n].parent, s = child_type(t, n) PROVE t[m][s] = n
        <3>1. PICK x \in Sides : t[m][x] = n
            BY <1>1, <2>1 DEF Linked
        <3>2. CASE t[m].left = n
            BY <2>1, <3>2 DEF child_type
        <3>3. CASE t[m].left # n
            BY <2>1, <3>1, <3>3 DEF child_type, Sides
        <3>4. QED
            BY <3>2, <3>3
    <2>2. ASSUME t[m][s] = n PROVE m = t[n].parent /\ s = child_type(t, n)
        <3>1. m = t[n].parent
            BY <1>1, <2>2 DEF Linked
        <3>2. t[m][s] # t[m][Opposite(s)]
            BY <1>1, <2>2, ChildNarrower
        <3>3. CASE s = "left"
            BY <2>2, <3>1, <3>3 DEF child_type
        <3>4. CASE s = "right"
            <4>1. t[m]["left"] # n
                BY <1>2, <2>2, <3>2, <3>4
            <4>2. QED
                BY <3>1, <3>4, <4>1 DEF child_type
        <3>5. QED
            BY <3>1, <3>3, <3>4 DEF Sides
    <2>3. QED
        BY <2>1, <2>2
<1>4. Swapped(t, u, S, n, r)
    <2>1. ASSUME NEW m \in S, NEW s \in Sides
          PROVE  u[m][s] = IF t[m][s] = n THEN r ELSE t[m][s]
        <3>1. m \in DOMAIN t
            BY <1>1
        <3>2. u[m][s] = IF m = t[n].parent /\ s = child_type(t, n) THEN r ELSE t[m][s]
            BY <3>1 DEF Replaced
        <3>3. QED
            BY <1>3, <3>2
    <2>2. QED
        BY <1>1, <2>1 DEF Replaced, Swapped
<1>5. SameElsewhere(t, u, S \cup {r})
    <2>1. ASSUME NEW m \in DOMAIN t \ (S \cup {r})
          PROVE  u[m].left = t[m].left /\ u[m].right = t[m].right /\ u[m].parent = t[m].parent
                 /\ Fields(t, u, m)
        <3>1. m # t[n].parent /\ m # r
            BY <1>2, ChildFacts DEF Linked, IsTree
        <3>2. \A s \in Sides : u[m][s] = t[m][s]
            BY <3>1 DEF Replaced
        <3>3. QED
            BY <1>2, <3>1, <3>2 DEF Replaced
    <2>2. QED
        BY <2>1 DEF SameElsewhere, Replaced
<1>6. QED
    BY <1>4, <1>5

\* No two nodes have the same position.
LEMMA PositionsDiffer ==
    ASSUME NEW t, IsFiniteSet(DOMAIN t), NEW S, NEW root, NEW pos, NEW edge,
           Tree(t, S, root, pos, edge, {}), NEW n \in S, NEW m \in S, pos[m] = pos[n]
    PROVE  m = n
<1>1. PICK C : Ways(t, S, edge, root, pos[n], n, C)
    BY WayUp
<1>2. edge[m]["left"] < pos[n] /\ pos[n] < edge[m]["right"]
    BY PathSizes
<1>3. m \in C
    BY <1>1, <1>2, SpanIsAbove
<1>4. QED
    BY <1>1, <1>3, WayDown

\* The places of the other nodes: those from P on move down by one.
Unshift(P, q) == IF q >= P THEN q - 1 ELSE q

RemovedPos(S, pos, n, P) == [m \in S \ {n} |-> Unshift(P, pos[m])]

RemovedEdge(S, edge, n, P) ==
    [m \in S \ {n} |-> [side \in Sides |-> Unshift(P, edge[m][side])]]

\* No other node touches the gap that n leaves, so no two places fall together.
LEMMA NothingAtGap ==
    ASSUME NEW t, IsFiniteSet(DOMAIN t), NEW S, NEW root, NEW pos, NEW edge,
           Tree(t, S, root, pos, edge, {}),
           NEW n \in S, NEW side \in Sides, NEW P \in Int, FreePlace(t, pos, n, side, P),
           NEW m \in S \ {n}
    PROVE  /\ ~(pos[m] = P /\ edge[m]["left"] = P - 1)
           /\ ~(pos[m] = P - 1 /\ edge[m]["right"] = P)
<1>1. pos[n] \in Int /\ pos[m] \in Int /\ pos[m] # pos[n]
    BY PathSizes, PositionsDiffer
<1>2. Linked(t, S, root) /\ Ordered(t, S, pos, edge) /\ Null \notin S
    BY DEF Tree, Linked, IsTree
<1>3. "left" \in Sides /\ "right" \in Sides
    BY DEF Sides
<1>4. t[n][side] = Null
    BY DEF FreePlace
<1>5. ASSUME pos[m] = P, edge[m]["left"] = P - 1 PROVE FALSE
    <2>1. side = "right" /\ pos[m] = pos[n] + 1
        BY <1>1, <1>5 DEF FreePlace
    <2>2. t[m].left # Null
        BY <1>4, <2>1, Neighbours
    <2> DEFINE c == t[m]["left"]
    <2>3. c \in S /\ edge[c]["left"] = edge[m]["left"] /\ edge[c]["right"] = pos[m]
        BY <1>2, <1>3, <2>2, OppositeSide DEF Linked, Ordered
    <2> HIDE DEF c
    <2>4. pos[c] \in Int /\ edge[c]["left"] < pos[c] /\ pos[c] < edge[c]["right"]
        BY <2>3, PathSizes
    <2>5. QED
        BY <1>5, <2>3, <2>4
<1>6. ASSUME pos[m] = P - 1, edge[m]["right"] = P PROVE FALSE
    <2>1. side = "left" /\ pos[n] = pos[m] + 1
        BY <1>1, <1>6 DEF FreePlace
    <2>2. t[m].right # Null
        BY <1>4, <2>1, Neighbours
    <2> DEFINE c == t[m]["right"]
    <2>3. c \in S /\ edge[c]["right"] = edge[m]["right"] /\ edge[c]["left"] = pos[m]
        BY <1>2, <1>3, <2>2, OppositeSide DEF Linked, Ordered
    <2> HIDE DEF c
    <2>4. pos[c] \in Int /\ edge[c]["left"] < pos[c] /\ pos[c] < edge[c]["right"]
        BY <2>3, PathSizes
    <2>5. QED
        BY <1>6, <2>3, <2>4
<1>7. QED
    BY <1>5, <1>6

\* n has no child on one side, and the child on the other, if any, takes its place.
Detachable(t, pos, n, side, P, c) ==
    FreePlace(t, pos, n, side, P) /\ c = t[n][Opposite(side)]

LEMMA DetachedOrder ==
    ASSUME NEW t, IsFiniteSet(DOMAIN t), NEW S, NEW root, NEW pos, NEW edge,
           Tree(t, S, root, pos, edge, {}), NEW n \in S, NEW side \in Sides,
           NEW P \in Int, NEW c, Detachable(t, pos, n, side, P, c),
           NEW u, Swapped(t, u, S, n, c)
    PROVE  Ordered(u, S \ {n}, RemovedPos(S, pos, n, P), RemovedEdge(S, edge, n, P))
<1> DEFINE R == S \ {n}
           q == RemovedPos(S, pos, n, P)
           e == RemovedEdge(S, edge, n, P)
           o == Opposite(side)
           Q == pos[n]
<1>1. Linked(t, S, root) /\ Ordered(t, S, pos, edge) /\ Null \notin S /\ n # Null
    BY DEF Tree, Linked, IsTree
<1>2. /\ \A m \in S : pos[m] \in Int /\ \A s \in Sides : edge[m][s] \in Int
      /\ \A m \in S : edge[m]["left"] < pos[m] /\ pos[m] < edge[m]["right"]
    BY <1>1 DEF Ordered
<1>3. /\ "left" \in Sides /\ "right" \in Sides /\ \A s \in Sides : Toward(s) \in Int
      /\ Toward("left") = -1 /\ Toward("right") = 1
    BY DEF Sides, Toward
<1>4. \A m \in R : q[m] = Unshift(P, pos[m]) /\ \A s \in Sides : e[m][s] = Unshift(P, edge[m][s])
    BY DEF RemovedPos, RemovedEdge
<1>5. q \in [R -> Int] /\ e \in [R -> [Sides -> Int]]
    <2>1. \A m \in S : Unshift(P, pos[m]) \in Int
                       /\ \A s \in Sides : Unshift(P, edge[m][s]) \in Int
        BY <1>2 DEF Unshift
    <2>2. QED
        BY <2>1 DEF RemovedPos, RemovedEdge
<1> HIDE DEF q, e
<1>6. ASSUME NEW m \in R
      PROVE  /\ ~(pos[m] = P /\ edge[m]["left"] = P - 1)
             /\ ~(pos[m] = P - 1 /\ edge[m]["right"] = P)
    <2>1. FreePlace(t, pos, n, side, P)
        BY DEF Detachable
    <2>2. QED
        BY <2>1, NothingAtGap
<1>7. ASSUME NEW m \in R PROVE e[m]["left"] < q[m] /\ q[m] < e[m]["right"]
    <2> DEFINE x == edge[m]["left"]  y == edge[m]["right"]  p == pos[m]
    <2>1. x \in Int /\ y \in Int /\ p \in Int /\ x < p /\ p < y
        BY <1>2, <1>3
    <2>2. ~(p = P /\ x = P - 1) /\ ~(p = P - 1 /\ y = P)
        BY <1>6
    <2>3. e[m]["left"] = Unshift(P, x) /\ e[m]["right"] = Unshift(P, y) /\ q[m] = Unshift(P, p)
        BY <1>3, <1>4
    <2> HIDE DEF x, y, p
    <2>4. Unshift(P, x) < Unshift(P, p) /\ Unshift(P, p) < Unshift(P, y)
        BY <2>1, <2>2 DEF Unshift
    <2>5. QED
        BY <2>3, <2>4
\* The place of n, as seen from below and from above.
<1>8. /\ Q \in Int
      /\ c # Null => c \in R /\ edge[c][o] = edge[n][o] /\ edge[c][side] = Q
      /\ c = Null => edge[n][o] = Q + Toward(o)
      /\ edge[n][side] = Q + Toward(side)
      /\ o \in Sides /\ Opposite(o) = side /\ Sides = {side, o}
    <2>1. o \in Sides /\ Opposite(o) = side /\ Sides = {side, o}
        BY OppositeSide
    <2>2. c = t[n][o] /\ t[n][side] = Null
        BY DEF Detachable, FreePlace
    <2>3. c # Null => c \in S /\ c # n
        BY <1>1, <2>1, <2>2, ChildFacts, ChildNarrower
    <2>4. QED
        BY <1>1, <1>2, <2>1, <2>2, <2>3 DEF Ordered
<1>9. Unshift(P, Q) = Unshift(P, Q + Toward(side))
    <2>1. CASE side = "left"
        BY <1>3, <1>8, <2>1 DEF Detachable, FreePlace, Unshift
    <2>2. CASE side = "right"
        BY <1>3, <1>8, <2>2 DEF Detachable, FreePlace, Unshift
    <2>3. QED
        BY <2>1, <2>2 DEF Sides
<1>10. c # Null => \A s \in Sides : Unshift(P, edge[c][s]) = Unshift(P, edge[n][s])
    <2>1. c # Null => Unshift(P, edge[c][o]) = Unshift(P, edge[n][o])
        BY <1>8
    <2>2. c # Null => Unshift(P, edge[c][side]) = Unshift(P, edge[n][side])
        BY <1>8, <1>9
    <2>3. QED
        BY <1>8, <2>1, <2>2
<1>11. c = Null => /\ edge[n]["left"] = Q - 1 /\ edge[n]["right"] = Q + 1
                   /\ Unshift(P, Q - 1) = Q - 1 /\ Unshift(P, Q + 1) = Q
    <2> SUFFICES ASSUME c = Null
                 PROVE  /\ edge[n]["left"] = Q - 1 /\ edge[n]["right"] = Q + 1
                        /\ Unshift(P, Q - 1) = Q - 1 /\ Unshift(P, Q + 1) = Q
        OBVIOUS
    <2>1. \A s \in Sides : edge[n][s] = Q + Toward(s)
        BY <1>8
    <2>2. edge[n]["left"] = Q + -1 /\ edge[n]["right"] = Q + 1
        BY <1>3, <2>1
    <2>3. P = Q \/ P = Q + 1
        BY DEF Detachable, FreePlace
    <2> HIDE DEF Q
    <2>4. QED
        BY <1>8, <2>2, <2>3 DEF Unshift
<1>12. ASSUME NEW m \in R, NEW s \in Sides
       PROVE  LET d == u[m][s]
              IN  IF d = Null THEN e[m][s] = q[m] + Toward(s)
                  ELSE e[d][s] = e[m][s] /\ e[d][Opposite(s)] = q[m]
    <2> DEFINE d == u[m][s]
               k == Opposite(s)
    <2>1. k \in Sides
        BY OppositeSide
    <2>2. q[m] = Unshift(P, pos[m]) /\ e[m][s] = Unshift(P, edge[m][s])
        BY <1>4
    <2>3. d = IF t[m][s] = n THEN c ELSE t[m][s]
        BY DEF Swapped
    <2>4. CASE t[m][s] = n
        <3>1. edge[n][s] = edge[m][s] /\ edge[n][k] = pos[m]
            BY <1>1, <2>4 DEF Ordered
        <3>2. CASE c # Null
            <4>1. e[c][s] = Unshift(P, edge[c][s]) /\ e[c][k] = Unshift(P, edge[c][k])
                BY <1>4, <1>8, <2>1, <3>2
            <4>2. e[c][s] = Unshift(P, edge[n][s]) /\ e[c][k] = Unshift(P, edge[n][k])
                BY <1>10, <2>1, <3>2, <4>1
            <4>3. QED
                BY <2>2, <2>3, <2>4, <3>1, <3>2, <4>2
        <3>3. CASE c = Null
            <4>1. CASE s = "left"
                <5>1. k = "right"
                    BY <4>1, OppositeSide
                <5>2. e[m][s] = Q - 1 /\ q[m] = Q
                    BY <1>11, <2>2, <3>1, <3>3, <4>1, <5>1
                <5>3. e[m][s] = q[m] + -1
                    BY <1>8, <5>2
                <5>4. QED
                    BY <1>3, <2>3, <2>4, <3>3, <4>1, <5>3
            <4>2. CASE s = "right"
                <5>1. k = "left"
                    BY <4>2, OppositeSide
                <5>2. e[m][s] = Q /\ q[m] = Q - 1
                    BY <1>11, <2>2, <3>1, <3>3, <4>2, <5>1
                <5>3. e[m][s] = q[m] + 1
                    BY <1>8, <5>2
                <5>4. QED
                    BY <1>3, <2>3, <2>4, <3>3, <4>2, <5>3
            <4>3. QED
                BY <4>1, <4>2 DEF Sides
        <3>4. QED
            BY <3>2, <3>3
    <2>5. CASE t[m][s] # n /\ t[m][s] # Null
        <3>1. d = t[m][s] /\ d \in R
            BY <1>1, <2>3, <2>5, ChildFacts
        <3>2. edge[d][s] = edge[m][s] /\ edge[d][k] = pos[m]
            BY <1>1, <2>5, <3>1 DEF Ordered
        <3>3. e[d][s] = Unshift(P, edge[d][s]) /\ e[d][k] = Unshift(P, edge[d][k])
            BY <1>4, <2>1, <3>1
        <3>4. QED
            BY <2>2, <2>5, <3>1, <3>2, <3>3
    <2>6. CASE t[m][s] # n /\ t[m][s] = Null
        <3>1. d = Null
            BY <2>3, <2>6
        <3>2. edge[m][s] = pos[m] + Toward(s) /\ pos[m] \in Int
            BY <1>1, <1>2, <2>6 DEF Ordered
        <3>3. CASE s = "left"
            <4>1. edge[m]["left"] = pos[m] + -1
                BY <1>3, <3>2, <3>3
            <4>2. edge[m]["left"] = pos[m] - 1 /\ pos[m] # P
                BY <1>6, <3>2, <4>1
            <4>3. Unshift(P, edge[m]["left"]) = Unshift(P, pos[m]) + -1
                BY <3>2, <4>2 DEF Unshift
            <4>4. QED
                BY <1>3, <2>2, <3>1, <3>3, <4>3
        <3>4. CASE s = "right"
            <4>1. edge[m]["right"] = pos[m] + 1
                BY <1>3, <3>2, <3>4
            <4>2. pos[m] # P - 1
                BY <1>6, <3>2, <4>1
            <4>3. Unshift(P, edge[m]["right"]) = Unshift(P, pos[m]) + 1
                BY <3>2, <4>1, <4>2 DEF Unshift
            <4>4. QED
                BY <1>3, <2>2, <3>1, <3>4, <4>3
        <3>5. QED
            BY <3>3, <3>4 DEF Sides
    <2>7. QED
        BY <2>4, <2>5, <2>6
<1> HIDE DEF R
<1>13. Ordered(u, R, q, e)
    BY <1>5, <1>7, <1>12 DEF Ordered
<1>14. QED
    BY <1>13 DEF R, q, e

\* The root after n is detached: n has no more than one child.
RootWithout(root, n, c) == IF n = root THEN c ELSE root

LEMMA DetachedLinks ==
    ASSUME NEW t, NEW S, NEW root, Linked(t, S, root), NEW pos, NEW edge,
           Ordered(t, S, pos, edge), NEW n \in S, NEW side \in Sides,
           NEW P \in Int, NEW c, Detachable(t, pos, n, side, P, c), n = root => c # Null,
           NEW u, Swapped(t, u, S, n, c)
    PROVE  Linked(u, S \ {n}, RootWithout(root, n, c))
<1> DEFINE R == S \ {n}
           o == Opposite(side)
           top == RootWithout(root, n, c)
<1>1. /\ IsTree(u) /\ DOMAIN u = DOMAIN t /\ S \subseteq DOMAIN t /\ root \in S
      /\ Null \notin S /\ n # Null
    BY DEF Linked, IsTree, Swapped
<1>2. o \in Sides /\ Sides = {side, o} /\ t[n][side] = Null /\ t[n][o] = c
    BY OppositeSide DEF Detachable, FreePlace
<1>3. c # Null => c \in R /\ t[c].parent = n
    <2>1. c # Null => c \in S /\ t[c].parent = n
        BY <1>2, ChildFacts
    <2>2. c # Null => c # n
        BY <1>2, ChildNarrower
    <2>3. QED
        BY <2>1, <2>2
<1>4. t[n].parent # n
    <2> SUFFICES ASSUME t[n].parent = n PROVE FALSE
        OBVIOUS
    <2>1. PICK s \in Sides : t[n][s] = n
        BY <1>1 DEF Linked
    <2>2. QED
        BY <1>1, <2>1, ChildNarrower
<1>5. \A m \in R : /\ u[m].parent = IF m = c THEN t[n].parent ELSE t[m].parent
                   /\ \A s \in Sides : u[m][s] = IF t[m][s] = n THEN c ELSE t[m][s]
    BY DEF Swapped
<1>6. ASSUME NEW m \in R, NEW s \in Sides, u[m][s] # Null
      PROVE  u[m][s] \in R /\ u[u[m][s]].parent = m
    <2>1. CASE t[m][s] = n
        <3>1. u[m][s] = c /\ c \in R /\ t[n].parent = m
            BY <1>1, <1>3, <1>5, <1>6, <2>1, ChildFacts
        <3>2. QED
            BY <1>5, <3>1
    <2>2. CASE t[m][s] # n
        <3> DEFINE d == t[m][s]
        <3>1. u[m][s] = d /\ d # Null
            BY <1>5, <1>6, <2>2
        <3>2. d \in R /\ t[d].parent = m
            BY <2>2, <3>1, ChildFacts
        <3>3. d # c
            BY <1>3, <3>1, <3>2
        <3>4. QED
            BY <1>5, <3>1, <3>2, <3>3
    <2>3. QED
        BY <2>1, <2>2
<1>7. ASSUME NEW m \in R, u[m].parent # Null
      PROVE  u[m].parent \in R /\ \E s \in Sides : u[u[m].parent][s] = m
    <2>1. CASE m = c
        <3> DEFINE p == t[n].parent
        <3>1. u[m].parent = p /\ p # Null
            BY <1>5, <1>7, <2>1
        <3>2. p \in R
            BY <1>4, <3>1, ChildFacts
        <3>3. PICK s \in Sides : t[p][s] = n
            BY <3>1 DEF Linked
        <3> HIDE DEF p
        <3>4. u[p][s] = m
            BY <1>5, <2>1, <3>2, <3>3
        <3>5. QED
            BY <3>1, <3>2, <3>4
    <2>2. CASE m # c
        <3> DEFINE p == t[m].parent
        <3>1. u[m].parent = p /\ p # Null
            BY <1>5, <1>7, <2>2
        <3>2. p \in S /\ m \in S /\ m # n
            BY <3>1, ChildFacts
        <3>3. PICK s \in Sides : t[p][s] = m
            BY <3>1, <3>2 DEF Linked
        <3>4. p # n
            BY <1>1, <1>2, <2>2, <3>2, <3>3
        <3> HIDE DEF p
        <3>5. u[p][s] = m
            BY <1>5, <3>2, <3>3, <3>4
        <3>6. QED
            BY <3>1, <3>2, <3>4, <3>5
    <2>3. QED
        BY <2>1, <2>2
<1>8. ASSUME NEW m \in R PROVE u[m].parent = Null <=> m = top
    <2>1. \A x \in S : t[x].parent = Null <=> x = root
        BY DEF Linked
    <2>2. CASE m = c
        <3>1. u[m].parent = t[n].parent /\ c # Null /\ c # root
            BY <1>1, <1>3, <1>5, <2>1, <2>2
        <3>2. QED
            BY <2>1, <2>2, <3>1 DEF RootWithout
    <2>3. CASE m # c
        <3>1. u[m].parent = t[m].parent /\ m \in S /\ m # n
            BY <1>5, <2>3
        <3>2. QED
            BY <2>1, <2>3, <3>1 DEF RootWithout
    <2>4. QED
        BY <2>2, <2>3
<1>9. R \subseteq DOMAIN u /\ top \in R
    BY <1>1, <1>3 DEF RootWithout
<1> HIDE DEF R, top
<1>10. Linked(u, R, top)
    BY <1>1, <1>6, <1>7, <1>8, <1>9 DEF Linked
<1>11. QED
    BY <1>10 DEF R, top

\* Only the nodes above n have fields that no longer fit.
DetachedFields(t, u, S, root, edge, n, P, C) ==
    /\ Counted(u, S \ {n}, RemovedEdge(S, edge, n, P), C \ {n})
    /\ n # root => Stale(u, S \ {n}, C \ {n}, t[n].parent)
    /\ n = root => C = {n}

LEMMA DetachedCount ==
    ASSUME NEW t, IsFiniteSet(DOMAIN t), NEW S, NEW root, NEW pos, NEW edge,
           Tree(t, S, root, pos, edge, {}), NEW n \in S, NEW side \in Sides,
           NEW C, Ways(t, S, edge, root, pos[n], n, C),
           NEW P \in Int, NEW c, Detachable(t, pos, n, side, P, c),
           NEW u, Swapped(t, u, S, n, c)
    PROVE  DetachedFields(t, u, S, root, edge, n, P, C)
<1> DEFINE R == S \ {n}
           e == RemovedEdge(S, edge, n, P)
           up == t[n].parent
<1>1. Linked(t, S, root) /\ Ordered(t, S, pos, edge) /\ Counted(t, S, edge, {})
    BY DEF Tree
<1>2. Null \notin S /\ n # Null /\ S \subseteq DOMAIN t /\ C \subseteq S /\ n \in C
    BY <1>1 DEF Linked, IsTree, Ways
<1>3. "left" \in Sides /\ "right" \in Sides /\ FreePlace(t, pos, n, side, P)
    BY DEF Sides, Detachable
<1>4. \A m \in R : \A s \in Sides : e[m][s] = Unshift(P, edge[m][s])
    BY DEF RemovedEdge
<1> HIDE DEF e
<1>5. Stale(t, S, C, n)
    BY WayIsStale
<1>6. \A m \in S : /\ Fields(t, u, m)
                   /\ u[m].parent = IF m = c THEN up ELSE t[m].parent
                   /\ \A s \in Sides : u[m][s] = IF t[m][s] = n THEN c ELSE t[m][s]
    BY DEF Swapped
<1>7. ASSUME NEW m \in R, m \notin C
      PROVE  u[m].size = Width(e, m) /\ u[m].height = HigherOf(u, m) + 1
    <2>1. t[m].size = Width(edge, m) /\ t[m].height = HigherOf(t, m) + 1
        BY <1>1 DEF Counted
    <2>2. ~Grows(edge, P, m)
        BY <1>3, <1>7, GrowsAbove
    <2>3. Width(e, m) = Width(edge, m)
        <3> DEFINE x == edge[m]["left"]  y == edge[m]["right"]
        <3>1. x \in Int /\ y \in Int /\ pos[m] \in Int /\ x < pos[m] /\ pos[m] < y
            BY PathSizes
        <3>2. ~(x < P /\ P <= y)
            BY <2>2 DEF Grows
        <3>3. Width(e, m) = Unshift(P, y) - Unshift(P, x) - 1 /\ Width(edge, m) = y - x - 1
            BY <1>3, <1>4 DEF Width
        <3> HIDE DEF x, y
        <3>4. Unshift(P, y) - Unshift(P, x) - 1 = y - x - 1
            BY <3>1, <3>2 DEF Unshift
        <3>5. QED
            BY <3>3, <3>4
    <2>4. ASSUME NEW s \in Sides
          PROVE  u[m][s] = t[m][s] /\ height(u, u[m][s]) = height(t, t[m][s])
        <3>1. t[m][s] # n
            <4> SUFFICES ASSUME t[m][s] = n PROVE FALSE
                OBVIOUS
            <4>1. up = m
                BY <1>1, <1>2, ChildFacts
            <4>2. up \in C \cup {Null}
                BY <1>2, <1>5 DEF Stale
            <4>3. QED
                BY <1>2, <1>7, <4>1, <4>2
        <3>2. u[m][s] = t[m][s]
            BY <1>6, <3>1
        <3>3. t[m][s] # Null => t[m][s] \in S
            BY <1>1, ChildFacts
        <3>4. QED
            BY <1>6, <3>2, <3>3 DEF height, Fields
    <2>5. HigherOf(u, m) = HigherOf(t, m)
        <3>1. /\ height(u, u[m].left) = height(t, t[m].left)
              /\ height(u, u[m].right) = height(t, t[m].right)
            BY <1>3, <2>4
        <3>2. QED
            BY <3>1 DEF HigherOf
    <2>6. u[m].size = t[m].size /\ u[m].height = t[m].height
        BY <1>6 DEF Fields
    <2>7. QED
        BY <2>1, <2>3, <2>5, <2>6
<1>8. Counted(u, R, e, C \ {n})
    BY <1>7 DEF Counted
<1>9. n = root => C = {n}
    BY <1>1, <1>5, StaleEnds
<1>10. ASSUME n # root PROVE Stale(u, R, C \ {n}, up)
    <2> DEFINE A == C \ {n}
    <2>1. up # Null /\ up \in S
        BY <1>1, <1>10, ChildFacts DEF Linked
    <2>2. \A s \in Sides : t[n][s] \notin C
        BY <1>5 DEF Stale
    <2>3. up # n
        <3> SUFFICES ASSUME up = n PROVE FALSE
            OBVIOUS
        <3>1. PICK s \in Sides : t[n][s] = n
            BY <1>1, <2>1 DEF Linked
        <3>2. QED
            BY <1>2, <2>2, <3>1
    <2>4. up \in A
        BY <1>2, <1>5, <2>1, <2>3 DEF Stale
    <2>5. c \notin C
        <3>1. c = t[n][Opposite(side)] /\ Opposite(side) \in Sides
            BY OppositeSide DEF Detachable
        <3>2. QED
            BY <2>2, <3>1
    <2>6. ASSUME NEW a \in A PROVE u[a].parent \in A \cup {Null}
        <3>1. u[a].parent = t[a].parent /\ a \in S
            BY <1>2, <1>6, <2>5
        <3>2. t[a].parent \in C \cup {Null}
            BY <1>5 DEF Stale
        <3>3. t[a].parent # n
            <4> SUFFICES ASSUME t[a].parent = n PROVE FALSE
                OBVIOUS
            <4>1. PICK s \in Sides : t[n][s] = a
                BY <1>1, <1>2, <3>1 DEF Linked
            <4>2. QED
                BY <2>2, <4>1
        <3>4. QED
            BY <3>1, <3>2, <3>3
    <2>7. ASSUME NEW s \in Sides PROVE u[up][s] \notin A
        <3>1. CASE t[up][s] = n
            BY <1>6, <2>1, <2>5, <3>1
        <3>2. CASE t[up][s] # n
            <4>1. u[up][s] = t[up][s]
                BY <1>6, <2>1, <3>2
            <4>2. PICK x \in Sides : t[up][x] = n
                BY <1>1, <2>1 DEF Linked
            <4>3. x # s /\ Sides = {x, Opposite(x)}
                BY <3>2, <4>2, OppositeSide
            <4>4. s = Opposite(x)
                BY <4>3
            <4>5. PICK y \in Sides : t[up][y] \in C /\ t[up][Opposite(y)] \notin C
                BY <1>5, <2>4 DEF Stale
            <4>6. y = x
                <5>1. t[up][x] \in C
                    BY <1>2, <4>2
                <5>2. Opposite(y) # x
                    BY <4>5, <5>1
                <5>3. Sides = {y, Opposite(y)}
                    BY OppositeSide
                <5>4. QED
                    BY <5>2, <5>3
            <4>7. QED
                BY <4>1, <4>4, <4>5, <4>6
        <3>3. QED
            BY <3>1, <3>2
    <2>8. ASSUME NEW a \in A \ {up}
          PROVE  \E s \in Sides : u[a][s] \in A /\ u[a][Opposite(s)] \notin A
        <3>1. PICK s \in Sides : t[a][s] \in C /\ t[a][Opposite(s)] \notin C
            BY <1>5 DEF Stale
        <3>2. a \in S /\ Opposite(s) \in Sides
            BY <1>2, OppositeSide
        <3>3. \A x \in Sides : t[a][x] # n
            BY <1>1, <1>2, <3>2, ChildFacts
        <3>4. u[a][s] = t[a][s] /\ u[a][Opposite(s)] = t[a][Opposite(s)]
            BY <1>6, <3>2, <3>3
        <3>5. QED
            BY <3>1, <3>3, <3>4
    <2>9. A \subseteq R
        BY <1>2
    <2> HIDE DEF A, R, up
    <2>10. Stale(u, R, A, up)
        BY <2>4, <2>6, <2>7, <2>8, <2>9 DEF Stale
    <2>11. QED
        BY <2>10 DEF A
<1>11. QED
    BY <1>8, <1>9, <1>10 DEF e, DetachedFields

\* r, which is outside the tree, takes over all links of n, but not its fields.
InPlace(n, r, x) == IF x = n THEN r ELSE x

Renamed(t, u, S, n, r) ==
    /\ IsTree(u) /\ DOMAIN u = DOMAIN t
    /\ \A m \in S : /\ u[InPlace(n, r, m)].parent = InPlace(n, r, t[m].parent)
                    /\ \A s \in Sides : u[InPlace(n, r, m)][s] = InPlace(n, r, t[m][s])
    /\ \A m \in S \ {n} : Fields(t, u, m)

RenamedPos(S, pos, n, r) ==
    [m \in (S \ {n}) \cup {r} |-> IF m = r THEN pos[n] ELSE pos[m]]

LEMMA InPlaceFacts ==
    ASSUME NEW S, Null \notin S, NEW n \in S, NEW r, r \notin S, r # Null
    PROVE  /\ InPlace(n, r, Null) = Null
           /\ \A x \in S : InPlace(n, r, x) \in (S \ {n}) \cup {r}
           /\ \A y \in (S \ {n}) \cup {r} : \E x \in S : y = InPlace(n, r, x)
           /\ \A x, y \in S \cup {Null} : InPlace(n, r, x) = InPlace(n, r, y) => x = y
           /\ \A x \in S \cup {Null} : x # n => InPlace(n, r, x) = x
           /\ InPlace(n, r, n) = r
BY DEF InPlace

LEMMA RenamedTree ==
    ASSUME NEW t, NEW S, NEW root, NEW pos, NEW edge, NEW A,
           Tree(t, S, root, pos, edge, A), NEW p, Stale(t, S, A, p), NEW n \in A,
           NEW r \in DOMAIN t \ S, NEW u, Renamed(t, u, S, n, r)
    PROVE  \E edge2, B : /\ Tree(u, (S \ {n}) \cup {r}, InPlace(n, r, root),
                                 RenamedPos(S, pos, n, r), edge2, B)
                         /\ Stale(u, (S \ {n}) \cup {r}, B, InPlace(n, r, p))
<1> DEFINE R == (S \ {n}) \cup {r}
           To(x) == InPlace(n, r, x)
           q == RenamedPos(S, pos, n, r)
           e == RenamedPos(S, edge, n, r)
           B == {To(a) : a \in A}
<1>1. Linked(t, S, root) /\ Ordered(t, S, pos, edge) /\ Counted(t, S, edge, A)
    BY DEF Tree
<1>2. /\ IsTree(u) /\ DOMAIN u = DOMAIN t /\ S \subseteq DOMAIN t /\ root \in S
      /\ Null \notin S /\ r # Null /\ r \notin S /\ A \subseteq S /\ n \in S /\ p \in A
    BY <1>1 DEF Linked, IsTree, Renamed, Stale
<1>3. "left" \in Sides /\ "right" \in Sides
    BY DEF Sides
<1>4. /\ To(Null) = Null /\ To(n) = r
      /\ \A x \in S : To(x) \in R
      /\ \A y \in R : \E x \in S : y = To(x)
      /\ \A x, y \in S \cup {Null} : To(x) = To(y) => x = y
      /\ \A x \in S \cup {Null} : x # n => To(x) = x
    BY <1>2, InPlaceFacts
<1>5. \A m \in S : u[To(m)].parent = To(t[m].parent)
                   /\ \A s \in Sides : u[To(m)][s] = To(t[m][s])
    BY DEF Renamed
<1>6. \A m \in S : q[To(m)] = pos[m] /\ e[To(m)] = edge[m]
    BY <1>2 DEF RenamedPos, InPlace
<1>7. q \in [R -> Int] /\ e \in [R -> [Sides -> Int]]
    BY <1>1, <1>2 DEF RenamedPos, Ordered
<1>8. Null \notin R /\ R \subseteq DOMAIN u
    BY <1>2
<1> HIDE DEF To, q, e, R
<1>9. \A m \in S : /\ t[m].parent \in S \cup {Null}
                   /\ \A s \in Sides : t[m][s] \in S \cup {Null}
    BY <1>1 DEF Linked
<1>10. Linked(u, R, To(root))
    <2>1. ASSUME NEW y \in R, NEW s \in Sides, u[y][s] # Null
          PROVE  u[y][s] \in R /\ u[u[y][s]].parent = y
        <3>1. PICK m \in S : y = To(m)
            BY <1>4
        <3>2. u[y][s] = To(t[m][s]) /\ t[m][s] # Null
            BY <1>4, <1>5, <2>1, <3>1
        <3>3. t[m][s] \in S /\ t[t[m][s]].parent = m
            BY <1>1, <3>2 DEF Linked
        <3>4. QED
            BY <1>4, <1>5, <3>1, <3>2, <3>3
    <2>2. ASSUME NEW y \in R, u[y].parent # Null
          PROVE  u[y].parent \in R /\ \E s \in Sides : u[u[y].parent][s] = y
        <3>1. PICK m \in S : y = To(m)
            BY <1>4
        <3>2. u[y].parent = To(t[m].parent) /\ t[m].parent # Null
            BY <1>4, <1>5, <2>2, <3>1
        <3>3. t[m].parent \in S /\ \E s \in Sides : t[t[m].parent][s] = m
            BY <1>1, <3>2 DEF Linked
        <3>4. QED
            BY <1>4, <1>5, <3>1, <3>2, <3>3
    <2>3. ASSUME NEW y \in R PROVE u[y].parent = Null <=> y = To(root)
        <3>1. PICK m \in S : y = To(m)
            BY <1>4
        <3>2. u[y].parent = Null <=> t[m].parent = Null
            BY <1>4, <1>5, <1>9, <3>1
        <3>3. t[m].parent = Null <=> m = root
            BY <1>1 DEF Linked
        <3>4. m = root <=> y = To(root)
            BY <1>2, <1>4, <3>1
        <3>5. QED
            BY <3>2, <3>3, <3>4
    <2>4. To(root) \in R
        BY <1>2, <1>4
    <2>5. QED
        BY <1>2, <1>8, <2>1, <2>2, <2>3, <2>4 DEF Linked
<1>11. Ordered(u, R, q, e)
    <2>1. ASSUME NEW y \in R PROVE e[y]["left"] < q[y] /\ q[y] < e[y]["right"]
        <3>1. PICK m \in S : y = To(m)
            BY <1>4
        <3>2. edge[m]["left"] < pos[m] /\ pos[m] < edge[m]["right"]
            BY <1>1 DEF Ordered
        <3>3. QED
            BY <1>6, <3>1, <3>2
    <2>2. ASSUME NEW y \in R, NEW s \in Sides
          PROVE  LET d == u[y][s]
                 IN  IF d = Null THEN e[y][s] = q[y] + Toward(s)
                     ELSE e[d][s] = e[y][s] /\ e[d][Opposite(s)] = q[y]
        <3>1. PICK m \in S : y = To(m)
            BY <1>4
        <3> DEFINE c == t[m][s]
        <3>2. u[y][s] = To(c) /\ c \in S \cup {Null} /\ q[y] = pos[m] /\ e[y] = edge[m]
            BY <1>5, <1>6, <1>9, <3>1
        <3>3. IF c = Null THEN edge[m][s] = pos[m] + Toward(s)
              ELSE edge[c][s] = edge[m][s] /\ edge[c][Opposite(s)] = pos[m]
            BY <1>1 DEF Ordered
        <3> HIDE DEF c
        <3>4. CASE c = Null
            BY <1>4, <3>2, <3>3, <3>4
        <3>5. CASE c # Null
            <4>1. c \in S /\ To(c) \in R /\ To(c) # Null /\ e[To(c)] = edge[c]
                BY <1>4, <1>6, <1>8, <3>2, <3>5
            <4>2. QED
                BY <3>2, <3>3, <3>5, <4>1
        <3>6. QED
            BY <3>4, <3>5
    <2>3. QED
        BY <1>7, <2>1, <2>2 DEF Ordered
<1>12. Counted(u, R, e, B)
    <2>1. ASSUME NEW y \in R, y \notin B
          PROVE  u[y].size = Width(e, y) /\ u[y].height = HigherOf(u, y) + 1
        <3>1. PICK m \in S : y = To(m)
            BY <1>4
        <3>2. m \notin A /\ m # n
            BY <2>1, <3>1
        <3>3. y = m /\ e[m] = edge[m]
            BY <1>4, <1>6, <3>1, <3>2
        <3>4. t[m].size = Width(edge, m) /\ t[m].height = HigherOf(t, m) + 1
            BY <1>1, <3>2 DEF Counted
        <3>5. u[m].size = t[m].size /\ u[m].height = t[m].height
            BY <3>2 DEF Renamed, Fields
        <3>6. Width(e, m) = Width(edge, m)
            BY <3>3 DEF Width
        <3>7. ASSUME NEW s \in Sides PROVE height(u, u[m][s]) = height(t, t[m][s])
            <4>1. t[m][s] # n
                <5> SUFFICES ASSUME t[m][s] = n PROVE FALSE
                    OBVIOUS
                <5>1. t[n].parent = m
                    BY <1>1, <1>2 DEF Linked
                <5>2. t[n].parent \in A \cup {Null}
                    BY DEF Stale
                <5>3. QED
                    BY <1>2, <3>2, <5>1, <5>2
            <4>2. u[m][s] = t[m][s]
                BY <1>4, <1>5, <1>9, <3>1, <3>3, <4>1
            <4>3. t[m][s] # Null => Fields(t, u, t[m][s])
                BY <1>9, <4>1 DEF Renamed
            <4>4. QED
                BY <4>2, <4>3 DEF height, Fields
        <3>8. HigherOf(u, m) = HigherOf(t, m)
            <4>1. /\ height(u, u[m].left) = height(t, t[m].left)
                  /\ height(u, u[m].right) = height(t, t[m].right)
                BY <1>3, <3>7
            <4>2. QED
                BY <4>1 DEF HigherOf
        <3>9. QED
            BY <3>3, <3>4, <3>5, <3>6, <3>8
    <2>2. QED
        BY <2>1 DEF Counted
<1>13. Stale(u, R, B, To(p))
    <2>1. B \subseteq R /\ To(p) \in B
        BY <1>2, <1>4
    <2>2. \A x \in S \cup {Null} : To(x) \in B => x \in A
        BY <1>2, <1>4
    <2>3. ASSUME NEW b \in B PROVE u[b].parent \in B \cup {Null}
        <3>1. PICK a \in A : b = To(a)
            OBVIOUS
        <3>2. t[a].parent \in A \cup {Null}
            BY DEF Stale
        <3>3. u[b].parent = To(t[a].parent)
            BY <1>2, <1>5, <3>1
        <3>4. QED
            BY <1>4, <3>2, <3>3
    <2>4. ASSUME NEW s \in Sides PROVE u[To(p)][s] \notin B
        <3>1. t[p][s] \notin A
            BY DEF Stale
        <3>2. u[To(p)][s] = To(t[p][s]) /\ t[p][s] \in S \cup {Null}
            BY <1>2, <1>5, <1>9
        <3>3. QED
            BY <2>2, <3>1, <3>2
    <2>5. ASSUME NEW b \in B \ {To(p)}
          PROVE  \E s \in Sides : u[b][s] \in B /\ u[b][Opposite(s)] \notin B
        <3>1. PICK a \in A : b = To(a)
            OBVIOUS
        <3>2. a # p /\ a \in S
            BY <1>2, <3>1
        <3>3. PICK s \in Sides : t[a][s] \in A /\ t[a][Opposite(s)] \notin A
            BY <3>2 DEF Stale
        <3>4. Opposite(s) \in Sides
            BY OppositeSide
        <3>5. /\ u[b][s] = To(t[a][s]) /\ u[b][Opposite(s)] = To(t[a][Opposite(s)])
              /\ t[a][Opposite(s)] \in S \cup {Null}
            BY <1>5, <1>9, <3>1, <3>2, <3>4
        <3>6. QED
            BY <2>2, <3>3, <3>5
    <2> HIDE DEF B
    <2>6. QED
        BY <2>1, <2>3, <2>4, <2>5 DEF Stale
<1>14. Tree(u, R, To(root), q, e, B)
    BY <1>10, <1>11, <1>12 DEF Tree
<1> HIDE DEF B
<1>15. QED
    BY <1>13, <1>14 DEF R, To, q

\* The last steps of the links in DeleteWithLeft put r in the place of n.
TakesChildren(t, n, r) ==
    LET t3 == [t EXCEPT ![r].left = t[n].left, ![r].right = t[n].right]
    IN  [m \in DOMAIN t3 |->
            IF m \in {t3[n].left, t3[n].right} THEN [t3[m] EXCEPT !.parent = r] ELSE t3[m]]

LEMMA TakesChildrenResult ==
    ASSUME NEW t, IsTree(t), NEW n \in DOMAIN t, NEW r \in DOMAIN t, n # r
    PROVE  LET u == TakesChildren(t, n, r)
           IN  /\ IsTree(u) /\ DOMAIN u = DOMAIN t
               /\ \A m \in DOMAIN t :
                    /\ Fields(t, u, m)
                    /\ u[m].parent = IF \E s \in Sides : t[n][s] = m THEN r ELSE t[m].parent
                    /\ \A s \in Sides : u[m][s] = IF m = r THEN t[n][s] ELSE t[m][s]
<1> DEFINE D == DOMAIN t
           t2 == SetChild(t, r, "left", t[n].left)
           t3 == SetChild(t2, r, "right", t[n].right)
           Kids == {t3[n].left, t3[n].right}
           u == [m \in DOMAIN t3 |-> IF m \in Kids THEN [t3[m] EXCEPT !.parent = r] ELSE t3[m]]
<1>1. t3 = [t EXCEPT ![r].left = t[n].left, ![r].right = t[n].right]
    BY DEF SetChild
<1>2. TakesChildren(t, n, r) = u
    BY <1>1 DEF TakesChildren
<1>3. "left" \in Sides /\ "right" \in Sides /\ "left" # "right"
    BY DEF Sides
<1>4. ChildIsSet(t, t2, r, "left", t[n].left)
    BY <1>3, NodeFields, SetChildResult
<1> HIDE DEF t2
<1>5. ChildIsSet(t2, t3, r, "right", t[n].right)
    <2>1. IsTree(t2) /\ DOMAIN t2 = D /\ t[n].right \in D \cup {Null}
        BY <1>4, NodeFields DEF ChildIsSet
    <2>2. r \in DOMAIN t2 /\ t[n].right \in DOMAIN t2 \cup {Null}
        BY <2>1
    <2>3. QED
        BY <1>3, <2>1, <2>2, SetChildResult
<1> HIDE DEF t3
<1>6. /\ IsTree(t3) /\ DOMAIN t3 = D
      /\ \A m \in D : /\ Fields(t, t3, m) /\ t3[m].parent = t[m].parent
                      /\ \A s \in Sides : t3[m][s] = IF m = r THEN t[n][s] ELSE t[m][s]
    <2>1. \A m \in D : m # r => t3[m] = t[m]
        BY <1>4, <1>5 DEF ChildIsSet
    <2>2. t3[r]["left"] = t[n].left /\ t3[r]["right"] = t[n].right
        BY <1>3, <1>4, <1>5 DEF ChildIsSet
    <2>3. t3[r].parent = t[r].parent /\ Fields(t, t3, r)
        BY <1>4, <1>5 DEF ChildIsSet, Fields
    <2>4. QED
        BY <1>4, <1>5, <2>1, <2>2, <2>3 DEF ChildIsSet, Fields, Sides
<1>7. \A m \in D : m \in Kids <=> \E s \in Sides : t[n][s] = m
    BY <1>3, <1>6 DEF Sides
<1>8. ASSUME NEW m \in D
      PROVE  /\ u[m] \in NodeType(D) /\ Fields(t3, u, m)
             /\ u[m].parent = IF m \in Kids THEN r ELSE t3[m].parent
             /\ \A s \in Sides : u[m][s] = t3[m][s]
    <2>1. t3[m] \in NodeType(D) /\ u[m] = IF m \in Kids THEN [t3[m] EXCEPT !.parent = r] ELSE t3[m]
        BY <1>6 DEF IsTree
    <2> HIDE DEF u, Kids
    <2>2. CASE m \in Kids
        BY <2>1, <2>2 DEF NodeType, Fields, Sides
    <2>3. CASE m \notin Kids
        BY <2>1, <2>3 DEF Fields
    <2>4. QED
        BY <2>2, <2>3
<1>9. DOMAIN u = D /\ u = [m \in D |-> u[m]]
    BY <1>6
<1> HIDE DEF u, Kids
<1>10. IsTree(u)
    <2>1. u \in [D -> NodeType(D)]
        BY <1>8, <1>9
    <2>2. QED
        BY <1>9, <2>1 DEF IsTree
<1>11. ASSUME NEW m \in D
       PROVE  /\ Fields(t, u, m)
              /\ u[m].parent = IF \E s \in Sides : t[n][s] = m THEN r ELSE t[m].parent
              /\ \A s \in Sides : u[m][s] = IF m = r THEN t[n][s] ELSE t[m][s]
    <2>1. Fields(t, u, m)
        BY <1>6, <1>8 DEF Fields
    <2>2. QED
        BY <1>6, <1>7, <1>8, <2>1
<1>12. QED
    BY <1>2, <1>9, <1>10, <1>11

LEMMA RenamedResult ==
    ASSUME NEW t, NEW S, NEW root, Linked(t, S, root), NEW pos, NEW edge,
           Ordered(t, S, pos, edge), NEW n \in S, NEW r \in DOMAIN t \ S
    PROVE  LET u == TakesChildren(replace_node(t, n, r), n, r)
           IN  Renamed(t, u, S, n, r) /\ SameElsewhere(t, u, S \cup {r})
<1> DEFINE t2 == replace_node(t, n, r)
           u == TakesChildren(t2, n, r)
<1>1. /\ IsTree(t) /\ S \subseteq DOMAIN t /\ Null \notin S /\ n # Null /\ n \in DOMAIN t
      /\ r # Null /\ r \notin S /\ r # n
    BY DEF Linked, IsTree
<1>2. Replaced(t, t2, n, r)
    BY <1>1, ReplacedResult
<1> HIDE DEF t2
<1>3. Swapped(t, t2, S, n, r) /\ SameElsewhere(t, t2, S \cup {r})
    BY <1>2, ReplacedInTree
<1>4. IsTree(t2) /\ DOMAIN t2 = DOMAIN t /\ t2[r].parent = t[n].parent
    BY <1>2 DEF Replaced
<1>5. /\ IsTree(u) /\ DOMAIN u = DOMAIN t
      /\ \A m \in DOMAIN t :
            /\ Fields(t2, u, m)
            /\ u[m].parent = IF \E s \in Sides : t2[n][s] = m THEN r ELSE t2[m].parent
            /\ \A s \in Sides : u[m][s] = IF m = r THEN t2[n][s] ELSE t2[m][s]
    BY <1>1, <1>4, TakesChildrenResult
<1> HIDE DEF u
<1>6. \A m \in S : /\ Fields(t, t2, m) /\ t2[m].parent = t[m].parent
                   /\ \A s \in Sides : t2[m][s] = InPlace(n, r, t[m][s])
    BY <1>1, <1>3 DEF Swapped, InPlace
<1>7. \A s \in Sides : t[n][s] # n /\ t2[n][s] = t[n][s] /\ t[n][s] \in S \cup {Null}
    <2>1. ASSUME NEW s \in Sides PROVE t[n][s] # n
        BY <1>1, ChildNarrower
    <2>2. QED
        BY <1>6, <2>1, ChildFacts DEF InPlace
<1>8. \A m \in S : (\E s \in Sides : t[n][s] = m) <=> t[m].parent = n
    BY <1>1 DEF Linked
<1>9. t[n].parent # n
    BY <1>7, <1>8
<1>10. ASSUME NEW m \in S
       PROVE  /\ u[InPlace(n, r, m)].parent = InPlace(n, r, t[m].parent)
              /\ \A s \in Sides : u[InPlace(n, r, m)][s] = InPlace(n, r, t[m][s])
    <2>1. CASE m = n
        <3>1. InPlace(n, r, m) = r /\ InPlace(n, r, t[m].parent) = t[n].parent
            BY <1>9, <2>1 DEF InPlace
        <3>2. ~\E s \in Sides : t2[n][s] = r
            BY <1>1, <1>7
        <3>3. u[r].parent = t[n].parent
            BY <1>4, <1>5, <3>2
        <3>4. \A s \in Sides : u[r][s] = t[n][s] /\ InPlace(n, r, t[m][s]) = t[n][s]
            BY <1>5, <1>7, <2>1 DEF InPlace
        <3>5. QED
            BY <3>1, <3>3, <3>4
    <2>2. CASE m # n
        <3>1. InPlace(n, r, m) = m /\ m \in DOMAIN t /\ m # r
            BY <1>1, <2>2 DEF InPlace
        <3>2. u[m].parent = IF t[m].parent = n THEN r ELSE t[m].parent
            BY <1>5, <1>6, <1>7, <1>8, <3>1
        <3>3. \A s \in Sides : u[m][s] = InPlace(n, r, t[m][s])
            BY <1>5, <1>6, <3>1
        <3>4. QED
            BY <3>1, <3>2, <3>3 DEF InPlace
    <2>3. QED
        BY <2>1, <2>2
<1>11. \A m \in S \ {n} : Fields(t, u, m)
    BY <1>1, <1>5, <1>6 DEF Fields
<1>12. Renamed(t, u, S, n, r)
    BY <1>5, <1>10, <1>11 DEF Renamed
<1>13. SameElsewhere(t2, u, S \cup {r})
    <2>1. ASSUME NEW m \in DOMAIN t2 \ (S \cup {r})
          PROVE  u[m].left = t2[m].left /\ u[m].right = t2[m].right
                 /\ u[m].parent = t2[m].parent /\ Fields(t2, u, m)
        <3>1. m \in DOMAIN t /\ m # r /\ m \notin S /\ m # Null
            BY <1>4 DEF IsTree
        <3>2. ~\E s \in Sides : t2[n][s] = m
            BY <1>7, <3>1
        <3>3. \A s \in Sides : u[m][s] = t2[m][s]
            BY <1>5, <3>1
        <3>4. QED
            BY <1>5, <3>1, <3>2, <3>3 DEF Sides
    <2>2. QED
        BY <1>4, <1>5, <2>1 DEF SameElsewhere
<1>14. SameElsewhere(t, u, S \cup {r})
    BY <1>3, <1>13, SameElsewhereTwice
<1>15. QED
    BY <1>12, <1>14 DEF u, t2

\* v is the tree t without n: the other nodes are in the order they were in.
IsWithout(t, v, S, top, pos, n) ==
    /\ \E edge : Tree(v, S \ {n}, top, RemovedPos(S, pos, n, pos[n]), edge, {})
    /\ SameElsewhere(t, v, S)

\* The node n goes, and the child it may have takes its place.
LEMMA Detached ==
    ASSUME NEW t, IsFiniteSet(DOMAIN t), NEW S, NEW root, NEW pos, NEW edge,
           Tree(t, S, root, pos, edge, {}), NEW n \in S, S # {n}, NEW side \in Sides,
           NEW C, Ways(t, S, edge, root, pos[n], n, C),
           NEW P \in Int, NEW c, Detachable(t, pos, n, side, P, c),
           NEW u, u = replace_node(t, n, c)
    PROVE  /\ Tree(u, S \ {n}, RootWithout(root, n, c), RemovedPos(S, pos, n, P),
                   RemovedEdge(S, edge, n, P), C \ {n})
           /\ n # root => Stale(u, S \ {n}, C \ {n}, t[n].parent)
           /\ n = root => C = {n}
           /\ SameElsewhere(t, u, S)
<1> DEFINE o == Opposite(side)
<1>1. Linked(t, S, root) /\ Ordered(t, S, pos, edge)
    BY DEF Tree
<1>2. IsTree(t) /\ S \subseteq DOMAIN t /\ Null \notin DOMAIN t
    BY <1>1 DEF Linked, IsTree
<1>3. o \in Sides /\ Sides = {side, o} /\ t[n][side] = Null /\ c = t[n][o]
    BY OppositeSide DEF Detachable, FreePlace
<1>4. c \in S \cup {Null}
    BY <1>1, <1>3 DEF Linked
<1>5. n = root => c # Null
    <2> SUFFICES ASSUME n = root, c = Null PROVE FALSE
        OBVIOUS
    <2>1. \A s \in Sides : edge[n][s] = pos[n] + Toward(s)
        BY <1>1, <1>3 DEF Ordered
    <2>2. edge[n]["left"] = pos[n] + -1 /\ edge[n]["right"] = pos[n] + 1
        BY <2>1 DEF Toward, Sides
    <2>3. PICK m \in S : m # n
        OBVIOUS
    <2>4. edge[n]["left"] < pos[m] /\ pos[m] < edge[n]["right"]
        BY RootSpans
    <2>5. pos[n] \in Int /\ pos[m] \in Int
        BY PathSizes
    <2>6. pos[m] = pos[n]
        BY <2>2, <2>4, <2>5
    <2>7. QED
        BY <2>3, <2>6, PositionsDiffer
<1>6. Replaced(t, u, n, c)
    BY <1>2, <1>4, ReplacedResult
<1>7. Swapped(t, u, S, n, c) /\ SameElsewhere(t, u, S \cup {c})
    BY <1>1, <1>6, ReplacedInTree
<1>8. SameElsewhere(t, u, S)
    <2>1. DOMAIN t \ (S \cup {c}) = DOMAIN t \ S
        BY <1>2, <1>4
    <2>2. QED
        BY <1>7, <2>1 DEF SameElsewhere
<1>9. Linked(u, S \ {n}, RootWithout(root, n, c))
    BY <1>1, <1>5, <1>7, DetachedLinks
<1>10. Ordered(u, S \ {n}, RemovedPos(S, pos, n, P), RemovedEdge(S, edge, n, P))
    BY <1>7, DetachedOrder
<1>11. /\ Counted(u, S \ {n}, RemovedEdge(S, edge, n, P), C \ {n})
       /\ n # root => Stale(u, S \ {n}, C \ {n}, t[n].parent)
       /\ n = root => C = {n}
    <2>1. DetachedFields(t, u, S, root, edge, n, P, C)
        BY <1>7, DetachedCount
    <2>2. QED
        BY <2>1 DEF DetachedFields
<1>12. QED
    BY <1>8, <1>9, <1>10, <1>11 DEF Tree

LEMMA DeletedWithoutLeft ==
    ASSUME NEW t, IsFiniteSet(DOMAIN t), NEW S, NEW root, NEW pos, NEW edge,
           Tree(t, S, root, pos, edge, {}), NEW n \in S, S # {n}, t[n].left = Null
    PROVE  LET u == replace_node(t, n, t[n].right)
               top == restore_height_size_and_balance_of_tree(u, t[n].parent)
           IN  IF t[n].parent = Null THEN IsWithout(t, u, S, t[n].right, pos, n)
               ELSE IsWithout(t, top.tree, S, top.node, pos, n)
<1> DEFINE c == t[n].right
           P == pos[n]
           u == replace_node(t, n, c)
           top == restore_height_size_and_balance_of_tree(u, t[n].parent)
           q == RemovedPos(S, pos, n, P)
           e == RemovedEdge(S, edge, n, P)
<1>1. P \in Int
    BY PathSizes
<1>2. PICK C : Ways(t, S, edge, root, pos[n], n, C)
    BY WayUp
<1>3. Detachable(t, pos, n, "left", P, c) /\ "left" \in Sides
    BY OppositeSide DEF Detachable, FreePlace, Sides
<1> HIDE DEF c, P
<1>4. /\ Tree(u, S \ {n}, RootWithout(root, n, c), q, e, C \ {n})
      /\ n # root => Stale(u, S \ {n}, C \ {n}, t[n].parent)
      /\ n = root => C = {n}
      /\ SameElsewhere(t, u, S)
    BY <1>1, <1>2, <1>3, Detached
<1>5. t[n].parent = Null <=> n = root
    BY DEF Tree, Linked
<1> HIDE DEF u, q, e
<1>6. CASE n = root
    <2>1. C \ {n} = {} /\ RootWithout(root, n, c) = c
        BY <1>4, <1>6 DEF RootWithout
    <2>2. Tree(u, S \ {n}, c, q, e, {})
        BY <1>4, <2>1
    <2>3. IsWithout(t, u, S, c, pos, n)
        BY <1>4, <2>2 DEF IsWithout, q, P
    <2>4. QED
        BY <1>5, <1>6, <2>3 DEF u, c
<1>7. CASE n # root
    <2> DEFINE R == S \ {n}
               A == C \ {n}
               up == t[n].parent
    <2>1. Tree(u, R, root, q, e, A) /\ Stale(u, R, A, up)
        BY <1>4, <1>7 DEF RootWithout
    <2>2. IsFiniteSet(DOMAIN u)
        BY <1>4 DEF SameElsewhere
    <2> HIDE DEF R, A, up
    <2>3. (\E edge2 : Tree(top.tree, R, top.node, q, edge2, {})) /\ SameElsewhere(u, top.tree, R)
        BY <2>1, <2>2, RestoreKeepsOrder DEF up
    <2> HIDE DEF top
    <2>4. SameElsewhere(u, top.tree, S)
        BY <2>3 DEF SameElsewhere, R
    <2>5. SameElsewhere(t, top.tree, S)
        BY <1>4, <2>4, SameElsewhereTwice
    <2>6. IsWithout(t, top.tree, S, top.node, pos, n)
        BY <2>3, <2>5 DEF IsWithout, R, q, P
    <2>7. QED
        BY <1>5, <1>7, <2>6 DEF top, u, c
<1>8. QED
    BY <1>6, <1>7

LEMMA DeletedWithLeft ==
    ASSUME NEW t, IsFiniteSet(DOMAIN t), NEW S, NEW root, NEW pos, NEW edge,
           Tree(t, S, root, pos, edge, {}), NEW n \in S, t[n].left # Null
    PROVE  LET r == find_outmost(t, t[n].left, "right")
               t1 == replace_node(t, r, t[r].left)
               u == TakesChildren(replace_node(t1, n, r), n, r)
               top == restore_height_size_and_balance_of_tree(u, InPlace(n, r, t[r].parent))
           IN  IsWithout(t, top.tree, S, top.node, pos, n)
<1> DEFINE l == t[n].left
           r == find_outmost(t, l, "right")
           c == t[r].left
           t1 == replace_node(t, r, c)
           u == TakesChildren(replace_node(t1, n, r), n, r)
           top == restore_height_size_and_balance_of_tree(u, InPlace(n, r, t[r].parent))
           P == pos[n]
           S1 == S \ {r}
           q1 == RemovedPos(S, pos, r, P)
           e1 == RemovedEdge(S, edge, r, P)
<1>1. Linked(t, S, root) /\ Ordered(t, S, pos, edge) /\ S \subseteq DOMAIN t
    BY DEF Tree, Linked
<1>2. "left" \in Sides /\ "right" \in Sides /\ Opposite("right") = "left" /\ Toward("right") = 1
    BY OppositeSide DEF Sides, Toward
<1>3. /\ l \in S /\ edge[l]["right"] = P /\ edge[l]["left"] = edge[n]["left"]
    <2>1. t[n]["left"] # Null /\ Opposite("left") = "right"
        BY OppositeSide
    <2>2. QED
        BY <1>1, <1>2, <2>1 DEF Linked, Ordered
<1> HIDE DEF l
<1>4. r \in S /\ t[r]["right"] = Null /\ edge[r]["right"] = P /\ P = pos[r] + 1
    BY <1>1, <1>2, <1>3, OutmostIs
<1> HIDE DEF r, P
<1>5. P \in Int /\ pos[r] \in Int /\ pos[r] < P /\ P = pos[n] /\ r # n
    BY <1>4, PathSizes DEF P
<1>6. r # root
    <2>1. P < edge[root]["right"]
        BY RootSpans DEF P
    <2>2. QED
        BY <1>4, <1>5, <2>1
<1>7. PICK C : Ways(t, S, edge, root, pos[r], r, C)
    BY <1>4, WayUp
<1>8. n \in C
    <2>1. edge[n]["left"] < pos[r] /\ pos[r] < edge[n]["right"]
        <3>1. edge[n]["left"] < pos[l] /\ pos[l] < P /\ pos[l] \in Int /\ edge[n]["left"] \in Int
            BY <1>3, PathSizes
        <3>2. P < edge[n]["right"] /\ edge[n]["right"] \in Int
            BY <1>5, PathSizes
        <3>3. QED
            BY <1>4, <1>5, <3>1, <3>2
    <2>2. QED
        BY <1>4, <1>7, <2>1, SpanIsAbove
<1>9. Detachable(t, pos, r, "right", P, c)
    BY <1>2, <1>4 DEF Detachable, FreePlace
<1> HIDE DEF c
<1>10. /\ Tree(t1, S1, root, q1, e1, C \ {r})
       /\ Stale(t1, S1, C \ {r}, t[r].parent)
       /\ SameElsewhere(t, t1, S)
    <2>1. S # {r}
        BY <1>5
    <2>2. /\ Tree(t1, S1, RootWithout(root, r, c), q1, e1, C \ {r})
          /\ r # root => Stale(t1, S1, C \ {r}, t[r].parent)
          /\ SameElsewhere(t, t1, S)
        BY <1>2, <1>4, <1>5, <1>7, <1>9, <2>1, Detached
    <2>3. QED
        BY <1>6, <2>2 DEF RootWithout
<1> HIDE DEF t1, q1, e1
<1> DEFINE A == C \ {r}
           p == t[r].parent
<1>11. n \in A /\ n \in S1 /\ r \in DOMAIN t1 \ S1 /\ IsFiniteSet(DOMAIN t1)
    BY <1>1, <1>4, <1>5, <1>8, <1>10 DEF SameElsewhere
<1>12. (S1 \ {n}) \cup {r} = S \ {n} /\ S1 \cup {r} = S
    BY <1>4, <1>5
<1> HIDE DEF S1, A, p
<1>13. Renamed(t1, u, S1, n, r) /\ SameElsewhere(t1, u, S1 \cup {r})
    <2>1. Linked(t1, S1, root) /\ Ordered(t1, S1, q1, e1)
        BY <1>10 DEF Tree
    <2>2. QED
        BY <1>11, <2>1, RenamedResult
<1> HIDE DEF u
<1>14. PICK edge2, B : /\ Tree(u, (S1 \ {n}) \cup {r}, InPlace(n, r, root),
                               RenamedPos(S1, q1, n, r), edge2, B)
                       /\ Stale(u, (S1 \ {n}) \cup {r}, B, InPlace(n, r, p))
    <2>1. Tree(t1, S1, root, q1, e1, A) /\ Stale(t1, S1, A, p)
        BY <1>10 DEF A, p
    <2>2. QED
        BY <1>11, <1>13, <2>1, RenamedTree
<1>15. RenamedPos(S1, q1, n, r) = RemovedPos(S, pos, n, pos[n])
    <2>1. q1[n] = pos[r]
        BY <1>4, <1>5, <1>11 DEF q1, RemovedPos, Unshift, S1
    <2>2. Unshift(P, pos[r]) = pos[r]
        BY <1>5 DEF Unshift
    <2>3. \A m \in S \ {n} : (IF m = r THEN q1[n] ELSE q1[m]) = Unshift(P, pos[m])
        BY <2>1, <2>2 DEF q1, RemovedPos
    <2>4. RenamedPos(S1, q1, n, r) = [m \in S \ {n} |-> IF m = r THEN q1[n] ELSE q1[m]]
        BY <1>12 DEF RenamedPos
    <2>5. QED
        BY <1>5, <2>3, <2>4 DEF RemovedPos
<1> DEFINE R == S \ {n}
           q == RemovedPos(S, pos, n, pos[n])
           start == InPlace(n, r, p)
           high == InPlace(n, r, root)
<1>16. Tree(u, R, high, q, edge2, B) /\ Stale(u, R, B, start)
    BY <1>12, <1>14, <1>15
<1>17. SameElsewhere(t1, u, S) /\ IsFiniteSet(DOMAIN u)
    BY <1>11, <1>12, <1>13 DEF SameElsewhere
<1>18. top = restore_height_size_and_balance_of_tree(u, start)
    BY DEF p
<1> HIDE DEF R, q, start, high, top
<1>19. (\E edge3 : Tree(top.tree, R, top.node, q, edge3, {})) /\ SameElsewhere(u, top.tree, R)
    BY <1>16, <1>17, <1>18, RestoreKeepsOrder
<1>20. SameElsewhere(u, top.tree, S)
    BY <1>19 DEF SameElsewhere, R
<1>21. SameElsewhere(t, top.tree, S)
    BY <1>10, <1>17, <1>20, SameElsewhereTwice
<1>22. IsWithout(t, top.tree, S, top.node, pos, n)
    BY <1>19, <1>21 DEF IsWithout, R, q
<1>23. QED
    BY <1>22 DEF top, u, t1, c, r, l

\* What happens to other nodes does not matter to a tree.
LEMMA TreeStays ==
    ASSUME NEW t, NEW S, NEW root, NEW pos, NEW edge, Tree(t, S, root, pos, edge, {}),
           NEW n, n \notin S, NEW u, IsTree(u), SameElsewhere(t, u, {n})
    PROVE  Tree(u, S, root, pos, edge, {})
<1>1. Linked(t, S, root) /\ Ordered(t, S, pos, edge) /\ Counted(t, S, edge, {})
    BY DEF Tree
<1>2. S \subseteq DOMAIN t /\ DOMAIN u = DOMAIN t /\ Null \notin S
    BY <1>1 DEF Linked, IsTree, SameElsewhere
<1>3. \A m \in S : /\ u[m].parent = t[m].parent /\ Fields(t, u, m)
                   /\ \A s \in Sides : u[m][s] = t[m][s]
    BY <1>2 DEF SameElsewhere, Sides
<1>4. Linked(u, S, root)
    <2>1. ASSUME NEW m \in S, NEW s \in Sides, u[m][s] # Null
          PROVE  u[m][s] \in S /\ u[u[m][s]].parent = m
        BY <1>1, <1>3, <2>1, ChildFacts
    <2>2. ASSUME NEW m \in S, u[m].parent # Null
          PROVE  u[m].parent \in S /\ \E s \in Sides : u[u[m].parent][s] = m
        <3>1. t[m].parent \in S /\ \E s \in Sides : t[t[m].parent][s] = m
            BY <1>1, <1>3, <2>2 DEF Linked
        <3>2. QED
            BY <1>3, <3>1
    <2>3. \A m \in S : u[m].parent = Null <=> m = root
        BY <1>1, <1>3 DEF Linked
    <2>4. root \in S
        BY <1>1 DEF Linked
    <2>5. QED
        BY <1>2, <2>1, <2>2, <2>3, <2>4 DEF Linked
<1>5. Ordered(u, S, pos, edge)
    BY <1>1, <1>3 DEF Ordered
<1>6. Counted(u, S, edge, {})
    <2>1. ASSUME NEW m \in S PROVE u[m].size = Width(edge, m) /\ u[m].height = HigherOf(u, m) + 1
        <3>1. t[m].size = Width(edge, m) /\ t[m].height = HigherOf(t, m) + 1
            BY <1>1 DEF Counted
        <3>2. ASSUME NEW s \in Sides PROVE height(u, u[m][s]) = height(t, t[m][s])
            <4>1. u[m][s] = t[m][s] /\ (t[m][s] # Null => t[m][s] \in S)
                BY <1>1, <1>3, ChildFacts
            <4>2. QED
                BY <1>3, <4>1 DEF height, Fields
        <3>3. /\ height(u, u[m].left) = height(t, t[m].left)
              /\ height(u, u[m].right) = height(t, t[m].right)
            BY <3>2 DEF Sides
        <3>4. HigherOf(u, m) = HigherOf(t, m)
            BY <3>3 DEF HigherOf
        <3>5. QED
            BY <1>3, <3>1, <3>4 DEF Fields
    <2>2. QED
        BY <2>1 DEF Counted
<1>7. QED
    BY <1>4, <1>5, <1>6 DEF Tree

\* delete_ before it resets the node it takes out.
LEMMA DeletedLinks ==
    ASSUME NEW s, s = [root |-> s.root, node |-> s.node, begin |-> s.begin,
                       before_begin |-> s.before_begin, end |-> s.end],
           NEW S, NEW pos, Whole(s, S, pos), NEW n \in S, S # {n}
    PROVE  LET r == IF s.node[n].left = Null THEN DeleteWithoutLeft(s, n)
                                             ELSE DeleteWithLeft(s, n)
           IN  /\ r = [root |-> r.root, node |-> r.node, begin |-> s.begin,
                       before_begin |-> s.before_begin, end |-> s.end]
               /\ IsWithout(s.node, r.node, S, r.root, pos, n)
<1> DEFINE t == s.node
           root == s.root
           Made(x, v) == [root |-> x, node |-> v, begin |-> s.begin,
                          before_begin |-> s.before_begin, end |-> s.end]
<1>1. PICK edge : Tree(t, S, root, pos, edge, {})
    BY DEF Whole
<1>2. IsFiniteSet(DOMAIN t)
    BY DEF Whole
<1>3. ASSUME NEW x, NEW v PROVE [s EXCEPT !.root = x, !.node = v] = Made(x, v)
    <2> DEFINE a == s.root  b == s.node  c == s.begin  d == s.before_begin  e == s.end
               s2 == [s EXCEPT !.root = x]
    <2>1. s = [root |-> a, node |-> b, begin |-> c, before_begin |-> d, end |-> e]
        OBVIOUS
    <2>2. [s EXCEPT !.root = x, !.node = v] = [s2 EXCEPT !.node = v]
        OBVIOUS
    <2> HIDE DEF a, b, c, d, e
    <2>3. s2 = [root |-> x, node |-> b, begin |-> c, before_begin |-> d, end |-> e]
        BY <2>1
    <2> HIDE DEF s2
    <2>4. [s2 EXCEPT !.node = v]
            = [root |-> x, node |-> v, begin |-> c, before_begin |-> d, end |-> e]
        BY <2>3
    <2>5. QED
        BY <2>2, <2>4 DEF c, d, e
<1>4. CASE t[n].left = Null
    <2> DEFINE c == t[n].right
               up == t[n].parent
               u == replace_node(t, n, c)
               top == restore_height_size_and_balance_of_tree(u, up)
               r == DeleteWithoutLeft(s, n)
    <2>1. IF up = Null THEN IsWithout(t, u, S, c, pos, n)
          ELSE IsWithout(t, top.tree, S, top.node, pos, n)
        <3> HIDE DEF t, root
        <3>1. QED
            BY <1>1, <1>2, <1>4, DeletedWithoutLeft
    <2>2. r = IF up = Null THEN [s EXCEPT !.root = c, !.node = u] ELSE Restored(s, top)
        BY DEF DeleteWithoutLeft
    <2> HIDE DEF u, top, r, c, up
    <2>3. [s EXCEPT !.root = c, !.node = u] = Made(c, u)
        BY <1>3
    <2>4. Restored(s, top) = Made(top.node, top.tree)
        BY <1>3 DEF Restored
    <2>5. r = IF up = Null THEN Made(c, u) ELSE Made(top.node, top.tree)
        BY <2>2, <2>3, <2>4
    <2>6. r = Made(r.root, r.node) /\ IsWithout(t, r.node, S, r.root, pos, n)
        BY <2>1, <2>5
    <2>7. QED
        BY <1>4, <2>6 DEF r
<1>5. CASE t[n].left # Null
    <2> DEFINE m == find_outmost(t, t[n].left, "right")
               old_parent == t[m].parent
               t1 == replace_node(t, m, t[m].left)
               u == TakesChildren(replace_node(t1, n, m), n, m)
               top == restore_height_size_and_balance_of_tree(u, InPlace(n, m, old_parent))
               r == DeleteWithLeft(s, n)
    <2>1. IsWithout(t, top.tree, S, top.node, pos, n)
        <3> HIDE DEF t, root
        <3>1. QED
            BY <1>1, <1>2, <1>5, DeletedWithLeft
    <2>2. r = Restored(s, top)
        BY DEF DeleteWithLeft, TakesChildren, InPlace
    <2> HIDE DEF top, r
    <2>3. r = Made(top.node, top.tree)
        BY <1>3, <2>2 DEF Restored
    <2>4. r = Made(r.root, r.node) /\ IsWithout(t, r.node, S, r.root, pos, n)
        BY <2>1, <2>3
    <2>5. QED
        BY <1>5, <2>4 DEF r
<1>6. QED
    BY <1>4, <1>5

\* delete_and_get_next takes one element out: the others keep their order, those
\* behind it move down by one, the tree is whole again, whichever node takes the
\* place of the one that goes, other lists are untouched, and the element returned,
\* which also becomes the first one if that goes, is the one that followed.
THEOREM DeleteRemoves ==
    ASSUME NEW s, s = [root |-> s.root, node |-> s.node, begin |-> s.begin,
                       before_begin |-> s.before_begin, end |-> s.end],
           NEW S, NEW pos, Whole(s, S, pos), NEW n \in S, S # {n}
    PROVE  LET d == delete_and_get_next(s, n)
               r == d.stump
           IN  /\ Whole(r, S \ {n}, RemovedPos(S, pos, n, pos[n]))
               /\ SameElsewhere(s.node, r.node, S) /\ r.node[n] = FreshNode
               /\ \A m \in S : pos[m] = pos[n] + 1 => d.next = m
               /\ r = [root |-> r.root, node |-> r.node,
                       begin |-> IF s.begin = n THEN d.next ELSE s.begin,
                       before_begin |-> s.before_begin, end |-> s.end]
<1> DEFINE t == s.node
           root == s.root
           d == delete_and_get_next(s, n)
           next == forward(t, n)
           s0 == IF t[n].left = Null THEN DeleteWithoutLeft(s, n) ELSE DeleteWithLeft(s, n)
           s1 == delete_(s, n)
           first == IF s.begin = n THEN next ELSE s.begin
           v == [s0.node EXCEPT ![n] = FreshNode]
           r == d.stump
           q == RemovedPos(S, pos, n, pos[n])
<1>1. PICK edge : Tree(t, S, root, pos, edge, {})
    BY DEF Whole
<1>2. IsFiniteSet(DOMAIN t) /\ S \subseteq DOMAIN t
    BY <1>1 DEF Whole, Tree, Linked
<1>3. /\ s0 = [root |-> s0.root, node |-> s0.node, begin |-> s.begin,
               before_begin |-> s.before_begin, end |-> s.end]
      /\ IsWithout(t, s0.node, S, s0.root, pos, n)
    BY DeletedLinks
<1>4. s1 = [s0 EXCEPT !.node[n] = FreshNode]
    BY DEF delete_
<1>5. d = [stump |-> [s1 EXCEPT !.begin = first], next |-> next]
    BY DEF delete_and_get_next
<1> HIDE DEF s0, s1, d, next
<1>6. s1 = [root |-> s0.root, node |-> v, begin |-> s.begin,
            before_begin |-> s.before_begin, end |-> s.end]
    BY <1>3, <1>4
<1> HIDE DEF v
<1>7. /\ d.next = next
      /\ r = [root |-> s0.root, node |-> v, begin |-> first,
              before_begin |-> s.before_begin, end |-> s.end]
    BY <1>5, <1>6
<1>8. PICK edge2 : Tree(s0.node, S \ {n}, s0.root, q, edge2, {})
    BY <1>3 DEF IsWithout
<1>9. SameElsewhere(t, s0.node, S) /\ IsTree(s0.node) /\ n \in DOMAIN s0.node
    BY <1>2, <1>3, <1>8 DEF IsWithout, Tree, Linked, SameElsewhere
<1>10. SameElsewhere(s0.node, v, {n}) /\ IsTree(v) /\ v[n] = FreshNode
    BY <1>9, NodeReset DEF v
<1> HIDE DEF q
<1>11. Tree(v, S \ {n}, s0.root, q, edge2, {})
    BY <1>8, <1>10, TreeStays
<1>12. SameElsewhere(t, v, S) /\ IsFiniteSet(DOMAIN v)
    BY <1>2, <1>9, <1>10 DEF SameElsewhere, Fields
<1>13. ASSUME NEW m \in S, pos[m] = pos[n] + 1 PROVE next = m
    <2>1. "right" \in Sides /\ Toward("right") = 1
        BY DEF Sides, Toward
    <2>2. next = step(t, n, "right")
        BY DEF next, forward
    <2>3. pos[n] + 1 # edge[root]["right"]
        <3>1. pos[m] < edge[root]["right"] /\ pos[m] \in Int /\ edge[root]["right"] \in Int
            <4>1. root \in S
                BY <1>1 DEF Tree, Linked
            <4>2. QED
                BY <1>1, <1>2, <4>1, RootSpans, PathSizes
        <3>2. QED
            BY <1>13, <3>1
    <2>4. IF pos[n] + Toward("right") = edge[root]["right"] THEN step(t, n, "right") = Null
          ELSE step(t, n, "right") \in S /\ pos[step(t, n, "right")] = pos[n] + Toward("right")
        <3> HIDE DEF t, root
        <3>1. QED
            BY <1>1, <1>2, <2>1, StepMoves
    <2>5. next \in S /\ pos[next] = pos[m]
        BY <1>13, <2>1, <2>2, <2>3, <2>4
    <2> HIDE DEF t, root
    <2>6. QED
        BY <1>1, <1>2, <2>5, PositionsDiffer
<1> HIDE DEF r
<1>14. r.root = s0.root /\ r.node = v
       /\ r = [root |-> r.root, node |-> r.node, begin |-> first,
               before_begin |-> s.before_begin, end |-> s.end]
    BY <1>7
<1>15. Whole(r, S \ {n}, q)
    BY <1>11, <1>12, <1>14 DEF Whole
<1>16. \A m \in S : pos[m] = pos[n] + 1 => d.next = m
    BY <1>7, <1>13
<1>17. r.node[n] = FreshNode /\ SameElsewhere(t, r.node, S)
    BY <1>10, <1>12, <1>14
<1>18. QED
    BY <1>7, <1>14, <1>15, <1>16, <1>17 DEF r, q, d

-----------------------------------------------------------------------------
(* Moving by several elements                                                *)

\* The walk of a short move, which makes no more than two steps.
LEMMA WalkIs ==
    ASSUME NEW t, NEW n, NEW side, NEW times \in 0 .. 2
    PROVE  applyNTimes(t, n, side, times) =
             IF times = 0 THEN n
             ELSE IF times = 1 THEN step(t, n, side)
             ELSE step(t, step(t, n, side), side)
<1> DEFINE one == step(t, n, side)
           two == step(t, one, side)
           Way(g) == g = [k \in 0 .. times |-> IF k = 0 THEN n ELSE step(t, g[k - 1], side)]
           h == [k \in 0 .. times |-> IF k = 0 THEN n ELSE IF k = 1 THEN one ELSE two]
           at == CHOOSE g : Way(g)
<1>1. Way(h)
    <2>1. ASSUME NEW k \in 0 .. times
          PROVE  h[k] = IF k = 0 THEN n ELSE step(t, h[k - 1], side)
        <3>1. k = 0 \/ (k = 1 /\ k - 1 = 0) \/ (k = 2 /\ k - 1 = 1)
            OBVIOUS
        <3>2. 0 \in 0 .. times /\ (k = 2 => 1 \in 0 .. times)
            OBVIOUS
        <3>3. h[0] = n /\ (k = 2 => h[1] = one)
            BY <3>2
        <3>4. CASE k = 0
            BY <3>3, <3>4
        <3>5. CASE k = 1 /\ k - 1 = 0
            BY <3>3, <3>5
        <3>6. CASE k = 2 /\ k - 1 = 1
            BY <3>3, <3>6
        <3>7. QED
            BY <3>1, <3>4, <3>5, <3>6
    <2>2. QED
        BY <2>1
<1>2. Way(at)
    BY <1>1
<1>3. applyNTimes(t, n, side, times) = at[times]
    BY DEF applyNTimes
<1> HIDE DEF at, h
<1>4. \A k \in 0 .. times : at[k] = IF k = 0 THEN n ELSE step(t, at[k - 1], side)
    BY <1>2
<1> HIDE DEF Way
<1>5. at[0] = n
    BY <1>4
<1>6. times >= 1 => at[1] = one
    <2>1. times >= 1 => 1 \in 0 .. times /\ 1 - 1 = 0 /\ 1 # 0
        OBVIOUS
    <2>2. QED
        BY <1>4, <1>5, <2>1
<1>7. times = 2 => at[2] = two
    <2>1. times = 2 => 2 \in 0 .. times /\ 2 - 1 = 1 /\ 2 # 0 /\ times >= 1
        OBVIOUS
    <2>2. QED
        BY <1>4, <1>6, <2>1
<1>8. times = 0 \/ times = 1 \/ times = 2
    OBVIOUS
<1>9. QED
    BY <1>3, <1>5, <1>6, <1>7, <1>8

\* go_to, which moves an iterator by any amount: from every element it leads to the
\* element that many positions further, whether it walks or goes through the index.
THEOREM GoToMoves ==
    ASSUME NEW t, IsFiniteSet(DOMAIN t), NEW S, NEW root, NEW pos, NEW edge,
           Tree(t, S, root, pos, edge, {}), NEW n \in S, NEW m \in S
    PROVE  go_to(t, root, n, pos[m] - pos[n]) = m
<1> DEFINE amount == pos[m] - pos[n]
           steps == IF amount >= 0 THEN amount ELSE -amount
           side == IF amount >= 0 THEN "right" ELSE "left"
           searched == getIndex(t, n) + amount
<1>1. pos[n] \in Int /\ pos[m] \in Int
    BY PathSizes
<1>2. amount \in Int /\ steps \in Nat /\ side \in Sides
    BY <1>1 DEF Sides
<1>3. go_to(t, root, n, amount) =
        IF steps <= 2 THEN applyNTimes(t, n, side, steps) ELSE getByIndex(t, root, searched)
    BY DEF go_to
<1>4. pos[m] = pos[n] + steps * Toward(side) /\ (steps = 0 => amount = 0)
    <2>1. CASE amount >= 0
        <3>1. Toward(side) = 1 /\ steps = amount
            BY <2>1 DEF Toward
        <3> HIDE DEF steps, side
        <3>2. steps * Toward(side) = amount
            BY <1>2, <3>1
        <3>3. QED
            BY <1>1, <1>2, <3>1, <3>2
    <2>2. CASE ~(amount >= 0)
        <3>1. Toward(side) = -1 /\ steps = -amount
            BY <2>2 DEF Toward
        <3> HIDE DEF steps, side
        <3>2. steps * Toward(side) = amount
            BY <1>2, <3>1
        <3>3. QED
            BY <1>1, <1>2, <3>1, <3>2
    <2>3. QED
        BY <2>1, <2>2
<1>5. Linked(t, S, root) /\ root \in S
    BY DEF Tree, Linked
<1>6. /\ edge[root]["left"] \in Int /\ edge[root]["right"] \in Int
      /\ edge[root]["left"] < pos[m] /\ pos[m] < edge[root]["right"]
      /\ edge[root]["left"] < pos[n] /\ pos[n] < edge[root]["right"]
    BY <1>5, RootSpans, PathSizes
<1> HIDE DEF steps, side, searched
\* A step from an element that is not the last one on its side.
<1>7. ASSUME NEW x \in S, pos[x] + Toward(side) # edge[root][side]
      PROVE  step(t, x, side) \in S /\ pos[step(t, x, side)] = pos[x] + Toward(side)
    BY <1>2, <1>7, StepMoves
<1>8. CASE steps <= 2
    <2>1. steps = 0 \/ steps = 1 \/ steps = 2
        BY <1>2, <1>8
    <2>2. (side = "left" /\ Toward(side) = -1) \/ (side = "right" /\ Toward(side) = 1)
        BY <1>2 DEF Sides, Toward
    <2>3. steps \in 0 .. 2
        BY <2>1
    <2>4. go_to(t, root, n, amount) =
            IF steps = 0 THEN n ELSE IF steps = 1 THEN step(t, n, side)
            ELSE step(t, step(t, n, side), side)
        BY <1>3, <1>8, <2>3, WalkIs
    <2>5. CASE steps = 0
        <3>1. pos[m] = pos[n]
            BY <1>1, <1>4, <2>5
        <3>2. m = n
            BY <3>1, PositionsDiffer
        <3>3. QED
            BY <2>4, <2>5, <3>2
    <2>6. CASE steps = 1
        <3>1. pos[m] = pos[n] + Toward(side)
            BY <1>4, <2>2, <2>6
        <3>2. pos[n] + Toward(side) # edge[root][side]
            BY <1>6, <2>2, <3>1
        <3> DEFINE x == step(t, n, side)
        <3>3. x \in S /\ pos[x] = pos[m]
            BY <1>7, <3>1, <3>2
        <3> HIDE DEF x
        <3>4. x = m
            BY <3>3, PositionsDiffer
        <3>5. QED
            BY <2>4, <2>6, <3>4 DEF x
    <2>7. CASE steps = 2
        <3>1. pos[m] = pos[n] + Toward(side) + Toward(side)
            BY <1>1, <1>4, <2>2, <2>7
        <3>2. pos[n] + Toward(side) # edge[root][side]
            BY <1>1, <1>6, <2>2, <3>1
        <3> DEFINE x == step(t, n, side)
                   y == step(t, x, side)
        <3>3. x \in S /\ pos[x] = pos[n] + Toward(side)
            BY <1>7, <3>2
        <3> HIDE DEF x
        <3>4. pos[x] + Toward(side) = pos[m] /\ pos[m] # edge[root][side]
            BY <1>1, <1>6, <2>2, <3>1, <3>3
        <3>5. y \in S /\ pos[y] = pos[m]
            BY <1>7, <3>3, <3>4
        <3> HIDE DEF y
        <3>6. y = m
            BY <3>5, PositionsDiffer
        <3>7. QED
            BY <2>4, <2>7, <3>6 DEF x, y
    <2>8. QED
        BY <2>1, <2>5, <2>6, <2>7
<1>9. CASE ~(steps <= 2)
    <2>1. getIndex(t, n) = pos[n] - edge[root]["left"] - 1
        BY IndexIsPosition
    <2>2. getIndex(t, m) = pos[m] - edge[root]["left"] - 1
        BY IndexIsPosition
    <2>3. searched = getIndex(t, m)
        BY <1>1, <1>6, <2>1, <2>2 DEF searched
    <2>4. getByIndex(t, root, getIndex(t, m)) = m
        BY ByIndexOfIndex
    <2>5. QED
        BY <1>3, <1>9, <2>3, <2>4
<1>10. QED
    BY <1>8, <1>9
=============================================================================
