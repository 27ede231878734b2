---------------------------- MODULE NaturalProofs -----------------------------
(***************************************************************************)
(* Induction over the natural numbers, for sets and functions in the place *)
(* of the operators that the theorems of the library take.                 *)
(***************************************************************************)
EXTENDS Integers, WellFoundedInduction, TLAPS

\* A set of natural numbers has a least element.
LEMMA Least ==
    ASSUME NEW T, T \subseteq Nat, T # {}
    PROVE  \E x \in T : \A y \in T : x <= y
<1> DEFINE R == OpToRel(<, Nat)
<1>1. IsWellFoundedOn(R, Nat)
    BY NatLessThanWellFounded
<1>2. \A x, y \in Nat : <<y, x>> \in R <=> y < x
    BY DEF OpToRel
<1> HIDE DEF R
<1>3. PICK x \in T : \A y \in T : ~(<<y, x>> \in R)
    BY <1>1, WFMin
<1>4. ASSUME NEW y \in T PROVE x <= y
    <2>1. x \in Nat /\ y \in Nat
        OBVIOUS
    <2>2. ~(<<y, x>> \in R)
        BY <1>3
    <2>3. ~(y < x)
        BY <1>2, <2>1, <2>2
    <2>4. QED
        BY <2>1, <2>3
<1>5. QED
    BY <1>4

\* Induction, for a set in the place of a predicate.
LEMMA SetInduction ==
    ASSUME NEW S, 0 \in S, \A n \in Nat : n \in S => n + 1 \in S
    PROVE  Nat \subseteq S
<1> DEFINE T == Nat \ S
<1> SUFFICES ASSUME T # {} PROVE FALSE
    OBVIOUS
<1>1. PICK x \in T : \A y \in T : x <= y
    BY Least
<1>2. x # 0 /\ x - 1 \in Nat /\ x - 1 \notin T
    BY <1>1
<1>3. QED
    BY <1>1, <1>2

\* What a function gives when it is applied again and again, up to n times.
IsIteration(g, F, x, n) ==
    g[0] = x /\ \A k \in 0 .. (n - 1) : g[k + 1] = F[g[k]]

LEMMA IterationsAgree ==
    ASSUME NEW F, NEW x, NEW g, NEW h, NEW m \in Nat, NEW n \in Nat, m <= n,
           IsIteration(g, F, x, m), IsIteration(h, F, x, n)
    PROVE  g[m] = h[m]
<1> DEFINE S == {k \in Nat : k <= m => g[k] = h[k]}
<1>1. 0 \in S
    BY DEF IsIteration
<1>2. ASSUME NEW k \in Nat, k \in S PROVE k + 1 \in S
    <2> SUFFICES ASSUME k + 1 <= m PROVE g[k + 1] = h[k + 1]
        OBVIOUS
    <2>1. k \in 0 .. (m - 1) /\ k \in 0 .. (n - 1) /\ k <= m
        OBVIOUS
    <2>2. g[k] = h[k]
        BY <1>2, <2>1
    <2>3. g[k + 1] = F[g[k]] /\ h[k + 1] = F[h[k]]
        BY <2>1 DEF IsIteration
    <2>4. QED
        BY <2>2, <2>3
<1> HIDE DEF S
<1>3. Nat \subseteq S
    BY <1>1, <1>2, SetInduction
<1>4. m \in S
    BY <1>3
<1>5. QED
    BY <1>4 DEF S

\* Applied for ever, without leaving the set X.
Iterates(f, X, F, x) ==
    f \in [Nat -> X] /\ f[0] = x /\ \A k \in Nat : f[k + 1] = F[f[k]]

LEMMA IterationExists ==
    ASSUME NEW X, NEW F \in [X -> X], NEW x \in X
    PROVE  \E f : Iterates(f, X, F, x)
<1> DEFINE P == {n \in Nat : \E g \in [0 .. n -> X] : IsIteration(g, F, x, n)}
           G(n) == CHOOSE g \in [0 .. n -> X] : IsIteration(g, F, x, n)
           f == [n \in Nat |-> G(n)[n]]
<1>1. 0 \in P
    <2> DEFINE g == [k \in 0 .. 0 |-> x]
    <2>1. g \in [0 .. 0 -> X] /\ IsIteration(g, F, x, 0)
        BY DEF IsIteration
    <2>2. QED
        BY <2>1
<1>2. ASSUME NEW n \in Nat, n \in P PROVE n + 1 \in P
    <2>1. PICK g \in [0 .. n -> X] : IsIteration(g, F, x, n)
        BY <1>2
    <2> DEFINE h == [k \in 0 .. n + 1 |-> IF k <= n THEN g[k] ELSE F[g[n]]]
    <2>2. g[n] \in X
        BY <2>1
    <2>3. h \in [0 .. n + 1 -> X]
        BY <2>1, <2>2
    <2>4. h[0] = x
        BY <2>1 DEF IsIteration
    <2>5. ASSUME NEW k \in 0 .. n PROVE h[k + 1] = F[h[k]]
        <3>1. h[k] = g[k] /\ k \in Nat
            OBVIOUS
        <3>2. CASE k = n
            BY <3>1, <3>2
        <3>3. CASE k # n
            <4>1. k \in 0 .. (n - 1) /\ k + 1 \in 0 .. n
                BY <3>3
            <4>2. g[k + 1] = F[g[k]]
                BY <2>1, <4>1 DEF IsIteration
            <4>3. h[k + 1] = g[k + 1]
                BY <4>1
            <4>4. QED
                BY <3>1, <4>2, <4>3
        <3>4. QED
            BY <3>2, <3>3
    <2> HIDE DEF h
    <2>6. IsIteration(h, F, x, n + 1)
        <3>1. (n + 1) - 1 = n
            OBVIOUS
        <3>2. QED
            BY <2>4, <2>5, <3>1 DEF IsIteration
    <2>7. QED
        BY <2>3, <2>6
<1>3. Nat \subseteq P
    <2> HIDE DEF P
    <2>1. QED
        BY <1>1, <1>2, SetInduction
<1>4. ASSUME NEW n \in Nat PROVE G(n) \in [0 .. n -> X] /\ IsIteration(G(n), F, x, n)
    <2>1. n \in P
        BY <1>3
    <2>2. QED
        BY <2>1
<1> HIDE DEF P, G
<1>5. f \in [Nat -> X]
    <2>1. ASSUME NEW n \in Nat PROVE G(n)[n] \in X
        <3>1. n \in 0 .. n
            OBVIOUS
        <3>2. QED
            BY <1>4, <3>1
    <2>2. QED
        BY <2>1
<1>6. f[0] = x
    <2>1. IsIteration(G(0), F, x, 0)
        BY <1>4
    <2>2. QED
        BY <2>1 DEF IsIteration
<1>7. ASSUME NEW k \in Nat PROVE f[k + 1] = F[f[k]]
    <2>1. k + 1 \in Nat /\ k <= k + 1 /\ k \in 0 .. ((k + 1) - 1)
        OBVIOUS
    <2>2. IsIteration(G(k), F, x, k) /\ IsIteration(G(k + 1), F, x, k + 1)
        BY <1>4, <2>1
    <2>3. G(k)[k] = G(k + 1)[k]
        BY <2>1, <2>2, IterationsAgree
    <2>4. G(k + 1)[k + 1] = F[G(k + 1)[k]]
        BY <2>1, <2>2 DEF IsIteration
    <2>5. f[k] = G(k)[k] /\ f[k + 1] = G(k + 1)[k + 1]
        BY <2>1
    <2>6. QED
        BY <2>3, <2>4, <2>5
<1>8. QED
    BY <1>5, <1>6, <1>7 DEF Iterates
=============================================================================
