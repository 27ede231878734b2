-------------------------- MODULE MemoryPoolProofs --------------------------
(***************************************************************************)
(* Theorems about the memory pools: whatever a client does, whatever the   *)
(* number of pools, their sizes, checks and alignment, and wherever the    *)
(* allocator puts their buffers.                                           *)
(***************************************************************************)
EXTENDS MemoryPool, NaturalProofs, FiniteSetTheorems

-----------------------------------------------------------------------------
(* Numbers.                                                                 *)

\* The larger of two numbers.
LEMMA MaxOfTwo ==
    ASSUME NEW a \in Int, NEW b \in Int
    PROVE  Max({a, b}) = IF a >= b THEN a ELSE b
BY DEF Max

-----------------------------------------------------------------------------
(* Alignment.                                                               *)

\* The alignment steps, and that a step divides a number.
Steps == {1, 2, 4, 8, 16}
Divides(d, n) == n % d = 0

\* The sum of two multiples of a number is one too.
LEMMA DividesSum ==
    ASSUME NEW d \in Steps, NEW a \in Int, NEW b \in Int, Divides(d, a), Divides(d, b)
    PROVE  Divides(d, a + b)
<1>1. CASE d = 1  BY <1>1 DEF Divides
<1>2. CASE d = 2  BY <1>2 DEF Divides
<1>3. CASE d = 4  BY <1>3 DEF Divides
<1>4. CASE d = 8  BY <1>4 DEF Divides
<1>5. CASE d = 16  BY <1>5 DEF Divides
<1>6. QED  BY <1>1, <1>2, <1>3, <1>4, <1>5 DEF Steps

\* A multiple of a multiple is a multiple.
LEMMA DividesProduct ==
    ASSUME NEW d \in Steps, NEW a \in Int, NEW i \in Int, Divides(d, a)
    PROVE  Divides(d, i * a)
<1>1. PICK k \in Int : a = d * k
    <2>1. CASE d = 1  BY <2>1 DEF Divides
    <2>2. CASE d = 2  BY <2>2 DEF Divides
    <2>3. CASE d = 4  BY <2>3 DEF Divides
    <2>4. CASE d = 8  BY <2>4 DEF Divides
    <2>5. CASE d = 16  BY <2>5 DEF Divides
    <2>6. QED  BY <2>1, <2>2, <2>3, <2>4, <2>5 DEF Steps
<1> DEFINE j == i * k
<1>2. j \in Int
    OBVIOUS
<1>3. i * a = d * j
    BY <1>1 DEF Steps
<1> HIDE DEF j
<1>4. Divides(d, d * j)
    <2>1. CASE d = 1  BY <1>2, <2>1 DEF Divides
    <2>2. CASE d = 2  BY <1>2, <2>2 DEF Divides
    <2>3. CASE d = 4  BY <1>2, <2>3 DEF Divides
    <2>4. CASE d = 8  BY <1>2, <2>4 DEF Divides
    <2>5. CASE d = 16  BY <1>2, <2>5 DEF Divides
    <2>6. QED  BY <2>1, <2>2, <2>3, <2>4, <2>5 DEF Steps
<1>5. QED
    BY <1>3, <1>4

\* A smaller step divides what a larger one does.
LEMMA DividesSmaller ==
    ASSUME NEW d \in Steps, NEW e \in Steps, d <= e, NEW a \in Int, Divides(e, a)
    PROVE  Divides(d, a)
<1>1. CASE e = 1  BY <1>1 DEF Divides, Steps
<1>2. CASE e = 2  BY <1>2 DEF Divides, Steps
<1>3. CASE e = 4  BY <1>3 DEF Divides, Steps
<1>4. CASE e = 8  BY <1>4 DEF Divides, Steps
<1>5. CASE e = 16  BY <1>5 DEF Divides, Steps
<1>6. QED  BY <1>1, <1>2, <1>3, <1>4, <1>5 DEF Steps

\* RoundUp returns the next multiple, and leaves a multiple alone.
LEMMA RoundUpResult ==
    ASSUME NEW d \in Steps, NEW n \in Int
    PROVE  /\ RoundUp(n, d) \in n..(n + d - 1)
           /\ Divides(d, RoundUp(n, d))
           /\ Divides(d, n) => RoundUp(n, d) = n
<1>1. CASE d = 1  BY <1>1 DEF Divides, RoundUp
<1>2. CASE d = 2  BY <1>2 DEF Divides, RoundUp
<1>3. CASE d = 4  BY <1>3 DEF Divides, RoundUp
<1>4. CASE d = 8  BY <1>4 DEF Divides, RoundUp
<1>5. CASE d = 16  BY <1>5 DEF Divides, RoundUp
<1>6. QED  BY <1>1, <1>2, <1>3, <1>4, <1>5 DEF Steps

\* RoundUpPowerOfTwo returns the least power of two that is no less.
LEMMA RoundUpPowerOfTwoResult ==
    ASSUME NEW v \in 1..MaxSize
    PROVE  /\ RoundUpPowerOfTwo(v) \in PowersOfTwo
           /\ RoundUpPowerOfTwo(v) >= v
           /\ \A q \in PowersOfTwo : q >= v => RoundUpPowerOfTwo(v) <= q
<1> DEFINE T == {p \in PowersOfTwo : p >= v}
<1>1. T \subseteq Nat /\ T # {}
    BY DEF PowersOfTwo, MaxSize
<1>2. \E p \in T : \A q \in T : p <= q
    BY <1>1, Least
<1>3. \E p \in PowersOfTwo : p >= v /\ \A q \in PowersOfTwo : q >= v => p <= q
    BY <1>2
<1>4. QED
    BY <1>3 DEF RoundUpPowerOfTwo

\* The step that suits a size is one of the steps, no larger than the strategy
\* allows, and grows with the size.
LEMMA AlignmentStepResult ==
    ASSUME NEW max \in Steps, NEW size \in 1..MaxSize
    PROVE  /\ getAlignmentStep(max, size) \in Steps
           /\ getAlignmentStep(max, size) <= max
           /\ size >= max => getAlignmentStep(max, size) = max
<1> DEFINE p == RoundUpPowerOfTwo(size)
<1>1. p \in PowersOfTwo /\ p >= size
    BY RoundUpPowerOfTwoResult
<1>2. getAlignmentStep(max, size) = IF p < max THEN p ELSE max
    BY DEF getAlignmentStep
<1> HIDE DEF p
<1>3. p < max => p \in Steps
    BY <1>1 DEF PowersOfTwo, Steps
<1>4. QED
    BY <1>1, <1>2, <1>3 DEF PowersOfTwo, Steps, MaxSize

\* A larger size has no smaller alignment step.
LEMMA AlignmentStepGrows ==
    ASSUME NEW max \in Steps, NEW size \in 1..MaxSize, NEW larger \in 1..MaxSize,
           size <= larger
    PROVE  getAlignmentStep(max, size) <= getAlignmentStep(max, larger)
<1> DEFINE p == RoundUpPowerOfTwo(size)
           q == RoundUpPowerOfTwo(larger)
<1>1. /\ p \in PowersOfTwo
      /\ \A x \in PowersOfTwo : x >= size => p <= x
      /\ q \in PowersOfTwo /\ q >= larger
    BY RoundUpPowerOfTwoResult
<1>2. /\ getAlignmentStep(max, size) = IF p < max THEN p ELSE max
      /\ getAlignmentStep(max, larger) = IF q < max THEN q ELSE max
    BY DEF getAlignmentStep
<1> HIDE DEF p, q
<1>3. PowersOfTwo \subseteq Nat /\ Steps \subseteq Nat
    BY DEF PowersOfTwo, Steps
<1>4. q >= size
    BY <1>1, <1>3 DEF MaxSize
<1>5. p <= q
    BY <1>1, <1>4
<1>6. QED
    BY <1>1, <1>2, <1>3, <1>5

\* alignSize returns the next size that is aligned for itself.
LEMMA AlignSizeResult ==
    ASSUME NEW max \in Steps, NEW size \in 1..(MaxSize - 16)
    PROVE  /\ alignSize(max, size) \in size..(size + 15)
           /\ alignSize(max, size) \in 1..MaxSize
           /\ Divides(getAlignmentStep(max, alignSize(max, size)), alignSize(max, size))
<1> DEFINE r == alignSize(max, size)
<1>1. CASE size >= max
    <2>1. r = RoundUp(size, max)
        BY <1>1 DEF alignSize
    <2>2. r \in size..(size + max - 1) /\ Divides(max, r)
        BY <2>1, RoundUpResult
    <2> HIDE DEF r
    <2>3. r \in size..(size + 15) /\ r \in 1..MaxSize /\ r >= max
        BY <1>1, <2>2 DEF Steps, MaxSize
    <2>4. getAlignmentStep(max, r) = max
        BY <2>3, AlignmentStepResult
    <2>5. QED
        BY <2>2, <2>3, <2>4 DEF r
<1>2. CASE size < max
    <2>1. r = RoundUpPowerOfTwo(size)
        BY <1>2 DEF alignSize, Steps, MaxSize
    <2>2. size \in 1..MaxSize
        BY DEF MaxSize
    <2>3. /\ r \in PowersOfTwo /\ r >= size
          /\ \A q \in PowersOfTwo : q >= size => r <= q
        BY <2>1, <2>2, RoundUpPowerOfTwoResult
    <2> HIDE DEF r
    <2>4. max \in PowersOfTwo /\ max >= size
        BY <1>2 DEF Steps, PowersOfTwo, MaxSize
    <2>5. r <= max
        BY <2>3, <2>4
    <2>6. r \in Steps
        BY <2>3, <2>5 DEF Steps, PowersOfTwo
    <2>7. r \in 1..MaxSize /\ r \in size..(size + 15)
        BY <2>3, <2>6 DEF Steps, MaxSize
    <2>8. RoundUpPowerOfTwo(r) = r
        <3>1. /\ RoundUpPowerOfTwo(r) \in PowersOfTwo /\ RoundUpPowerOfTwo(r) >= r
              /\ RoundUpPowerOfTwo(r) <= r
            BY <2>3, <2>7, RoundUpPowerOfTwoResult DEF PowersOfTwo
        <3>2. QED
            BY <3>1, <2>3 DEF PowersOfTwo
    <2>9. getAlignmentStep(max, r) = r
        BY <2>5, <2>6, <2>8 DEF getAlignmentStep, Steps
    <2>10. Divides(r, r)
        BY <2>6 DEF Steps, Divides
    <2>11. QED
        BY <2>7, <2>9, <2>10 DEF r
<1>3. QED
    BY <1>1, <1>2 DEF Steps, MaxSize

-----------------------------------------------------------------------------
(* The layout of an item.                                                   *)

\* What the constructors establish.  The parts of a free and of an allocated item
\* fit the item and its end voids the rest; the value has the alignment of its
\* size in an item that has the alignment of its own.
Layout(c) ==
    LET free == c.free
        map == c.allocated
        step == getAlignmentStep(c.step, c.itemSize)
    IN  /\ c.step \in Steps
        /\ c.size \in 1..MaxItem
        /\ c.itemSize \in 1..MaxSize
        /\ c.first = FirstItems(c.itemSize)
        /\ NextItemOffset(c) + PointerSize <= c.itemSize
        /\ free.endVoidsSize = c.itemSize - (NextItemOffset(c) + PointerSize)
        /\ map.itemValueDiff \in Nat
        /\ Checked(c) <=> map.itemValueDiff > 0
        /\ map.itemSizeWithoutEndVoids = map.itemValueDiff + c.size
        /\ map.endVoidsSize \in Nat
        /\ map.itemValueDiff + c.size + map.endVoidsSize <= c.itemSize
        /\ Divides(step, c.itemSize)
        /\ Divides(getAlignmentStep(c.step, c.size), map.itemValueDiff)

\* The constructors establish it for every size, check and alignment.
LEMMA ConstructedLayout ==
    ASSUME NEW c \in Cases
    PROVE  Layout(Constructed(c))
<1> DEFINE free == TFreeItemMap(c).alignedItemSize
           alloc == TAllocatedItemMap(c)
           diff == alloc.itemValueDiff
           aligned == alloc.alignedItemSize
           real == Max({free, aligned})
           r == Constructed(c)
<1>1. c.step \in Steps /\ c.size \in 1..MaxItem
    BY PoolAssumption DEF Steps
<1>2. c.size \in 1..MaxSize
    BY <1>1 DEF MaxItem, MaxSize
<1>3. /\ diff \in 0..16
      /\ Checked(c) <=> diff > 0
      /\ Divides(getAlignmentStep(c.step, c.size), diff)
    <2> DEFINE s == getAlignmentStep(c.step, c.size)
    <2>1. s \in Steps
        BY <1>1, <1>2, AlignmentStepResult
    <2>2. diff = IF Checked(c) THEN RoundUp(1, s) ELSE 0
        BY DEF TAllocatedItemMap, alignAddressFor
    <2> HIDE DEF s, diff
    <2>3. RoundUp(1, s) \in 1..16 /\ Divides(s, RoundUp(1, s))
        <3>1. RoundUp(1, s) \in 1..(1 + s - 1) /\ Divides(s, RoundUp(1, s))
            BY <2>1, RoundUpResult
        <3>2. QED
            BY <2>1, <3>1 DEF Steps
    <2>4. Divides(s, 0)
        BY <2>1 DEF Steps, Divides
    <2>5. QED
        BY <2>2, <2>3, <2>4 DEF s
<1>4. /\ alloc.itemSizeWithoutEndVoids = diff + c.size
      /\ aligned = alignSize(c.step, diff + c.size)
      /\ alloc.endVoidsSize = aligned - (diff + c.size)
    BY DEF TAllocatedItemMap
<1>5. alloc = [itemValueDiff |-> diff, itemSizeWithoutEndVoids |-> alloc.itemSizeWithoutEndVoids,
               alignedItemSize |-> aligned, endVoidsSize |-> alloc.endVoidsSize]
    BY DEF TAllocatedItemMap
<1>6. free = NextItemOffset(c) + PointerSize /\ free \in {4, 8}
    BY DEF TFreeItemMap, NextItemOffset, PointerSize
<1>7. /\ r.step = c.step /\ r.size = c.size /\ r.check = c.check
      /\ r.itemSize = real /\ r.first = FirstItems(real)
      /\ r.free = FreeEndConstruct(TFreeItemMap(c), c, real)
      /\ r.allocated = AllocatedEndConstruct(alloc, real)
    BY Zenon DEF Constructed
<1>8. NextItemOffset(r) = NextItemOffset(c) /\ Checked(r) = Checked(c)
    BY <1>7 DEF NextItemOffset, Checked
<1>9. r.free.endVoidsSize = real - (NextItemOffset(c) + PointerSize)
    BY <1>7 DEF FreeEndConstruct, TFreeItemMap
<1> DEFINE noVoids == alloc.itemSizeWithoutEndVoids
           endVoids == alloc.endVoidsSize
<1> HIDE DEF diff, aligned, free, alloc, r, noVoids, endVoids
<1>10. diff + c.size \in 1..(MaxSize - 16)
    <2> DEFINE n == c.size
    <2>1. diff \in 0..16 /\ n \in 1..512
        BY <1>1, <1>3 DEF MaxItem
    <2> HIDE DEF n
    <2>2. diff + n \in 1..1008
        BY <2>1
    <2>3. QED
        BY <2>2 DEF MaxSize, n
<1>11. /\ aligned \in (diff + c.size)..(diff + c.size + 15)
       /\ aligned \in 1..MaxSize
       /\ Divides(getAlignmentStep(c.step, aligned), aligned)
    BY <1>1, <1>4, <1>10, AlignSizeResult
<1>12. real = IF free >= aligned THEN free ELSE aligned
    BY <1>6, <1>11, MaxOfTwo DEF MaxSize
<1> HIDE DEF real
<1>13. real \in 1..MaxSize /\ real >= free /\ real >= aligned
    BY <1>6, <1>11, <1>12 DEF MaxSize
<1>14. /\ r.allocated.itemValueDiff = diff
       /\ r.allocated.itemSizeWithoutEndVoids = diff + c.size
       /\ r.allocated.endVoidsSize = aligned - (diff + c.size)
    <2>1. ~(real > real)
        BY <1>13 DEF MaxSize
    <2>2. r.allocated = [itemValueDiff |-> diff, itemSizeWithoutEndVoids |-> noVoids,
                         alignedItemSize |-> real, endVoidsSize |-> endVoids]
        BY <1>5, <1>7, <2>1 DEF AllocatedEndConstruct, noVoids, endVoids
    <2>3. QED
        BY <1>4, <2>2 DEF noVoids, endVoids
<1>15. Divides(getAlignmentStep(c.step, real), real)
    <2>1. CASE real = aligned
        BY <1>11, <2>1
    <2>2. CASE real = free
        <3> DEFINE s == getAlignmentStep(c.step, real)
        <3>1. s \in Steps
            BY <1>1, <1>13, AlignmentStepResult
        <3>2. real \in PowersOfTwo
            BY <1>6, <2>2 DEF PowersOfTwo
        <3>3. RoundUpPowerOfTwo(real) \in Nat /\ RoundUpPowerOfTwo(real) <= real
            BY <1>13, <3>2, RoundUpPowerOfTwoResult DEF PowersOfTwo
        <3>4. s <= real
            BY <1>1, <1>13, <3>3 DEF getAlignmentStep, Steps, MaxSize
        <3> HIDE DEF s
        <3>5. Divides(s, real)
            BY <1>6, <2>2, <3>1, <3>4 DEF Steps, Divides
        <3>6. QED
            BY <3>5 DEF s
    <2>3. QED
        BY <1>12, <2>1, <2>2
<1>16. /\ NextItemOffset(c) + PointerSize <= real
       /\ aligned - (diff + c.size) \in Nat
       /\ diff + c.size + (aligned - (diff + c.size)) <= real
       /\ diff \in Nat
    <2>1. ASSUME NEW d \in Int, NEW n \in Int, NEW a \in Int, NEW m \in Int,
                 a >= d + n, m >= a
          PROVE  a - (d + n) \in Nat /\ d + n + (a - (d + n)) <= m
        BY <2>1
    <2>2. NextItemOffset(c) + PointerSize <= real
        BY <1>6, <1>13
    <2>3. /\ diff \in Nat /\ c.size \in Int /\ real \in Int /\ real >= aligned
          /\ aligned \in Int /\ aligned >= diff + c.size
        BY <1>1, <1>3, <1>11, <1>13 DEF MaxItem, MaxSize
    <2>4. QED
        BY <2>1, <2>2, <2>3
<1>17. Layout(r)
    BY <1>1, <1>3, <1>7, <1>8, <1>9, <1>13, <1>14, <1>15, <1>16 DEF Layout
<1>18. QED
    BY <1>17 DEF r

-----------------------------------------------------------------------------
(* Where the items are.                                                     *)

BasesOf(c) == UNION {ItemBases(c, p) : p \in Pool}
Memory(c) == UNION {Surroundings(c, p) : p \in Pool}

\* Consecutive items of a buffer are a whole item apart.
LEMMA ProductInOrder ==
    ASSUME NEW i \in Nat, NEW j \in Nat, i < j, NEW n \in Nat
    PROVE  i * n \in Nat /\ j * n \in Nat /\ i * n + n <= j * n
<1> DEFINE d == j - i - 1
<1>1. d \in Nat
    OBVIOUS
<1>2. j * n = i * n + n + d * n
    OBVIOUS
<1> HIDE DEF d
<1>3. d * n \in Nat /\ i * n \in Nat
    BY <1>1
<1>4. QED
    BY <1>2, <1>3

\* Each buffer is where the allocator put it.
LEMMA Placement ==
    ASSUME NEW c, Layout(c)
    PROVE  /\ c.itemSize \in Nat \ {0}
           /\ \A p \in Pool : /\ Amounts[p] \in Nat \ {0}
                              /\ c.first[p] \in Nat \ {0}
                              /\ Divides(16, c.first[p])
           /\ \A p, q \in Pool : p # q =>
                \/ c.first[p] + Amounts[p] * c.itemSize <= c.first[q]
                \/ c.first[q] + Amounts[q] * c.itemSize <= c.first[p]
<1>1. c.itemSize \in 1..MaxSize /\ c.first = FirstItems(c.itemSize)
    BY DEF Layout
<1>2. \A p \in Pool : Amounts[p] \in Nat \ {0}
    BY PoolAssumption DEF Pool
<1>3. c.itemSize \in Nat \ {0}
    <2> DEFINE n == c.itemSize
    <2>1. n \in 1..1024
        BY <1>1 DEF MaxSize
    <2> HIDE DEF n
    <2>2. n \in Nat \ {0}
        BY <2>1
    <2>3. QED
        BY <2>2 DEF n
<1>4. QED
    BY <1>1, <1>2, <1>3, PlacementAssumption DEF PoolBufferSize, Divides, Gap

\* The i-th item of a buffer lies inside the buffer.
LEMMA ItemInBuffer ==
    ASSUME NEW c, Layout(c), NEW p \in Pool, NEW i \in 0..(Amounts[p] - 1)
    PROVE  /\ c.first[p] + i * c.itemSize \in Nat
           /\ c.first[p] <= c.first[p] + i * c.itemSize
           /\ c.first[p] + i * c.itemSize + c.itemSize
                <= c.first[p] + Amounts[p] * c.itemSize
<1> DEFINE n == c.itemSize
           f == c.first[p]
           k == Amounts[p]
<1>1. n \in Nat /\ f \in Nat /\ k \in Nat \ {0}
    BY Placement
<1> HIDE DEF n, f, k
<1>2. i \in Nat /\ i < k
    BY <1>1 DEF k
<1> DEFINE x == i * n
           y == k * n
<1>3. x \in Nat /\ y \in Nat /\ x + n <= y
    BY <1>1, <1>2, ProductInOrder
<1> HIDE DEF x, y
<1>4. f + x \in Nat /\ f <= f + x /\ f + x + n <= f + y
    BY <1>1, <1>3
<1>5. QED
    BY <1>4 DEF x, y, n, f, k

\* What an item's address is.
LEMMA ItemAddress ==
    ASSUME NEW c, NEW b \in BasesOf(c)
    PROVE  \E p \in Pool : \E i \in 0..(Amounts[p] - 1) : b = c.first[p] + i * c.itemSize
BY DEF BasesOf, ItemBases

\* An item is at a positive address: none is at NULL.
LEMMA BaseType ==
    ASSUME NEW c, Layout(c), NEW b \in BasesOf(c)
    PROVE  b \in Nat \ {0}
<1>1. PICK p \in Pool : \E i \in 0..(Amounts[p] - 1) : b = c.first[p] + i * c.itemSize
    BY ItemAddress
<1>2. b \in Nat /\ c.first[p] <= b
    BY <1>1, ItemInBuffer
<1>3. c.first[p] \in Nat \ {0}
    BY Placement
<1>4. QED
    BY <1>2, <1>3

\* Two items do not overlap, whichever buffers they are in.
LEMMA BasesApart ==
    ASSUME NEW c, Layout(c), NEW a \in BasesOf(c), NEW b \in BasesOf(c), a # b
    PROVE  a + c.itemSize <= b \/ b + c.itemSize <= a
<1> DEFINE n == c.itemSize
<1>1. PICK p \in Pool : \E i \in 0..(Amounts[p] - 1) : a = c.first[p] + i * n
    BY ItemAddress
<1>2. PICK q \in Pool : \E i \in 0..(Amounts[q] - 1) : b = c.first[q] + i * n
    BY ItemAddress
<1>3. /\ n \in Nat /\ c.first[p] \in Nat /\ c.first[q] \in Nat
      /\ Amounts[p] \in Nat /\ Amounts[q] \in Nat
    BY Placement
<1>4. CASE p # q
    <2> DEFINE f == c.first[p]
               g == c.first[q]
               x == f + Amounts[p] * n
               y == g + Amounts[q] * n
    <2>1. a \in Nat /\ f <= a /\ a + n <= x
        BY <1>1, ItemInBuffer
    <2>2. b \in Nat /\ g <= b /\ b + n <= y
        BY <1>2, ItemInBuffer
    <2>3. x <= g \/ y <= f
        BY <1>4, Placement
    <2>4. x \in Int /\ y \in Int
        BY <1>3
    <2> HIDE DEF n, f, g, x, y
    <2>5. a + n <= b \/ b + n <= a
        BY <1>3, <2>1, <2>2, <2>3, <2>4 DEF f, g
    <2>6. QED
        BY <2>5 DEF n
<1>5. CASE p = q
    <2> DEFINE f == c.first[p]
    <2>1. PICK i \in 0..(Amounts[p] - 1) : a = f + i * n
        BY <1>1
    <2>2. PICK j \in 0..(Amounts[p] - 1) : b = f + j * n
        BY <1>2, <1>5
    <2>3. i \in Nat /\ j \in Nat /\ f \in Nat /\ n \in Nat
        BY <1>3
    <2> HIDE DEF n, f
    <2>4. CASE i < j
        <3> DEFINE x == i * n
                   y == j * n
        <3>1. x \in Nat /\ y \in Nat /\ x + n <= y
            BY <2>3, <2>4, ProductInOrder
        <3> HIDE DEF x, y
        <3>2. f + x + n <= f + y
            BY <2>3, <3>1
        <3>3. QED
            BY <2>1, <2>2, <3>2 DEF x, y, n
    <2>5. CASE j < i
        <3> DEFINE x == i * n
                   y == j * n
        <3>1. x \in Nat /\ y \in Nat /\ y + n <= x
            BY <2>3, <2>5, ProductInOrder
        <3> HIDE DEF x, y
        <3>2. f + y + n <= f + x
            BY <2>3, <3>1
        <3>3. QED
            BY <2>1, <2>2, <3>2 DEF x, y, n
    <2>6. i # j
        BY <2>1, <2>2
    <2>7. QED
        BY <2>3, <2>4, <2>5, <2>6
<1>6. QED
    BY <1>4, <1>5

\* Every byte of an item is one of the memory's.
LEMMA BaseInMemory ==
    ASSUME NEW c, Layout(c), NEW b \in BasesOf(c), NEW a \in b..(b + c.itemSize - 1)
    PROVE  a \in Memory(c)
<1> DEFINE n == c.itemSize
<1>1. PICK p \in Pool : \E i \in 0..(Amounts[p] - 1) : b = c.first[p] + i * n
    BY ItemAddress
<1> DEFINE f == c.first[p]
           x == Amounts[p] * n
<1>2. n \in Nat /\ f \in Nat /\ x \in Int
    BY Placement
<1>3. b \in Nat /\ f <= b /\ b + n <= f + x
    BY <1>1, ItemInBuffer
<1>4. a \in b..(b + n - 1)
    OBVIOUS
<1> HIDE DEF n, f, x
<1>5. a \in (f - Gap)..(f + x + Gap)
    BY <1>2, <1>3, <1>4 DEF Gap
<1>6. a \in Surroundings(c, p)
    BY <1>5 DEF Surroundings, PoolBufferSize, n, f, x
<1>7. QED
    BY <1>6 DEF Memory

\* An item, and the value in it, are aligned as their sizes ask for.
LEMMA BaseAligned ==
    ASSUME NEW c, Layout(c), NEW b \in BasesOf(c)
    PROVE  /\ isAlignedAddressFor(c.step, b, c.itemSize)
           /\ isAlignedAddressFor(c.step, b + c.allocated.itemValueDiff, c.size)
<1> DEFINE n == c.itemSize
           diff == c.allocated.itemValueDiff
           s == getAlignmentStep(c.step, n)
           t == getAlignmentStep(c.step, c.size)
<1>1. PICK p \in Pool : \E i \in 0..(Amounts[p] - 1) : b = c.first[p] + i * n
    BY ItemAddress
<1>2. PICK i \in 0..(Amounts[p] - 1) : b = c.first[p] + i * n
    BY <1>1
<1> DEFINE f == c.first[p]
<1>3. f \in Nat /\ Amounts[p] \in Nat /\ n \in Nat /\ Divides(16, f)
    BY Placement
<1>4. /\ c.step \in Steps /\ n \in 1..MaxSize /\ c.size \in 1..MaxItem
      /\ diff \in Nat /\ diff + c.size + c.allocated.endVoidsSize <= n
      /\ c.allocated.endVoidsSize \in Nat
      /\ Divides(s, n) /\ Divides(t, diff)
    BY DEF Layout
<1> DEFINE size == c.size
           voids == c.allocated.endVoidsSize
<1> HIDE DEF n, diff, s, t, f, size, voids
<1>5. size \in 1..MaxSize /\ size <= n
    <2>1. diff \in Nat /\ voids \in Nat /\ n \in 1..1024 /\ size \in 1..512
        BY <1>4 DEF size, voids, MaxItem, MaxSize
    <2>2. diff + size + voids <= n
        BY <1>4 DEF size, voids
    <2>3. QED
        BY <2>1, <2>2 DEF MaxSize
<1>6. s \in Steps /\ t \in Steps /\ t <= s
    BY <1>4, <1>5, AlignmentStepResult, AlignmentStepGrows DEF s, t, size
<1>7. Divides(s, f)
    <2>1. 16 \in Steps /\ s <= 16
        BY <1>6 DEF Steps
    <2>2. QED
        BY <1>3, <1>6, <2>1, DividesSmaller
<1>8. i \in Int /\ i * n \in Int
    BY <1>3
<1>9. Divides(s, i * n)
    BY <1>3, <1>4, <1>6, <1>8, DividesProduct
<1>10. Divides(s, f + i * n)
    BY <1>3, <1>6, <1>7, <1>8, <1>9, DividesSum
<1>11. b \in Int /\ Divides(s, b)
    BY <1>2, <1>3, <1>8, <1>10 DEF f
<1>12. Divides(t, b)
    BY <1>6, <1>11, DividesSmaller
<1>13. Divides(t, b + diff)
    BY <1>4, <1>6, <1>11, <1>12, DividesSum
<1>14. RoundUp(b, s) = b
    BY <1>6, <1>11, RoundUpResult
<1>15. RoundUp(b + diff, t) = b + diff
    <2>1. b + diff \in Int
        BY <1>4, <1>11
    <2>2. QED
        BY <1>6, <1>13, <2>1, RoundUpResult
<1>16. QED
    BY <1>14, <1>15 DEF isAlignedAddressFor, alignAddressFor, n, s, t, diff

\* There are finitely many items.
LEMMA BasesFinite ==
    ASSUME NEW c, Layout(c)
    PROVE  IsFiniteSet(BasesOf(c))
<1> DEFINE end == [p \in Pool |-> c.first[p] + Amounts[p] * c.itemSize]
           S == {m \in Nat : \E k \in Nat : \A p \in Pool : p <= m => end[p] <= k}
<1>1. Pool = 1..Len(Amounts) /\ Len(Amounts) \in Nat
    BY PoolAssumption DEF Pool
<1>2. ASSUME NEW p \in Pool PROVE end[p] \in Nat
    <2> DEFINE n == c.itemSize
               k == Amounts[p]
               f == c.first[p]
    <2>1. n \in Nat /\ k \in Nat /\ f \in Nat
        BY Placement
    <2>2. end[p] = f + k * n
        OBVIOUS
    <2> HIDE DEF n, k, f, end
    <2>3. QED
        BY <2>1, <2>2
<1> HIDE DEF end
<1>3. 0 \in S
    <2>1. \A p \in Pool : ~(p <= 0)
        BY <1>1
    <2>2. QED
        BY <2>1
<1>4. ASSUME NEW m \in Nat, m \in S PROVE m + 1 \in S
    <2>1. PICK k \in Nat : \A p \in Pool : p <= m => end[p] <= k
        BY <1>4
    <2>2. CASE m + 1 \in Pool
        <3> DEFINE l == k + end[m + 1]
        <3>1. l \in Nat /\ l >= k /\ l >= end[m + 1]
            BY <1>2, <2>2
        <3> HIDE DEF l
        <3>2. ASSUME NEW p \in Pool, p <= m + 1 PROVE end[p] <= l
            <4>1. CASE p = m + 1
                BY <3>1, <4>1
            <4>2. CASE p # m + 1
                <5>1. p <= m
                    BY <1>1, <3>2, <4>2
                <5>2. end[p] <= k
                    BY <2>1, <5>1
                <5>3. QED
                    BY <1>2, <3>1, <5>2
            <4>3. QED
                BY <4>1, <4>2
        <3>3. QED
            BY <3>1, <3>2
    <2>3. CASE m + 1 \notin Pool
        <3>1. \A p \in Pool : p <= m + 1 => p <= m
            BY <1>1, <2>3
        <3>2. QED
            BY <2>1, <3>1
    <2>4. QED
        BY <2>2, <2>3
<1> HIDE DEF S
<1>5. Nat \subseteq S
    BY <1>3, <1>4, SetInduction
<1>6. Len(Amounts) \in S
    BY <1>1, <1>5
<1>7. PICK k \in Nat : \A p \in Pool : end[p] <= k
    <2>1. PICK k \in Nat : \A p \in Pool : p <= Len(Amounts) => end[p] <= k
        BY <1>6 DEF S
    <2>2. \A p \in Pool : p <= Len(Amounts)
        BY <1>1
    <2>3. QED
        BY <2>1, <2>2
<1>8. ASSUME NEW b \in BasesOf(c) PROVE b <= k
    <2>1. PICK p \in Pool : \E i \in 0..(Amounts[p] - 1) : b = c.first[p] + i * c.itemSize
        BY ItemAddress
    <2> DEFINE n == c.itemSize
    <2>2. b \in Nat /\ b + n <= end[p]
        BY <2>1, ItemInBuffer DEF end
    <2>3. n \in Nat
        BY Placement
    <2> HIDE DEF n
    <2>4. QED
        BY <1>2, <1>7, <2>2, <2>3
<1>9. BasesOf(c) \in SUBSET Nat
    BY BaseType
<1>10. QED
    BY <1>8, <1>9, FS_BoundedSetOfNaturals

-----------------------------------------------------------------------------
(* Bytes.                                                                   *)

NextOf(c, m, b) == LoadPointer(m, b + NextItemOffset(c))

\* The marks of a free and of an allocated item.
FreeBytes(c, m, b) ==
    Checked(c) =>
        /\ m[b] = SIGNATURE_AND_POOL_ITEM_FREE
        /\ Filled(m, b + 1, 3)
        /\ Filled(m, b + NextItemOffset(c) + PointerSize, c.free.endVoidsSize)

AllocatedBytes(c, m, b) ==
    Checked(c) =>
        /\ m[b] = SIGNATURE_AND_POOL_ITEM_ALLOCATED
        /\ Filled(m, b + 1, c.allocated.itemValueDiff - 1)
        /\ Filled(m, b + c.allocated.itemSizeWithoutEndVoids, c.allocated.endVoidsSize)

\* Two memories agree on the item at b.
SameBytes(c, m, k, b) == \A a \in b..(b + c.itemSize - 1) : m[a] = k[a]

\* What is put there stays within the item at b.
Within(c, b, at, bytes) ==
    \A i \in DOMAIN bytes : i \in Int /\ at + i \in b..(b + c.itemSize - 1)

\* What a byte is after a write.
LEMMA PutResult ==
    ASSUME NEW m, NEW at, NEW bytes
    PROVE  /\ DOMAIN Put(m, at, bytes) = DOMAIN m
           /\ \A a \in DOMAIN m : Put(m, at, bytes)[a] =
                IF (a - at) \in DOMAIN bytes THEN bytes[a - at] ELSE m[a]
BY DEF Put

\* What GetNextFreeItem reads from four bytes.
LEMMA LoadBytes ==
    ASSUME NEW m, NEW at \in Int, NEW p, m[at] = p, m[at + 1] = 0, m[at + 2] = 0, m[at + 3] = 0
    PROVE  LoadPointer(m, at) = p
<1>1. \A i \in 1..(PointerSize - 1) : m[at + i] = 0
    <2>1. \A i \in 1..(PointerSize - 1) : i = 1 \/ i = 2 \/ i = 3
        BY DEF PointerSize
    <2>2. QED
        BY <2>1
<1>2. QED
    BY <1>1 DEF LoadPointer

\* A pointer that was put is the pointer that is loaded.
LEMMA LoadPut ==
    ASSUME NEW m, NEW at \in Int, NEW p, \A i \in 0..3 : at + i \in DOMAIN m
    PROVE  LoadPointer(Put(m, at, PointerBytes(p)), at) = p
<1> DEFINE k == Put(m, at, PointerBytes(p))
<1>1. \A i \in 0..3 : k[at + i] = IF i = 0 THEN p ELSE 0
    <2>1. ASSUME NEW i \in 0..3 PROVE k[at + i] = IF i = 0 THEN p ELSE 0
        <3>1. (at + i) - at = i
            OBVIOUS
        <3>2. i \in DOMAIN PointerBytes(p) /\ PointerBytes(p)[i] = IF i = 0 THEN p ELSE 0
            BY DEF PointerBytes, PointerSize
        <3>3. QED
            BY <3>1, <3>2, PutResult
    <2>2. QED
        BY <2>1
<1> HIDE DEF k
<1>2. k[at] = p /\ k[at + 1] = 0 /\ k[at + 2] = 0 /\ k[at + 3] = 0
    <2>1. k[at + 0] = p /\ k[at + 1] = 0 /\ k[at + 2] = 0 /\ k[at + 3] = 0
        BY <1>1
    <2>2. QED
        BY <2>1
<1>3. LoadPointer(k, at) = p
    BY <1>2, LoadBytes
<1>4. QED
    BY <1>3 DEF k

\* Loading reads four bytes.
LEMMA LoadSame ==
    ASSUME NEW m, NEW k, NEW at \in Int, \A i \in 0..3 : m[at + i] = k[at + i]
    PROVE  LoadPointer(m, at) = LoadPointer(k, at)
<1>1. \A i \in 1..(PointerSize - 1) : i \in 0..3
    BY DEF PointerSize
<1>2. m[at] = k[at]
    <2>1. m[at + 0] = k[at + 0]
        OBVIOUS
    <2>2. QED
        BY <2>1
<1>3. (\A i \in 1..(PointerSize - 1) : m[at + i] = 0)
        <=> (\A i \in 1..(PointerSize - 1) : k[at + i] = 0)
    BY <1>1
<1>4. QED
    BY <1>2, <1>3 DEF LoadPointer

\* What is put into an item leaves the other items and the rest alone.
LEMMA PutElsewhere ==
    ASSUME NEW c, Layout(c), NEW m, DOMAIN m = Memory(c),
           NEW b \in BasesOf(c), NEW at \in Int, NEW bytes, Within(c, b, at, bytes),
           NEW a \in Memory(c), a \in Int, a < b \/ a >= b + c.itemSize
    PROVE  Put(m, at, bytes)[a] = m[a]
<1> DEFINE n == c.itemSize
<1>1. n \in Nat /\ b \in Nat
    BY Placement, BaseType
<1>2. a - at \notin DOMAIN bytes
    <2> SUFFICES ASSUME a - at \in DOMAIN bytes PROVE FALSE
        OBVIOUS
    <2>1. at + (a - at) \in b..(b + n - 1)
        BY DEF Within
    <2>2. at + (a - at) = a
        OBVIOUS
    <2>3. a < b \/ a >= b + n
        OBVIOUS
    <2> HIDE DEF n
    <2>4. QED
        BY <1>1, <2>1, <2>2, <2>3
<1>3. QED
    BY <1>2, PutResult

\* A write within one item leaves the others as they were.
LEMMA PutKeepsOthers ==
    ASSUME NEW c, Layout(c), NEW m, DOMAIN m = Memory(c),
           NEW b \in BasesOf(c), NEW at \in Int, NEW bytes, Within(c, b, at, bytes),
           NEW x \in BasesOf(c), x # b
    PROVE  SameBytes(c, Put(m, at, bytes), m, x)
<1> DEFINE n == c.itemSize
<1>1. n \in Nat /\ b \in Nat /\ x \in Nat
    BY Placement, BaseType
<1>2. x + n <= b \/ b + n <= x
    BY BasesApart
<1>3. ASSUME NEW a \in x..(x + n - 1) PROVE Put(m, at, bytes)[a] = m[a]
    <2>1. a \in Memory(c)
        BY BaseInMemory
    <2> HIDE DEF n
    <2>2. a \in Int /\ (a < b \/ a >= b + n)
        BY <1>1, <1>2
    <2>3. QED
        BY <2>1, <2>2, PutElsewhere DEF n
<1>4. QED
    BY <1>3 DEF SameBytes

\* The sizes of the parts of an item, as numbers.
LEMMA LayoutNumbers ==
    ASSUME NEW c, Layout(c)
    PROVE  /\ c.itemSize \in Nat /\ c.size \in Nat \ {0}
           /\ c.allocated.itemValueDiff \in Nat /\ c.allocated.endVoidsSize \in Nat
           /\ c.free.endVoidsSize \in Nat
           /\ c.allocated.itemSizeWithoutEndVoids = c.allocated.itemValueDiff + c.size
           /\ c.allocated.itemValueDiff + c.size + c.allocated.endVoidsSize <= c.itemSize
           /\ NextItemOffset(c) + 4 + c.free.endVoidsSize = c.itemSize
           /\ (Checked(c) <=> c.allocated.itemValueDiff > 0)
           /\ NextItemOffset(c) = IF Checked(c) THEN 4 ELSE 0
<1> DEFINE n == c.itemSize
           size == c.size
           off == NextItemOffset(c)
           voids == c.free.endVoidsSize
<1>1. n \in Nat
    BY Placement
<1>2. off = IF Checked(c) THEN 4 ELSE 0
    BY DEF NextItemOffset
<1>3. size \in 1..512 /\ off + 4 <= n /\ voids = n - (off + 4)
    BY DEF Layout, MaxItem, PointerSize
<1> HIDE DEF n, size, off, voids
<1>4. off \in Nat
    BY <1>2
<1>5. size \in Nat \ {0} /\ voids \in Nat /\ off + 4 + voids = n
    BY <1>1, <1>3, <1>4
<1>6. QED
    BY <1>1, <1>2, <1>5 DEF Layout, n, size, off, voids

\* The marks and pointers of an item depend on its own bytes only.
LEMMA SameFreeItem ==
    ASSUME NEW c, Layout(c), NEW m, NEW k, NEW b \in BasesOf(c), SameBytes(c, m, k, b)
    PROVE  NextOf(c, m, b) = NextOf(c, k, b) /\ FreeBytes(c, m, b) = FreeBytes(c, k, b)
<1> DEFINE n == c.itemSize
           off == NextItemOffset(c)
           voids == c.free.endVoidsSize
<1>1. /\ n \in Nat /\ b \in Nat /\ off \in Nat /\ voids \in Nat
      /\ off + 4 + voids = n
      /\ Checked(c) => off = 4
    BY LayoutNumbers, BaseType
<1>2. \A a \in b..(b + n - 1) : m[a] = k[a]
    BY DEF SameBytes
<1> HIDE DEF n, off, voids
<1>3. LoadPointer(m, b + off) = LoadPointer(k, b + off)
    <2>1. \A i \in 0..3 : (b + off) + i \in b..(b + n - 1)
        BY <1>1
    <2>2. \A i \in 0..3 : m[(b + off) + i] = k[(b + off) + i]
        BY <1>2, <2>1
    <2>3. b + off \in Int
        BY <1>1
    <2>4. QED
        BY <2>2, <2>3, LoadSame
<1>4. ASSUME Checked(c)
      PROVE  /\ m[b] = k[b]
             /\ Filled(m, b + 1, 3) = Filled(k, b + 1, 3)
             /\ Filled(m, b + off + 4, voids) = Filled(k, b + off + 4, voids)
    <2>1. off = 4
        BY <1>1, <1>4
    <2>2. b \in b..(b + n - 1)
        BY <1>1
    <2>3. \A a \in (b + 1)..(b + 1 + 3 - 1) : a \in b..(b + n - 1)
        BY <1>1, <2>1
    <2>4. \A a \in (b + off + 4)..(b + off + 4 + voids - 1) : a \in b..(b + n - 1)
        BY <1>1
    <2>5. QED
        BY <1>2, <2>2, <2>3, <2>4 DEF Filled
<1>5. QED
    BY <1>3, <1>4 DEF NextOf, FreeBytes, off, voids, PointerSize

\* The marks of an allocated item depend on its bytes only.
LEMMA SameAllocatedItem ==
    ASSUME NEW c, Layout(c), NEW m, NEW k, NEW b \in BasesOf(c), SameBytes(c, m, k, b)
    PROVE  AllocatedBytes(c, m, b) = AllocatedBytes(c, k, b)
<1> DEFINE n == c.itemSize
           diff == c.allocated.itemValueDiff
           size == c.size
           voids == c.allocated.endVoidsSize
           used == c.allocated.itemSizeWithoutEndVoids
<1>1. /\ n \in Nat /\ b \in Nat /\ diff \in Nat /\ size \in Nat \ {0} /\ voids \in Nat
      /\ diff + size + voids <= n /\ used = diff + size
    BY LayoutNumbers, BaseType
<1>2. \A a \in b..(b + n - 1) : m[a] = k[a]
    BY DEF SameBytes
<1> HIDE DEF n, diff, size, voids, used
<1>3. b \in b..(b + n - 1)
    BY <1>1
<1>4. \A a \in (b + 1)..(b + 1 + (diff - 1) - 1) : a \in b..(b + n - 1)
    BY <1>1
<1>5. \A a \in (b + used)..(b + used + voids - 1) : a \in b..(b + n - 1)
    BY <1>1
<1>6. /\ m[b] = k[b]
      /\ Filled(m, b + 1, diff - 1) = Filled(k, b + 1, diff - 1)
      /\ Filled(m, b + used, voids) = Filled(k, b + used, voids)
    BY <1>2, <1>3, <1>4, <1>5 DEF Filled
<1>7. QED
    BY <1>6 DEF AllocatedBytes, diff, voids, used

\* So does the pool noted before an object, which fits the value.
LEMMA SameShadow ==
    ASSUME NEW c, Layout(c), NEW m, NEW k, NEW b \in BasesOf(c), SameBytes(c, m, k, b),
           PointerSize < c.size
    PROVE  LoadPointer(m, b + c.allocated.itemValueDiff)
            = LoadPointer(k, b + c.allocated.itemValueDiff)
<1> DEFINE n == c.itemSize
           diff == c.allocated.itemValueDiff
           size == c.size
           voids == c.allocated.endVoidsSize
<1>1. /\ n \in Nat /\ b \in Nat /\ diff \in Nat /\ size \in Nat /\ voids \in Nat
      /\ diff + size + voids <= n /\ 4 < size
    BY LayoutNumbers, BaseType DEF PointerSize
<1>2. \A a \in b..(b + n - 1) : m[a] = k[a]
    BY DEF SameBytes
<1> HIDE DEF n, diff, size, voids
<1>3. \A i \in 0..3 : (b + diff) + i \in b..(b + n - 1)
    BY <1>1
<1>4. b + diff \in Int
    BY <1>1
<1>5. LoadPointer(m, b + diff) = LoadPointer(k, b + diff)
    BY <1>2, <1>3, <1>4, LoadSame
<1>6. QED
    BY <1>5 DEF diff

-----------------------------------------------------------------------------
(* What the maps write.                                                     *)

\* What TFreeItemMap::MakeItem writes, byte by byte.
LEMMA FreeItemBytes ==
    ASSUME NEW c, Layout(c), NEW next
    PROVE  /\ DOMAIN FreeItem(c, next) = 0..((IF Checked(c) THEN c.itemSize ELSE 4) - 1)
           /\ \A i \in 0..3 : FreeItem(c, next)[NextItemOffset(c) + i] = IF i = 0 THEN next ELSE 0
           /\ Checked(c) =>
                /\ FreeItem(c, next)[0] = SIGNATURE_AND_POOL_ITEM_FREE
                /\ \A i \in 1..3 : FreeItem(c, next)[i] = ALIGNMENT_VOIDS_FILL
                /\ \A i \in 8..(c.itemSize - 1) : FreeItem(c, next)[i] = ALIGNMENT_VOIDS_FILL
<1> DEFINE n == c.itemSize
           off == NextItemOffset(c)
           voids == c.free.endVoidsSize
           item == FreeItem(c, next)
<1>1. \A i \in 0..3 : PointerBytes(next)[i] = IF i = 0 THEN next ELSE 0
    BY DEF PointerBytes, PointerSize
<1>2. /\ n \in Nat /\ voids \in Nat /\ off + 4 + voids = n
      /\ off = IF Checked(c) THEN 4 ELSE 0
    BY LayoutNumbers
<1>3. CASE Checked(c)
    <2>1. item = [i \in 0..(off + 4 + voids - 1) |->
                    CASE i = 0 -> SIGNATURE_AND_POOL_ITEM_FREE
                      [] i \in 1..3 -> ALIGNMENT_VOIDS_FILL
                      [] i \in 4..(4 + 4 - 1) -> PointerBytes(next)[i - 4]
                      [] OTHER -> ALIGNMENT_VOIDS_FILL]
        BY <1>3 DEF FreeItem, PointerSize
    <2> HIDE DEF n, off, voids, item
    <2>2. off = 4
        BY <1>2, <1>3
    <2>3. item = [i \in 0..(n - 1) |->
                    CASE i = 0 -> SIGNATURE_AND_POOL_ITEM_FREE
                      [] i \in 1..3 -> ALIGNMENT_VOIDS_FILL
                      [] i \in 4..7 -> PointerBytes(next)[i - 4]
                      [] OTHER -> ALIGNMENT_VOIDS_FILL]
        BY <1>2, <2>1
    <2>4. DOMAIN item = 0..(n - 1)
        BY <2>3
    <2>5. item[0] = SIGNATURE_AND_POOL_ITEM_FREE
        BY <1>2, <2>2, <2>3
    <2>6. \A i \in 1..3 : item[i] = ALIGNMENT_VOIDS_FILL
        BY <1>2, <2>2, <2>3
    <2>7. \A i \in 8..(n - 1) : item[i] = ALIGNMENT_VOIDS_FILL
        BY <1>2, <2>2, <2>3
    <2>8. ASSUME NEW i \in 0..3 PROVE item[off + i] = IF i = 0 THEN next ELSE 0
        <3>1. 4 + i \in 4..7 /\ 4 + i \in 0..(n - 1) /\ (4 + i) - 4 = i
            BY <1>2, <2>2
        <3>2. item[4 + i] = PointerBytes(next)[i]
            BY <2>3, <3>1
        <3>3. QED
            BY <1>1, <2>2, <3>2
    <2>9. QED
        BY <1>3, <2>4, <2>5, <2>6, <2>7, <2>8 DEF n, off, item
<1>4. CASE ~Checked(c)
    <2>1. item = PointerBytes(next) /\ off = 0
        BY <1>2, <1>4 DEF FreeItem
    <2>2. DOMAIN item = 0..(4 - 1)
        BY <2>1 DEF PointerBytes, PointerSize
    <2>3. \A i \in 0..3 : 0 + i = i
        OBVIOUS
    <2>4. \A i \in 0..3 : item[off + i] = IF i = 0 THEN next ELSE 0
        BY <1>1, <2>1, <2>3
    <2>5. QED
        BY <1>4, <2>2, <2>4
<1>5. QED
    BY <1>3, <1>4

\* A memory that holds a free item at b has its marks and its link there.
LEMMA FreeItemRead ==
    ASSUME NEW c, Layout(c), NEW next, NEW m, NEW b \in BasesOf(c),
           \A i \in DOMAIN FreeItem(c, next) : m[b + i] = FreeItem(c, next)[i]
    PROVE  NextOf(c, m, b) = next /\ FreeBytes(c, m, b)
<1> DEFINE n == c.itemSize
           off == NextItemOffset(c)
           voids == c.free.endVoidsSize
           item == FreeItem(c, next)
<1>1. /\ n \in Nat /\ voids \in Nat /\ off \in Nat /\ b \in Nat /\ off + 4 + voids = n
      /\ off = IF Checked(c) THEN 4 ELSE 0
    BY LayoutNumbers, BaseType
<1>2. DOMAIN item = 0..((IF Checked(c) THEN n ELSE 4) - 1)
    BY FreeItemBytes
<1>3. \A i \in 0..3 : item[off + i] = IF i = 0 THEN next ELSE 0
    BY FreeItemBytes
<1>4. ASSUME Checked(c)
      PROVE  /\ item[0] = SIGNATURE_AND_POOL_ITEM_FREE
             /\ \A i \in 1..3 : item[i] = ALIGNMENT_VOIDS_FILL
             /\ \A i \in 8..(n - 1) : item[i] = ALIGNMENT_VOIDS_FILL
    BY <1>4, FreeItemBytes
<1>5. \A i \in DOMAIN item : m[b + i] = item[i]
    OBVIOUS
<1> HIDE DEF n, off, voids, item
<1>6. LoadPointer(m, b + off) = next
    <2>1. ASSUME NEW i \in 0..3
          PROVE  m[(b + off) + i] = IF i = 0 THEN next ELSE 0
        <3>1. off + i \in DOMAIN item
            BY <1>1, <1>2
        <3>2. b + (off + i) = (b + off) + i
            BY <1>1
        <3>3. QED
            BY <1>3, <1>5, <3>1, <3>2
    <2>2. m[(b + off) + 0] = next /\ (b + off) + 0 = b + off
        BY <1>1, <2>1
    <2>3. m[(b + off) + 1] = 0 /\ m[(b + off) + 2] = 0 /\ m[(b + off) + 3] = 0
        BY <2>1
    <2>4. b + off \in Int /\ m[b + off] = next
        BY <1>1, <2>2
    <2>5. QED
        BY <2>3, <2>4, LoadBytes
<1>7. ASSUME Checked(c)
      PROVE  /\ m[b] = SIGNATURE_AND_POOL_ITEM_FREE
             /\ Filled(m, b + 1, 3)
             /\ Filled(m, b + off + 4, voids)
    <2>1. off = 4 /\ DOMAIN item = 0..(n - 1) /\ n >= 8
        BY <1>1, <1>2, <1>7
    <2>2. m[b] = SIGNATURE_AND_POOL_ITEM_FREE
        <3>1. m[b + 0] = item[0] /\ b + 0 = b
            BY <1>1, <1>5, <2>1
        <3>2. QED
            BY <1>4, <1>7, <3>1
    <2>3. ASSUME NEW a \in (b + 1)..(b + 1 + 3 - 1) PROVE m[a] = ALIGNMENT_VOIDS_FILL
        <3>1. a - b \in 1..3 /\ a - b \in DOMAIN item /\ b + (a - b) = a
            BY <1>1, <2>1
        <3>2. QED
            BY <1>4, <1>5, <1>7, <3>1
    <2>4. ASSUME NEW a \in (b + off + 4)..(b + off + 4 + voids - 1)
          PROVE  m[a] = ALIGNMENT_VOIDS_FILL
        <3>1. a - b \in 8..(n - 1) /\ a - b \in DOMAIN item /\ b + (a - b) = a
            BY <1>1, <2>1
        <3>2. QED
            BY <1>4, <1>5, <1>7, <3>1
    <2>5. QED
        BY <2>2, <2>3, <2>4 DEF Filled
<1>8. QED
    BY <1>6, <1>7 DEF NextOf, FreeBytes, off, voids, PointerSize

\* MakeItem of a free item, and the link to the next one.
LEMMA FreeItemPut ==
    ASSUME NEW c, Layout(c), NEW next, NEW m, DOMAIN m = Memory(c), NEW b \in BasesOf(c)
    PROVE  /\ Within(c, b, b, FreeItem(c, next))
           /\ NextOf(c, Put(m, b, FreeItem(c, next)), b) = next
           /\ FreeBytes(c, Put(m, b, FreeItem(c, next)), b)
<1> DEFINE n == c.itemSize
           off == NextItemOffset(c)
           voids == c.free.endVoidsSize
           item == FreeItem(c, next)
           k == Put(m, b, item)
<1>1. /\ n \in Nat /\ voids \in Nat /\ off \in Nat /\ b \in Nat /\ off + 4 + voids = n
    BY LayoutNumbers, BaseType
<1>2. DOMAIN item = 0..((IF Checked(c) THEN n ELSE 4) - 1)
    BY FreeItemBytes
<1> HIDE DEF n, off, voids, item
<1>3. \A i \in DOMAIN item : i \in Int /\ b + i \in b..(b + n - 1)
    BY <1>1, <1>2
<1>4. ASSUME NEW i \in DOMAIN item PROVE k[b + i] = item[i]
    <2>1. b + i \in DOMAIN m
        BY <1>3, BaseInMemory DEF n
    <2>2. (b + i) - b = i
        BY <1>1, <1>3
    <2>3. QED
        BY <2>1, <2>2, PutResult
<1> HIDE DEF k
<1>5. NextOf(c, k, b) = next /\ FreeBytes(c, k, b)
    BY <1>4, FreeItemRead DEF item
<1>6. QED
    BY <1>3, <1>5 DEF Within, k, item, n

\* SetNextFreeItem changes the link and nothing else of a free item.
LEMMA LinkPut ==
    ASSUME NEW c, Layout(c), NEW next, NEW m, DOMAIN m = Memory(c), NEW b \in BasesOf(c)
    PROVE  LET k == Put(m, b + NextItemOffset(c), PointerBytes(next))
           IN  /\ Within(c, b, b + NextItemOffset(c), PointerBytes(next))
               /\ NextOf(c, k, b) = next
               /\ FreeBytes(c, k, b) = FreeBytes(c, m, b)
<1> DEFINE n == c.itemSize
           off == NextItemOffset(c)
           voids == c.free.endVoidsSize
           at == b + off
           k == Put(m, at, PointerBytes(next))
<1>1. /\ n \in Nat /\ voids \in Nat /\ off \in Nat /\ b \in Nat /\ off + 4 + voids = n
      /\ off = IF Checked(c) THEN 4 ELSE 0
    BY LayoutNumbers, BaseType
<1>2. DOMAIN PointerBytes(next) = 0..3
    BY DEF PointerBytes, PointerSize
<1> HIDE DEF n, off, voids, k
<1>3. at \in Int /\ \A i \in 0..3 : at + i \in b..(b + n - 1)
    BY <1>1
<1> HIDE DEF at
<1>4. Within(c, b, at, PointerBytes(next))
    BY <1>2, <1>3 DEF Within, n
<1>5. LoadPointer(k, at) = next
    <2>1. \A i \in 0..3 : at + i \in DOMAIN m
        BY <1>3, BaseInMemory DEF n
    <2>2. QED
        BY <1>3, <2>1, LoadPut DEF k
<1>6. ASSUME NEW a \in b..(b + n - 1), a < at \/ a >= at + 4
      PROVE  k[a] = m[a]
    <2>1. a \in DOMAIN m
        BY BaseInMemory DEF n
    <2>2. a - at \notin DOMAIN PointerBytes(next)
        BY <1>1, <1>2, <1>3, <1>6
    <2>3. QED
        BY <2>1, <2>2, PutResult DEF k
<1>7. ASSUME Checked(c)
      PROVE  /\ k[b] = m[b]
             /\ Filled(k, b + 1, 3) = Filled(m, b + 1, 3)
             /\ Filled(k, b + off + 4, voids) = Filled(m, b + off + 4, voids)
    <2>1. at = b + 4 /\ off = 4
        BY <1>1, <1>7 DEF at
    <2>2. k[b] = m[b]
        BY <1>1, <1>6, <2>1
    <2>3. \A a \in (b + 1)..(b + 1 + 3 - 1) : k[a] = m[a]
        BY <1>1, <1>6, <2>1
    <2>4. \A a \in (b + off + 4)..(b + off + 4 + voids - 1) : k[a] = m[a]
        BY <1>1, <1>6, <2>1
    <2>5. QED
        BY <2>2, <2>3, <2>4 DEF Filled
<1>8. FreeBytes(c, k, b) = FreeBytes(c, m, b)
    BY <1>7 DEF FreeBytes, off, voids, PointerSize
<1>9. QED
    BY <1>4, <1>5, <1>8 DEF NextOf, k, at, off

\* MakeItem of an allocated item.
LEMMA AllocatedItemPut ==
    ASSUME NEW c, Layout(c), NEW m, DOMAIN m = Memory(c), NEW b \in BasesOf(c)
    PROVE  /\ Within(c, b, b, AllocatedItem(c))
           /\ AllocatedBytes(c, Put(m, b, AllocatedItem(c)), b)
<1> DEFINE n == c.itemSize
           diff == c.allocated.itemValueDiff
           size == c.size
           voids == c.allocated.endVoidsSize
           used == c.allocated.itemSizeWithoutEndVoids
           item == AllocatedItem(c)
           k == Put(m, b, item)
<1>1. /\ n \in Nat /\ b \in Nat /\ diff \in Nat /\ size \in Nat \ {0} /\ voids \in Nat
      /\ diff + size + voids <= n /\ used = diff + size
      /\ (Checked(c) <=> diff > 0)
    BY LayoutNumbers, BaseType
<1>2. CASE Checked(c)
    <2>1. item = [i \in 0..(used + voids - 1) |->
                    CASE i = 0 -> SIGNATURE_AND_POOL_ITEM_ALLOCATED
                      [] i >= diff /\ i < diff + size -> ITEM_VALUE
                      [] OTHER -> ALIGNMENT_VOIDS_FILL]
        BY <1>2 DEF AllocatedItem
    <2> HIDE DEF n, diff, size, voids, used, item
    <2>2. \A i \in DOMAIN item : i \in Int /\ b + i \in b..(b + n - 1)
        BY <1>1, <2>1
    <2>3. item[0] = SIGNATURE_AND_POOL_ITEM_ALLOCATED /\ 0 \in DOMAIN item
        BY <1>1, <1>2, <2>1
    <2>4. \A i \in 1..(diff - 1) : i \in DOMAIN item /\ item[i] = ALIGNMENT_VOIDS_FILL
        BY <1>1, <1>2, <2>1
    <2>5. \A i \in used..(used + voids - 1) : i \in DOMAIN item /\ item[i] = ALIGNMENT_VOIDS_FILL
        BY <1>1, <1>2, <2>1
    <2>6. ASSUME NEW i \in DOMAIN item PROVE k[b + i] = item[i]
        <3>1. b + i \in DOMAIN m
            BY <2>2, BaseInMemory DEF n
        <3>2. (b + i) - b = i
            BY <1>1, <2>2
        <3>3. QED
            BY <3>1, <3>2, PutResult
    <2> HIDE DEF k
    <2>7. k[b] = SIGNATURE_AND_POOL_ITEM_ALLOCATED
        <3>1. k[b + 0] = item[0] /\ b + 0 = b
            BY <1>1, <2>3, <2>6
        <3>2. QED
            BY <2>3, <3>1
    <2>8. ASSUME NEW a \in (b + 1)..(b + 1 + (diff - 1) - 1) PROVE k[a] = ALIGNMENT_VOIDS_FILL
        <3>1. a - b \in 1..(diff - 1) /\ b + (a - b) = a
            BY <1>1
        <3>2. QED
            BY <2>4, <2>6, <3>1
    <2>9. ASSUME NEW a \in (b + used)..(b + used + voids - 1) PROVE k[a] = ALIGNMENT_VOIDS_FILL
        <3>1. a - b \in used..(used + voids - 1) /\ b + (a - b) = a
            BY <1>1
        <3>2. QED
            BY <2>5, <2>6, <3>1
    <2>10. /\ k[b] = SIGNATURE_AND_POOL_ITEM_ALLOCATED
           /\ Filled(k, b + 1, diff - 1)
           /\ Filled(k, b + used, voids)
        BY <2>7, <2>8, <2>9 DEF Filled
    <2>11. QED
        BY <2>2, <2>10 DEF Within, AllocatedBytes, n, diff, voids, used, item, k
<1>3. CASE ~Checked(c)
    BY <1>3 DEF AllocatedItem, AllocatedBytes, Within
<1>4. QED
    BY <1>2, <1>3

\* What is written into the value leaves the marks of the item alone.
LEMMA ValuePut ==
    ASSUME NEW c, Layout(c), NEW m, DOMAIN m = Memory(c), NEW b \in BasesOf(c),
           NEW at \in Int, NEW bytes,
           \A i \in DOMAIN bytes :
                /\ i \in Int
                /\ at + i \in (b + c.allocated.itemValueDiff)..
                              (b + c.allocated.itemValueDiff + c.size - 1)
    PROVE  /\ Within(c, b, at, bytes)
           /\ AllocatedBytes(c, Put(m, at, bytes), b) = AllocatedBytes(c, m, b)
<1> DEFINE n == c.itemSize
           diff == c.allocated.itemValueDiff
           size == c.size
           voids == c.allocated.endVoidsSize
           used == c.allocated.itemSizeWithoutEndVoids
           k == Put(m, at, bytes)
<1>1. /\ n \in Nat /\ b \in Nat /\ diff \in Nat /\ size \in Nat \ {0} /\ voids \in Nat
      /\ diff + size + voids <= n /\ used = diff + size
      /\ (Checked(c) <=> diff > 0)
    BY LayoutNumbers, BaseType
<1>2. \A i \in DOMAIN bytes : i \in Int /\ at + i \in (b + diff)..(b + diff + size - 1)
    OBVIOUS
<1> HIDE DEF n, diff, size, voids, used, k
<1>3. \A i \in DOMAIN bytes : i \in Int /\ at + i \in b..(b + n - 1)
    BY <1>1, <1>2
<1>4. ASSUME NEW a \in b..(b + n - 1), a < b + diff \/ a >= b + diff + size
      PROVE  k[a] = m[a]
    <2>1. a \in DOMAIN m
        BY BaseInMemory DEF n
    <2>2. a \in Int /\ at + (a - at) = a
        BY <1>1
    <2>3. a - at \notin DOMAIN bytes
        <3> SUFFICES ASSUME a - at \in DOMAIN bytes PROVE FALSE
            OBVIOUS
        <3>1. a \in (b + diff)..(b + diff + size - 1)
            BY <1>2, <2>2
        <3>2. QED
            BY <1>1, <1>4, <3>1
    <2>4. QED
        BY <2>1, <2>3, PutResult DEF k
<1>5. ASSUME Checked(c)
      PROVE  /\ k[b] = m[b]
             /\ Filled(k, b + 1, diff - 1) = Filled(m, b + 1, diff - 1)
             /\ Filled(k, b + used, voids) = Filled(m, b + used, voids)
    <2>1. diff > 0
        BY <1>1, <1>5
    <2>2. k[b] = m[b]
        BY <1>1, <1>4, <2>1
    <2>3. \A a \in (b + 1)..(b + 1 + (diff - 1) - 1) : k[a] = m[a]
        BY <1>1, <1>4, <2>1
    <2>4. \A a \in (b + used)..(b + used + voids - 1) : k[a] = m[a]
        BY <1>1, <1>4, <2>1
    <2>5. QED
        BY <2>2, <2>3, <2>4 DEF Filled
<1>6. QED
    BY <1>3, <1>5 DEF Within, AllocatedBytes, n, diff, voids, used, k

-----------------------------------------------------------------------------
(* The free lists.  ch[p][i] is the i-th item behind the top of the list of *)
(* p, NULL once the list has ended; n[p] is the number of items the pool    *)
(* counts free, B the items that are allocated.                             *)

FreeLists(c, m, t, n, B, ch) ==
    /\ B \subseteq BasesOf(c)
    /\ n \in [Pool -> Nat]
    /\ ch \in [Pool -> [Nat -> BasesOf(c) \cup {NULL}]]
    /\ t = [p \in Pool |-> ch[p][0]]
    /\ \A p \in Pool, i \in Nat : ch[p][i] # NULL <=> i < n[p]
    /\ \A p \in Pool, i \in Nat : ch[p][i] # NULL =>
            NextOf(c, m, ch[p][i]) = ch[p][i + 1] /\ FreeBytes(c, m, ch[p][i])
    /\ \A p, q \in Pool, i, j \in Nat :
            ch[p][i] = ch[q][j] /\ ch[p][i] # NULL => p = q /\ i = j
    /\ \A p \in Pool, i \in Nat : ch[p][i] \notin B
    /\ \A b \in BasesOf(c) : b \in B \/ \E p \in Pool, i \in Nat : ch[p][i] = b

\* The end of a list is no item.
LEMMA NullIsNoBase ==
    ASSUME NEW c, Layout(c)
    PROVE  NULL \notin BasesOf(c)
BY BaseType DEF NULL

\* The facts of FreeLists about one list.
LEMMA ChainFacts ==
    ASSUME NEW c, NEW m, NEW t, NEW n, NEW B, NEW ch, FreeLists(c, m, t, n, B, ch),
           NEW p \in Pool, NEW i \in Nat
    PROVE  /\ n[p] \in Nat
           /\ ch[p][i] \in BasesOf(c) \cup {NULL}
           /\ t[p] = ch[p][0]
           /\ ch[p][i] # NULL <=> i < n[p]
           /\ ch[p][i] # NULL =>
                NextOf(c, m, ch[p][i]) = ch[p][i + 1] /\ FreeBytes(c, m, ch[p][i])
           /\ ch[p][i] \notin B
BY DEF FreeLists

\* An item is in one list, once.
LEMMA ChainsApart ==
    ASSUME NEW c, NEW m, NEW t, NEW n, NEW B, NEW ch, FreeLists(c, m, t, n, B, ch),
           NEW p \in Pool, NEW q \in Pool, NEW i \in Nat, NEW j \in Nat,
           ch[p][i] = ch[q][j], ch[p][i] # NULL
    PROVE  p = q /\ i = j
BY DEF FreeLists

\* A write into an allocated item leaves the lists alone.
LEMMA FreeListsKeep ==
    ASSUME NEW c, Layout(c), NEW m, NEW t, NEW n, NEW B, NEW ch,
           FreeLists(c, m, t, n, B, ch),
           NEW k, NEW x \in B, \A b \in BasesOf(c) : b # x => SameBytes(c, k, m, b)
    PROVE  FreeLists(c, k, t, n, B, ch)
<1>1. ASSUME NEW p \in Pool, NEW i \in Nat, ch[p][i] # NULL
      PROVE  NextOf(c, k, ch[p][i]) = ch[p][i + 1] /\ FreeBytes(c, k, ch[p][i])
    <2>1. /\ ch[p][i] \in BasesOf(c) /\ ch[p][i] # x
          /\ NextOf(c, m, ch[p][i]) = ch[p][i + 1] /\ FreeBytes(c, m, ch[p][i])
        BY <1>1, ChainFacts
    <2>2. SameBytes(c, k, m, ch[p][i])
        BY <2>1
    <2>3. QED
        BY <2>1, <2>2, SameFreeItem
<1>2. QED
    BY <1>1 DEF FreeLists

\* The first item of a list is a free one.
LEMMA FirstIsFree ==
    ASSUME NEW c, NEW m, NEW t, NEW n, NEW B, NEW ch, FreeLists(c, m, t, n, B, ch),
           NEW p \in Pool, t[p] # NULL
    PROVE  t[p] \in BasesOf(c) /\ t[p] \notin B /\ n[p] > 0
<1>1. 0 \in Nat
    OBVIOUS
<1>2. n[p] \in Nat /\ ch[p][0] \in BasesOf(c) \cup {NULL} /\ t[p] = ch[p][0]
      /\ (ch[p][0] # NULL <=> 0 < n[p]) /\ ch[p][0] \notin B
    BY <1>1, ChainFacts
<1>3. QED
    BY <1>2

\* allocate takes the first item of a list.
LEMMA FreeListsPop ==
    ASSUME NEW c, Layout(c), NEW m, NEW t, NEW n, NEW B, NEW ch,
           FreeLists(c, m, t, n, B, ch), NEW p \in Pool, NEW x, x = t[p], x # NULL,
           NEW k, \A b \in BasesOf(c) : b # x => SameBytes(c, k, m, b)
    PROVE  /\ x \in BasesOf(c) \ B
           /\ n[p] > 0
           /\ FreeLists(c, k, [t EXCEPT ![p] = NextOf(c, m, x)],
                        [n EXCEPT ![p] = n[p] - 1], B \cup {x},
                        [ch EXCEPT ![p] = [i \in Nat |-> ch[p][i + 1]]])
<1> DEFINE tt == [t EXCEPT ![p] = NextOf(c, m, x)]
           nn == [n EXCEPT ![p] = n[p] - 1]
           BB == B \cup {x}
           d == [ch EXCEPT ![p] = [i \in Nat |-> ch[p][i + 1]]]
<1>1. /\ ch \in [Pool -> [Nat -> BasesOf(c) \cup {NULL}]] /\ n \in [Pool -> Nat]
      /\ t = [q \in Pool |-> ch[q][0]] /\ B \subseteq BasesOf(c)
    BY DEF FreeLists
<1>2. 0 \in Nat /\ x = ch[p][0]
    BY <1>1
<1>3. /\ x \in BasesOf(c) /\ x \notin B /\ 0 < n[p] /\ n[p] \in Nat
      /\ NextOf(c, m, x) = ch[p][1]
    BY <1>2, ChainFacts
<1>4. ASSUME NEW q \in Pool, NEW i \in Nat
      PROVE  d[q][i] = ch[q][IF q = p THEN i + 1 ELSE i]
    BY <1>1
<1>5. nn \in [Pool -> Nat] /\ \A q \in Pool : nn[q] = IF q = p THEN n[p] - 1 ELSE n[q]
    BY <1>1, <1>3
<1>6. d \in [Pool -> [Nat -> BasesOf(c) \cup {NULL}]]
    BY <1>1
<1>7. tt = [q \in Pool |-> d[q][0]]
    <2>1. tt = [q \in Pool |-> IF q = p THEN ch[p][1] ELSE ch[q][0]]
        BY <1>1, <1>3
    <2>2. \A q \in Pool : d[q][0] = IF q = p THEN ch[p][1] ELSE ch[q][0]
        BY <1>1
    <2> HIDE DEF d, tt
    <2>3. QED
        BY <2>1, <2>2
<1> HIDE DEF d, nn, tt, BB
<1>8. ASSUME NEW q \in Pool, NEW i \in Nat
      PROVE  d[q][i] # NULL <=> i < nn[q]
    <2>1. CASE q = p
        <3>1. d[q][i] = ch[p][i + 1] /\ i + 1 \in Nat /\ nn[q] = n[p] - 1
            BY <1>4, <1>5, <2>1
        <3>2. ch[p][i + 1] # NULL <=> i + 1 < n[p]
            BY <3>1, ChainFacts
        <3>3. QED
            BY <1>3, <3>1, <3>2
    <2>2. CASE q # p
        BY <1>4, <1>5, <2>2, ChainFacts
    <2>3. QED
        BY <2>1, <2>2
<1>9. ASSUME NEW q \in Pool, NEW i \in Nat
      PROVE  d[q][i] # x
    <2> DEFINE j == IF q = p THEN i + 1 ELSE i
    <2>1. j \in Nat /\ d[q][i] = ch[q][j] /\ ~(q = p /\ j = 0)
        BY <1>4
    <2>2. x = ch[p][0] /\ x # NULL
        BY <1>2
    <2> HIDE DEF j
    <2>3. ch[q][j] = ch[p][0] /\ ch[q][j] # NULL => q = p /\ j = 0
        BY <1>2, <2>1 DEF FreeLists
    <2>4. QED
        BY <2>1, <2>2, <2>3
<1>10. ASSUME NEW q \in Pool, NEW i \in Nat, d[q][i] # NULL
       PROVE  NextOf(c, k, d[q][i]) = d[q][i + 1] /\ FreeBytes(c, k, d[q][i])
    <2> DEFINE j == IF q = p THEN i + 1 ELSE i
    <2>1. j \in Nat /\ d[q][i] = ch[q][j] /\ d[q][i + 1] = ch[q][j + 1]
        BY <1>4
    <2> HIDE DEF j
    <2>2. /\ ch[q][j] \in BasesOf(c)
          /\ NextOf(c, m, ch[q][j]) = ch[q][j + 1] /\ FreeBytes(c, m, ch[q][j])
        BY <1>10, <2>1, ChainFacts
    <2>3. ch[q][j] # x
        BY <1>9, <2>1
    <2>4. SameBytes(c, k, m, ch[q][j])
        BY <2>2, <2>3
    <2>5. QED
        BY <2>1, <2>2, <2>4, SameFreeItem
<1>11. ASSUME NEW q \in Pool, NEW r \in Pool, NEW i \in Nat, NEW j \in Nat,
              d[q][i] = d[r][j], d[q][i] # NULL
       PROVE  q = r /\ i = j
    <2> DEFINE ii == IF q = p THEN i + 1 ELSE i
               jj == IF r = p THEN j + 1 ELSE j
    <2>1. ii \in Nat /\ jj \in Nat /\ d[q][i] = ch[q][ii] /\ d[r][j] = ch[r][jj]
        BY <1>4
    <2> HIDE DEF ii, jj
    <2>2. ch[q][ii] = ch[r][jj] /\ ch[q][ii] # NULL
        BY <1>11, <2>1
    <2>3. q = r /\ ii = jj
        BY <2>1, <2>2, ChainsApart
    <2>4. QED
        BY <2>3 DEF ii, jj
<1>12. ASSUME NEW q \in Pool, NEW i \in Nat
       PROVE  d[q][i] \notin BB
    <2> DEFINE j == IF q = p THEN i + 1 ELSE i
    <2>1. j \in Nat /\ d[q][i] = ch[q][j]
        BY <1>4
    <2> HIDE DEF j
    <2>2. ch[q][j] \notin B
        BY <2>1, ChainFacts
    <2>3. QED
        BY <1>9, <2>1, <2>2 DEF BB
<1>13. ASSUME NEW b \in BasesOf(c), b \notin BB
       PROVE  \E q \in Pool, i \in Nat : d[q][i] = b
    <2>1. PICK q \in Pool, j \in Nat : ch[q][j] = b
        BY <1>13 DEF FreeLists, BB
    <2>2. CASE q = p
        <3>1. j # 0
            BY <1>2, <1>13, <2>1, <2>2 DEF BB
        <3>2. j - 1 \in Nat /\ (j - 1) + 1 = j
            BY <3>1
        <3>3. d[q][j - 1] = b
            BY <1>4, <2>1, <2>2, <3>2
        <3>4. QED
            BY <3>2, <3>3
    <2>3. CASE q # p
        BY <1>4, <2>1, <2>3
    <2>4. QED
        BY <2>2, <2>3
<1>14. BB \subseteq BasesOf(c)
    BY <1>1, <1>3 DEF BB
<1>15. FreeLists(c, k, tt, nn, BB, d)
    BY <1>5, <1>6, <1>7, <1>8, <1>10, <1>11, <1>12, <1>13, <1>14 DEF FreeLists
<1>16. QED
    BY <1>3, <1>15 DEF tt, nn, BB, d

\* deallocate puts an allocated item, made free, before a list.
LEMMA FreeListsPush ==
    ASSUME NEW c, Layout(c), NEW m, NEW t, NEW n, NEW B, NEW ch,
           FreeLists(c, m, t, n, B, ch), NEW p \in Pool, NEW x \in B,
           NEW k, \A b \in BasesOf(c) : b # x => SameBytes(c, k, m, b),
           NextOf(c, k, x) = t[p], FreeBytes(c, k, x)
    PROVE  FreeLists(c, k, [t EXCEPT ![p] = x], [n EXCEPT ![p] = n[p] + 1], B \ {x},
                     [ch EXCEPT ![p] = [i \in Nat |-> IF i = 0 THEN x ELSE ch[p][i - 1]]])
<1> DEFINE tt == [t EXCEPT ![p] = x]
           nn == [n EXCEPT ![p] = n[p] + 1]
           BB == B \ {x}
           d == [ch EXCEPT ![p] = [i \in Nat |-> IF i = 0 THEN x ELSE ch[p][i - 1]]]
<1>1. /\ ch \in [Pool -> [Nat -> BasesOf(c) \cup {NULL}]] /\ n \in [Pool -> Nat]
      /\ t = [q \in Pool |-> ch[q][0]] /\ B \subseteq BasesOf(c)
    BY DEF FreeLists
<1>2. x \in BasesOf(c) /\ x # NULL
    BY <1>1, NullIsNoBase
<1>3. ASSUME NEW q \in Pool, NEW i \in Nat
      PROVE  d[q][i] = IF q = p THEN (IF i = 0 THEN x ELSE ch[p][i - 1]) ELSE ch[q][i]
    BY <1>1
<1>4. nn \in [Pool -> Nat] /\ \A q \in Pool : nn[q] = IF q = p THEN n[p] + 1 ELSE n[q]
    BY <1>1
<1>5. d \in [Pool -> [Nat -> BasesOf(c) \cup {NULL}]]
    <2>1. [i \in Nat |-> IF i = 0 THEN x ELSE ch[p][i - 1]] \in [Nat -> BasesOf(c) \cup {NULL}]
        <3>1. ASSUME NEW i \in Nat
              PROVE  (IF i = 0 THEN x ELSE ch[p][i - 1]) \in BasesOf(c) \cup {NULL}
            <4>1. i # 0 => i - 1 \in Nat
                OBVIOUS
            <4>2. QED
                BY <1>1, <1>2, <4>1
        <3>2. QED
            BY <3>1
    <2>2. QED
        BY <1>1, <2>1
<1>6. tt = [q \in Pool |-> d[q][0]]
    <2>1. tt = [q \in Pool |-> IF q = p THEN x ELSE ch[q][0]]
        BY <1>1
    <2>2. \A q \in Pool : d[q][0] = IF q = p THEN x ELSE ch[q][0]
        BY <1>1
    <2> HIDE DEF d, tt
    <2>3. QED
        BY <2>1, <2>2
<1> HIDE DEF d, nn, tt, BB
\* An entry of the new lists is x, or an entry of the old ones.
<1>7. ASSUME NEW q \in Pool, NEW i \in Nat
      PROVE  \/ q = p /\ i = 0 /\ d[q][i] = x
             \/ /\ ~(q = p /\ i = 0)
                /\ \E j \in Nat : /\ d[q][i] = ch[q][j] /\ d[q][i + 1] = ch[q][j + 1]
                                  /\ i = IF q = p THEN j + 1 ELSE j
    <2>1. CASE q = p /\ i = 0
        BY <1>3, <2>1
    <2>2. CASE q = p /\ i # 0
        <3>1. i - 1 \in Nat /\ (i - 1) + 1 = i /\ (i + 1) - 1 = i /\ i + 1 # 0 /\ i + 1 \in Nat
            BY <2>2
        <3>2. d[q][i] = ch[q][i - 1] /\ d[q][i + 1] = ch[q][(i - 1) + 1]
            BY <1>3, <2>2, <3>1
        <3>3. QED
            BY <2>2, <3>1, <3>2
    <2>3. CASE q # p
        BY <1>3, <2>3
    <2>4. QED
        BY <2>1, <2>2, <2>3
<1>8. ASSUME NEW q \in Pool, NEW i \in Nat
      PROVE  d[q][i] # NULL <=> i < nn[q]
    <2>1. CASE q = p /\ i = 0 /\ d[q][i] = x
        BY <1>1, <1>2, <1>4, <2>1
    <2>2. CASE /\ ~(q = p /\ i = 0)
               /\ \E j \in Nat : /\ d[q][i] = ch[q][j] /\ d[q][i + 1] = ch[q][j + 1]
                                 /\ i = IF q = p THEN j + 1 ELSE j
        <3>1. PICK j \in Nat : d[q][i] = ch[q][j] /\ i = IF q = p THEN j + 1 ELSE j
            BY <2>2
        <3>2. (ch[q][j] # NULL <=> j < n[q]) /\ n[q] \in Nat
            BY ChainFacts
        <3>3. QED
            BY <1>4, <3>1, <3>2
    <2>3. QED
        BY <1>7, <2>1, <2>2
<1>9. ASSUME NEW q \in Pool, NEW i \in Nat, d[q][i] = x
      PROVE  q = p /\ i = 0
    <2> SUFFICES ASSUME ~(q = p /\ i = 0) PROVE FALSE
        OBVIOUS
    <2>1. PICK j \in Nat : d[q][i] = ch[q][j]
        BY <1>7
    <2>2. ch[q][j] \notin B
        BY ChainFacts
    <2>3. QED
        BY <1>9, <2>1, <2>2
<1>10. ASSUME NEW q \in Pool, NEW i \in Nat, d[q][i] # NULL
       PROVE  NextOf(c, k, d[q][i]) = d[q][i + 1] /\ FreeBytes(c, k, d[q][i])
    <2>1. CASE q = p /\ i = 0 /\ d[q][i] = x
        <3>1. d[q][1] = ch[p][0]
            BY <1>3, <2>1
        <3>2. t[p] = ch[p][0]
            BY <1>1
        <3>3. QED
            BY <2>1, <3>1, <3>2
    <2>2. CASE /\ ~(q = p /\ i = 0)
               /\ \E j \in Nat : /\ d[q][i] = ch[q][j] /\ d[q][i + 1] = ch[q][j + 1]
                                 /\ i = IF q = p THEN j + 1 ELSE j
        <3>1. PICK j \in Nat : d[q][i] = ch[q][j] /\ d[q][i + 1] = ch[q][j + 1]
            BY <2>2
        <3>2. /\ ch[q][j] \in BasesOf(c) /\ ch[q][j] # x
              /\ NextOf(c, m, ch[q][j]) = ch[q][j + 1] /\ FreeBytes(c, m, ch[q][j])
            BY <1>10, <3>1, ChainFacts
        <3>3. SameBytes(c, k, m, ch[q][j])
            BY <3>2
        <3>4. QED
            BY <3>1, <3>2, <3>3, SameFreeItem
    <2>3. QED
        BY <1>7, <2>1, <2>2
<1>11. ASSUME NEW q \in Pool, NEW r \in Pool, NEW i \in Nat, NEW j \in Nat,
              d[q][i] = d[r][j], d[q][i] # NULL
       PROVE  q = r /\ i = j
    <2>1. CASE d[q][i] = x
        BY <1>9, <1>11, <2>1
    <2>2. CASE d[q][i] # x
        <3>1. PICK ii \in Nat : d[q][i] = ch[q][ii] /\ i = IF q = p THEN ii + 1 ELSE ii
            BY <1>7, <2>2
        <3>2. PICK jj \in Nat : d[r][j] = ch[r][jj] /\ j = IF r = p THEN jj + 1 ELSE jj
            BY <1>7, <1>11, <2>2
        <3>3. ch[q][ii] = ch[r][jj] /\ ch[q][ii] # NULL
            BY <1>11, <3>1, <3>2
        <3>4. q = r /\ ii = jj
            BY <3>3, ChainsApart
        <3>5. QED
            BY <3>1, <3>2, <3>4
    <2>3. QED
        BY <2>1, <2>2
<1>12. ASSUME NEW q \in Pool, NEW i \in Nat
       PROVE  d[q][i] \notin BB
    <2>1. CASE d[q][i] = x
        BY <2>1 DEF BB
    <2>2. CASE d[q][i] # x
        <3>1. PICK j \in Nat : d[q][i] = ch[q][j]
            BY <1>7, <2>2
        <3>2. ch[q][j] \notin B
            BY ChainFacts
        <3>3. QED
            BY <3>1, <3>2 DEF BB
    <2>3. QED
        BY <2>1, <2>2
<1>13. ASSUME NEW b \in BasesOf(c), b \notin BB
       PROVE  \E q \in Pool, i \in Nat : d[q][i] = b
    <2>1. CASE b = x
        BY <1>3, <2>1
    <2>2. CASE b # x
        <3>1. PICK q \in Pool, j \in Nat : ch[q][j] = b
            BY <1>13, <2>2 DEF FreeLists, BB
        <3>2. CASE q = p
            <4>1. j + 1 \in Nat /\ j + 1 # 0 /\ (j + 1) - 1 = j
                OBVIOUS
            <4>2. d[q][j + 1] = b
                BY <1>3, <3>1, <3>2, <4>1
            <4>3. QED
                BY <4>1, <4>2
        <3>3. CASE q # p
            BY <1>3, <3>1, <3>3
        <3>4. QED
            BY <3>2, <3>3
    <2>3. QED
        BY <2>1, <2>2
<1>14. BB \subseteq BasesOf(c)
    BY <1>1 DEF BB
<1>15. FreeLists(c, k, tt, nn, BB, d)
    BY <1>4, <1>5, <1>6, <1>8, <1>10, <1>11, <1>12, <1>13, <1>14 DEF FreeLists
<1>16. QED
    BY <1>15 DEF tt, nn, BB, d

\* transferFreeItems puts the whole list of q before that of p: the last item of
\* q is linked to the first of p.
LEMMA FreeListsMove ==
    ASSUME NEW c, Layout(c), NEW m, NEW t, NEW n, NEW B, NEW ch,
           FreeLists(c, m, t, n, B, ch), NEW p \in Pool, NEW q \in Pool, p # q,
           NEW x, n[q] > 0, x = ch[q][n[q] - 1],
           NEW k, \A b \in BasesOf(c) : b # x => SameBytes(c, k, m, b),
           NextOf(c, k, x) = t[p], FreeBytes(c, k, x)
    PROVE  \E d : FreeLists(c, k, [t EXCEPT ![p] = t[q], ![q] = NULL],
                           [n EXCEPT ![p] = n[p] + n[q], ![q] = 0], B, d)
<1> DEFINE tt == [t EXCEPT ![p] = t[q], ![q] = NULL]
           nn == [n EXCEPT ![p] = n[p] + n[q], ![q] = 0]
           s == [i \in Nat |-> IF i < n[q] THEN ch[q][i] ELSE ch[p][i - n[q]]]
           d == [r \in Pool |-> IF r = p THEN s
                                ELSE IF r = q THEN [i \in Nat |-> NULL] ELSE ch[r]]
<1>1. /\ ch \in [Pool -> [Nat -> BasesOf(c) \cup {NULL}]] /\ n \in [Pool -> Nat]
      /\ t = [r \in Pool |-> ch[r][0]] /\ B \subseteq BasesOf(c)
    BY DEF FreeLists
<1> DEFINE w == n[q]
<1>2. w \in Nat /\ w > 0 /\ w - 1 \in Nat /\ x = ch[q][w - 1]
    BY <1>1
<1>3. s \in [Nat -> BasesOf(c) \cup {NULL}]
    <2>1. ASSUME NEW i \in Nat
          PROVE  (IF i < n[q] THEN ch[q][i] ELSE ch[p][i - n[q]]) \in BasesOf(c) \cup {NULL}
        <3>1. ~(i < w) => i - w \in Nat
            BY <1>2
        <3>2. QED
            BY <1>1, <3>1
    <2>2. QED
        BY <2>1
<1>4. ASSUME NEW i \in Nat PROVE s[i] = IF i < w THEN ch[q][i] ELSE ch[p][i - w]
    OBVIOUS
<1> HIDE DEF s
<1>5. d \in [Pool -> [Nat -> BasesOf(c) \cup {NULL}]]
    BY <1>1, <1>3
<1>6. /\ d[p] = s
      /\ \A i \in Nat : d[q][i] = NULL
      /\ \A r \in Pool : r # p /\ r # q => d[r] = ch[r]
    OBVIOUS
<1>7. /\ nn \in [Pool -> Nat]
      /\ nn[p] = n[p] + w /\ nn[q] = 0 /\ \A r \in Pool : r # p /\ r # q => nn[r] = n[r]
    BY <1>1
<1> HIDE DEF w
<1>8. tt = [r \in Pool |-> d[r][0]]
    <2>1. tt = [r \in Pool |-> IF r = p THEN ch[q][0] ELSE IF r = q THEN NULL ELSE ch[r][0]]
        BY <1>1
    <2>2. d[p][0] = ch[q][0]
        BY <1>2, <1>4, <1>6
    <2>3. \A r \in Pool : d[r][0] = IF r = p THEN ch[q][0] ELSE IF r = q THEN NULL ELSE ch[r][0]
        BY <1>6, <2>2
    <2> HIDE DEF d, tt
    <2>4. QED
        BY <2>1, <2>3
<1> HIDE DEF d, nn, tt
\* An entry of the new lists is one of the old ones.
<1>9. ASSUME NEW r \in Pool, NEW i \in Nat, d[r][i] # NULL
      PROVE  \/ r = p /\ i < w /\ d[r][i] = ch[q][i]
             \/ r = p /\ ~(i < w) /\ i - w \in Nat /\ d[r][i] = ch[p][i - w]
             \/ r # p /\ r # q /\ d[r][i] = ch[r][i]
    BY <1>2, <1>4, <1>6, <1>9
<1>10. ASSUME NEW r \in Pool, NEW i \in Nat
       PROVE  d[r][i] # NULL <=> i < nn[r]
    <2>1. CASE r = p
        <3>1. CASE i < w
            <4>1. d[r][i] = ch[q][i]
                BY <1>4, <1>6, <2>1, <3>1
            <4>2. ch[q][i] # NULL
                BY <3>1, ChainFacts DEF w
            <4>3. n[p] \in Nat
                BY <1>1
            <4>4. QED
                BY <1>2, <1>7, <2>1, <3>1, <4>1, <4>2, <4>3
        <3>2. CASE ~(i < w)
            <4>1. i - w \in Nat
                BY <1>2, <3>2
            <4>2. d[r][i] = ch[p][i - w]
                BY <1>4, <1>6, <2>1, <3>2
            <4>3. (ch[p][i - w] # NULL <=> i - w < n[p]) /\ n[p] \in Nat
                BY <4>1, ChainFacts
            <4>4. QED
                BY <1>2, <1>7, <2>1, <4>1, <4>2, <4>3
        <3>3. QED
            BY <3>1, <3>2
    <2>2. CASE r = q
        BY <1>6, <1>7, <2>2
    <2>3. CASE r # p /\ r # q
        BY <1>6, <1>7, <2>3, ChainFacts
    <2>4. QED
        BY <2>1, <2>2, <2>3
\* An old entry other than x keeps its link and its marks.
<1>11. ASSUME NEW r \in Pool, NEW i \in Nat, ch[r][i] # NULL, ~(r = q /\ i = w - 1)
       PROVE  NextOf(c, k, ch[r][i]) = ch[r][i + 1] /\ FreeBytes(c, k, ch[r][i])
    <2>1. /\ ch[r][i] \in BasesOf(c)
          /\ NextOf(c, m, ch[r][i]) = ch[r][i + 1] /\ FreeBytes(c, m, ch[r][i])
        BY <1>11, ChainFacts
    <2>2. ch[r][i] # x
        <3> SUFFICES ASSUME ch[r][i] = ch[q][w - 1] PROVE FALSE
            BY <1>2
        <3>1. r = q /\ i = w - 1
            BY <1>2, <1>11, ChainsApart
        <3>2. QED
            BY <1>11, <3>1
    <2>3. SameBytes(c, k, m, ch[r][i])
        BY <2>1, <2>2
    <2>4. QED
        BY <2>1, <2>3, SameFreeItem
<1>12. ASSUME NEW r \in Pool, NEW i \in Nat, d[r][i] # NULL
       PROVE  NextOf(c, k, d[r][i]) = d[r][i + 1] /\ FreeBytes(c, k, d[r][i])
    <2>1. CASE r = p /\ i < w /\ d[r][i] = ch[q][i] /\ i # w - 1
        <3>1. i + 1 < w /\ i + 1 \in Nat
            BY <1>2, <2>1
        <3>2. d[r][i + 1] = ch[q][i + 1]
            BY <1>4, <1>6, <2>1, <3>1
        <3>3. QED
            BY <1>11, <1>12, <2>1, <3>2
    <2>2. CASE r = p /\ i < w /\ d[r][i] = ch[q][i] /\ i = w - 1
        <3>1. i + 1 = w /\ i + 1 \in Nat /\ (i + 1) - w = 0 /\ ~(i + 1 < w)
            BY <1>2, <2>2
        <3>2. d[r][i + 1] = ch[p][0]
            BY <1>4, <1>6, <2>2, <3>1
        <3>3. t[p] = ch[p][0] /\ d[r][i] = x
            BY <1>1, <1>2, <2>2
        <3>4. QED
            BY <3>2, <3>3
    <2>3. CASE r = p /\ ~(i < w) /\ i - w \in Nat /\ d[r][i] = ch[p][i - w]
        <3>1. ~(i + 1 < w) /\ i + 1 \in Nat /\ (i + 1) - w = (i - w) + 1
            BY <1>2, <2>3
        <3>2. d[r][i + 1] = ch[p][(i - w) + 1]
            BY <1>4, <1>6, <2>3, <3>1
        <3>3. QED
            BY <1>11, <1>12, <2>3, <3>2
    <2>4. CASE r # p /\ r # q /\ d[r][i] = ch[r][i]
        BY <1>6, <1>11, <1>12, <2>4
    <2>5. QED
        BY <1>9, <1>12, <2>1, <2>2, <2>3, <2>4
<1>13. ASSUME NEW r \in Pool, NEW u \in Pool, NEW i \in Nat, NEW j \in Nat,
              d[r][i] = d[u][j], d[r][i] # NULL
       PROVE  r = u /\ i = j
    <2> DEFINE a(v, y) == IF v = p /\ y < w THEN q ELSE v
               e(v, y) == IF v = p /\ ~(y < w) THEN y - w ELSE y
    <2>1. ASSUME NEW v \in Pool, NEW y \in Nat, d[v][y] # NULL
          PROVE  a(v, y) \in Pool /\ e(v, y) \in Nat /\ d[v][y] = ch[a(v, y)][e(v, y)] /\ v # q
        BY <1>9, <2>1
    <2>2. /\ a(r, i) \in Pool /\ e(r, i) \in Nat /\ d[r][i] = ch[a(r, i)][e(r, i)] /\ r # q
          /\ a(u, j) \in Pool /\ e(u, j) \in Nat /\ d[u][j] = ch[a(u, j)][e(u, j)] /\ u # q
        BY <1>13, <2>1
    <2> HIDE DEF a, e
    <2>3. ch[a(r, i)][e(r, i)] = ch[a(u, j)][e(u, j)] /\ ch[a(r, i)][e(r, i)] # NULL
        BY <1>13, <2>2
    <2>4. a(r, i) = a(u, j) /\ e(r, i) = e(u, j)
        BY <2>2, <2>3, ChainsApart
    <2>5. QED
        BY <1>2, <2>2, <2>4 DEF a, e
<1>14. ASSUME NEW r \in Pool, NEW i \in Nat
       PROVE  d[r][i] \notin B
    <2>1. CASE d[r][i] = NULL
        BY <1>1, <2>1, NullIsNoBase
    <2>2. CASE d[r][i] # NULL
        <3>1. CASE r = p /\ i < w /\ d[r][i] = ch[q][i]
            BY <3>1, ChainFacts
        <3>2. CASE r = p /\ ~(i < w) /\ i - w \in Nat /\ d[r][i] = ch[p][i - w]
            BY <3>2, ChainFacts
        <3>3. CASE r # p /\ r # q /\ d[r][i] = ch[r][i]
            BY <3>3, ChainFacts
        <3>4. QED
            BY <1>9, <2>2, <3>1, <3>2, <3>3
    <2>3. QED
        BY <2>1, <2>2
<1>15. ASSUME NEW b \in BasesOf(c), b \notin B
       PROVE  \E r \in Pool, i \in Nat : d[r][i] = b
    <2>1. PICK r \in Pool, j \in Nat : ch[r][j] = b
        BY <1>15 DEF FreeLists
    <2>2. b # NULL
        BY NullIsNoBase
    <2>3. CASE r = q
        <3>1. j < w
            BY <2>1, <2>2, <2>3, ChainFacts DEF w
        <3>2. d[p][j] = b
            BY <1>4, <1>6, <2>1, <2>3, <3>1
        <3>3. QED
            BY <3>2
    <2>4. CASE r = p
        <3>1. j + w \in Nat /\ ~(j + w < w) /\ (j + w) - w = j
            BY <1>2
        <3>2. d[p][j + w] = b
            BY <1>4, <1>6, <2>1, <2>4, <3>1
        <3>3. QED
            BY <3>1, <3>2
    <2>5. CASE r # p /\ r # q
        BY <1>6, <2>1, <2>5
    <2>6. QED
        BY <2>3, <2>4, <2>5
<1>16. FreeLists(c, k, tt, nn, B, d)
    BY <1>1, <1>5, <1>7, <1>8, <1>10, <1>12, <1>13, <1>14, <1>15 DEF FreeLists
<1>17. QED
    BY <1>16 DEF tt, nn

\* A list holds no more items than there are.
LEMMA ChainLength ==
    ASSUME NEW c, Layout(c), NEW m, NEW t, NEW n, NEW B, NEW ch,
           FreeLists(c, m, t, n, B, ch), NEW p \in Pool
    PROVE  /\ n[p] \in Nat /\ Cardinality(BasesOf(c)) \in Nat
           /\ n[p] <= Cardinality(BasesOf(c))
           /\ Cardinality({ch[p][i] : i \in 0..(n[p] - 1)}) = n[p]
           /\ {ch[p][i] : i \in 0..(n[p] - 1)} \subseteq BasesOf(c)
<1> DEFINE w == n[p]
           I == 0..(w - 1)
           T == {ch[p][i] : i \in I}
           f == [i \in I |-> ch[p][i]]
<1>1. w \in Nat
    BY DEF FreeLists
<1>2. IsFiniteSet(BasesOf(c)) /\ Cardinality(BasesOf(c)) \in Nat
    BY BasesFinite, FS_CardinalityType
<1> HIDE DEF w
<1>3. ASSUME NEW i \in I PROVE i \in Nat /\ ch[p][i] \in BasesOf(c) /\ ch[p][i] # NULL
    <2>1. i \in Nat /\ i < w
        BY <1>1
    <2>2. QED
        BY <2>1, ChainFacts DEF w
<1>4. T \subseteq BasesOf(c)
    BY <1>3
<1>5. \A i, j \in I : ch[p][i] = ch[p][j] => i = j
    <2>1. ASSUME NEW i \in I, NEW j \in I, ch[p][i] = ch[p][j] PROVE i = j
        BY <1>3, <2>1, ChainsApart
    <2>2. QED
        BY <2>1
<1>6. f \in Bijection(I, T)
    BY <1>5 DEF Bijection, Injection, Surjection, IsInjective
<1>7. IsFiniteSet(I) /\ Cardinality(I) = w
    <2>1. IsFiniteSet(I) /\ Cardinality(I) = IF 0 > w - 1 THEN 0 ELSE (w - 1) - 0 + 1
        BY <1>1, FS_Interval
    <2>2. QED
        BY <1>1, <2>1
<1> HIDE DEF I, f, T
<1>8. ExistsBijection(I, T)
    BY <1>6 DEF ExistsBijection
<1>9. Cardinality(T) = w
    BY <1>7, <1>8, FS_Bijection
<1>10. Cardinality(T) <= Cardinality(BasesOf(c))
    BY <1>2, <1>4, FS_Subset
<1>11. QED
    BY <1>1, <1>2, <1>4, <1>9, <1>10 DEF w, I, T

\* The chain that FreeChain follows through the memory is the list.
LEMMA FreeChainIs ==
    ASSUME Layout(pools), NEW n, NEW B, NEW ch, FreeLists(pools, mem, top, n, B, ch),
           NEW p \in Pool
    PROVE  /\ FreeChain(p) = [i \in 0..(Cardinality(Bases) + 1) |-> ch[p][i]]
           /\ FreeItems(p) = {ch[p][i] : i \in 0..(n[p] - 1)}
           /\ FreeChain(p)[n[p]] = NULL
<1> DEFINE K == Cardinality(Bases) + 1
           D == 0..K
           f == [i \in D |-> ch[p][i]]
           w == n[p]
           step(g) == [i \in D |->
                        IF i = 0 THEN top[p]
                        ELSE IF g[i - 1] \in Bases THEN GetNextFreeItem(mem, g[i - 1])
                        ELSE g[i - 1]]
<1>1. Bases = BasesOf(pools)
    BY DEF Bases, BasesOf
<1>2. w \in Nat /\ K \in Nat /\ w < K
    <2> DEFINE z == Cardinality(BasesOf(pools))
    <2>1. w \in Nat /\ z \in Nat /\ w <= z
        BY ChainLength
    <2>2. K = z + 1
        BY <1>1
    <2> HIDE DEF w, z, K
    <2>3. QED
        BY <2>1, <2>2
<1>3. NULL \notin Bases
    BY <1>1, NullIsNoBase
<1>4. FreeChain(p) = CHOOSE g : g = step(g)
    BY DEF FreeChain
<1> HIDE DEF K, w
<1>5. f = step(f)
    <2>1. ASSUME NEW i \in D
          PROVE  ch[p][i] = IF i = 0 THEN top[p]
                            ELSE IF f[i - 1] \in Bases THEN GetNextFreeItem(mem, f[i - 1])
                            ELSE f[i - 1]
        <3>1. CASE i = 0
            BY <3>1 DEF FreeLists
        <3>2. CASE i # 0
            <4>1. i - 1 \in D /\ i - 1 \in Nat /\ (i - 1) + 1 = i /\ i \in Nat
                BY <1>2, <3>2
            <4>2. f[i - 1] = ch[p][i - 1]
                BY <4>1
            <4> DEFINE j == i - 1
            <4> HIDE DEF f, j
            <4>3. j \in Nat /\ j + 1 = i
                BY <4>1 DEF j
            <4>4. /\ ch[p][j] \in Bases \cup {NULL}
                  /\ ch[p][j] # NULL => NextOf(pools, mem, ch[p][j]) = ch[p][j + 1]
                  /\ ch[p][j] # NULL <=> j < w
                  /\ ch[p][j + 1] # NULL <=> j + 1 < w
                BY <1>1, <4>3, ChainFacts DEF w
            <4>5. CASE ch[p][j] = NULL
                <5>1. ch[p][i] = NULL
                    BY <1>2, <4>3, <4>4, <4>5
                <5>2. QED
                    BY <1>3, <3>2, <4>2, <4>5, <5>1 DEF j
            <4>6. CASE ch[p][j] # NULL
                <5>1. ch[p][j] \in Bases /\ GetNextFreeItem(mem, ch[p][j]) = ch[p][i]
                    BY <4>3, <4>4, <4>6 DEF GetNextFreeItem, NextOf
                <5>2. QED
                    BY <3>2, <4>2, <5>1 DEF j
            <4>7. QED
                BY <4>5, <4>6
        <3>3. QED
            BY <3>1, <3>2
    <2>2. QED
        BY <2>1
<1>6. ASSUME NEW g, g = step(g) PROVE g = f
    <2> DEFINE S == {i \in Nat : i \in D => g[i] = f[i]}
    <2>1. \A i \in D : g[i] = IF i = 0 THEN top[p]
                              ELSE IF g[i - 1] \in Bases THEN GetNextFreeItem(mem, g[i - 1])
                              ELSE g[i - 1]
        BY <1>6
    <2>2. \A i \in D : f[i] = IF i = 0 THEN top[p]
                              ELSE IF f[i - 1] \in Bases THEN GetNextFreeItem(mem, f[i - 1])
                              ELSE f[i - 1]
        BY <1>5
    <2> HIDE DEF f
    <2>3. 0 \in S
        BY <2>1, <2>2
    <2>4. ASSUME NEW i \in Nat, i \in S PROVE i + 1 \in S
        <3> SUFFICES ASSUME i + 1 \in D PROVE g[i + 1] = f[i + 1]
            OBVIOUS
        <3>1. i \in D /\ (i + 1) - 1 = i /\ i + 1 # 0
            BY <1>2
        <3>2. g[i] = f[i]
            BY <2>4, <3>1
        <3>3. QED
            BY <2>1, <2>2, <3>1, <3>2
    <2> HIDE DEF S
    <2>5. Nat \subseteq S
        BY <2>3, <2>4, SetInduction
    <2>6. \A i \in D : g[i] = f[i]
        <3>1. D \subseteq Nat
            BY <1>2
        <3>2. QED
            BY <2>5, <3>1 DEF S
    <2>7. DOMAIN g = D /\ g = [i \in D |-> g[i]]
        BY <1>6
    <2>8. f = [i \in D |-> f[i]]
        BY DEF f
    <2>9. QED
        BY <2>6, <2>7, <2>8
<1> HIDE DEF f, step
<1>7. FreeChain(p) = f
    BY <1>4, <1>5, <1>6
<1>8. FreeChain(p)[n[p]] = NULL
    <2>1. w \in D /\ w \in Nat
        BY <1>2
    <2>2. ch[p][w] = NULL
        BY <1>2, <2>1, ChainFacts DEF w
    <2>3. QED
        BY <1>7, <2>1, <2>2 DEF f, w
<1>9. FreeItems(p) = {ch[p][i] : i \in 0..(w - 1)}
    <2>1. FreeItems(p) = {ch[p][i] : i \in D} \ {NULL}
        BY <1>7 DEF FreeItems, Range, f
    <2>2. \A i \in D : ch[p][i] # NULL <=> i \in 0..(w - 1)
        <3>1. ASSUME NEW i \in D PROVE ch[p][i] # NULL <=> i \in 0..(w - 1)
            <4>1. i \in Nat
                BY <1>2
            <4>2. ch[p][i] # NULL <=> i < w
                BY <4>1, ChainFacts DEF w
            <4>3. QED
                BY <1>2, <4>1, <4>2
        <3>2. QED
            BY <3>1
    <2>3. 0..(w - 1) \subseteq D
        BY <1>2
    <2>4. QED
        BY <2>1, <2>2, <2>3
<1>10. QED
    BY <1>7, <1>8, <1>9 DEF f, w, K

-----------------------------------------------------------------------------
(* The allocated items, and the memory outside the items.                   *)

OutRecord == [pool : Pool, pointer : Int, shadow : BOOLEAN]
BaseOf(c, x) == x.pointer - c.allocated.itemValueDiff
OutBasesOf(c, o) == {BaseOf(c, x) : x \in o}

OutItems(c, m, o) ==
    /\ o \subseteq OutRecord
    /\ \A x \in o :
        /\ BaseOf(c, x) \in BasesOf(c)
        /\ AllocatedBytes(c, m, BaseOf(c, x))
        /\ x.shadow => PointerSize < c.size /\ LoadPointer(m, x.pointer) = x.pool
    /\ \A x, y \in o : x.pointer = y.pointer => x = y

Outside(c, m) ==
    \A a \in Memory(c) :
        (\A b \in BasesOf(c) : a < b \/ a >= b + c.itemSize) => m[a] = Untouched

\* Addresses are numbers.
LEMMA MemoryType ==
    ASSUME NEW c, Layout(c), NEW a \in Memory(c)
    PROVE  a \in Int
<1>1. PICK p \in Pool : a \in Surroundings(c, p)
    BY DEF Memory
<1> DEFINE f == c.first[p]
           x == Amounts[p] * c.itemSize
<1>2. f \in Int /\ x \in Int
    BY Placement
<1>3. a \in (f - 16)..(f + x + 16)
    BY <1>1 DEF Surroundings, PoolBufferSize, Gap
<1> HIDE DEF f, x
<1>4. QED
    BY <1>2, <1>3

\* A write within an item leaves the memory outside the items alone.
LEMMA OutsidePut ==
    ASSUME NEW c, Layout(c), NEW m, DOMAIN m = Memory(c), Outside(c, m),
           NEW b \in BasesOf(c), NEW at \in Int, NEW bytes, Within(c, b, at, bytes)
    PROVE  Outside(c, Put(m, at, bytes))
<1>1. ASSUME NEW a \in Memory(c), \A x \in BasesOf(c) : a < x \/ a >= x + c.itemSize
      PROVE  Put(m, at, bytes)[a] = Untouched
    <2>1. a \in Int /\ (a < b \/ a >= b + c.itemSize)
        BY <1>1, MemoryType
    <2>2. Put(m, at, bytes)[a] = m[a]
        BY <2>1, PutElsewhere
    <2>3. m[a] = Untouched
        BY <1>1 DEF Outside
    <2>4. QED
        BY <2>2, <2>3
<1>2. QED
    BY <1>1 DEF Outside

\* Two allocated items have two addresses.
LEMMA OutApart ==
    ASSUME NEW c, Layout(c), NEW m, NEW o, OutItems(c, m, o),
           NEW x \in o, NEW y \in o, BaseOf(c, x) = BaseOf(c, y)
    PROVE  x = y
<1> DEFINE diff == c.allocated.itemValueDiff
           v == x.pointer
           w == y.pointer
<1>1. v \in Int /\ w \in Int
    BY DEF OutItems, OutRecord
<1>2. diff \in Int
    BY LayoutNumbers
<1>3. v - diff = w - diff
    BY DEF BaseOf
<1> HIDE DEF diff, v, w
<1>4. v = w
    BY <1>1, <1>2, <1>3
<1>5. QED
    BY <1>4 DEF OutItems, v, w

\* What is written into one item keeps the others.
LEMMA OutItemsCarry ==
    ASSUME NEW c, Layout(c), NEW m, NEW o, OutItems(c, m, o), NEW r \in SUBSET o,
           NEW x \in BasesOf(c),
           NEW k, \A b \in BasesOf(c) : b # x => SameBytes(c, k, m, b),
           \A y \in r : BaseOf(c, y) = x =>
                /\ AllocatedBytes(c, k, x)
                /\ y.shadow => LoadPointer(k, y.pointer) = y.pool
    PROVE  OutItems(c, k, r)
<1>1. ASSUME NEW y \in r
      PROVE  /\ BaseOf(c, y) \in BasesOf(c)
             /\ AllocatedBytes(c, k, BaseOf(c, y))
             /\ y.shadow => PointerSize < c.size /\ LoadPointer(k, y.pointer) = y.pool
    <2>1. /\ BaseOf(c, y) \in BasesOf(c) /\ AllocatedBytes(c, m, BaseOf(c, y))
          /\ y.shadow => PointerSize < c.size /\ LoadPointer(m, y.pointer) = y.pool
          /\ y.pointer \in Int
        BY DEF OutItems, OutRecord
    <2>2. CASE BaseOf(c, y) = x
        BY <2>1, <2>2
    <2>3. CASE BaseOf(c, y) # x
        <3>1. SameBytes(c, k, m, BaseOf(c, y))
            BY <2>1, <2>3
        <3>2. AllocatedBytes(c, k, BaseOf(c, y))
            BY <2>1, <3>1, SameAllocatedItem
        <3>3. BaseOf(c, y) + c.allocated.itemValueDiff = y.pointer
            <4> DEFINE v == y.pointer
                       diff == c.allocated.itemValueDiff
            <4>1. v \in Int /\ diff \in Int
                BY <2>1, LayoutNumbers
            <4> HIDE DEF v, diff
            <4>2. (v - diff) + diff = v
                BY <4>1
            <4>3. QED
                BY <4>2 DEF v, diff, BaseOf
        <3>4. ASSUME y.shadow PROVE LoadPointer(k, y.pointer) = LoadPointer(m, y.pointer)
            BY <2>1, <3>1, <3>3, <3>4, SameShadow
        <3>5. QED
            BY <2>1, <3>2, <3>4
    <2>4. QED
        BY <2>2, <2>3
<1>2. QED
    BY <1>1 DEF OutItems

\* An item taken from a free list joins the allocated ones.
LEMMA OutItemsAdd ==
    ASSUME NEW c, NEW m, NEW o, OutItems(c, m, o), NEW x \in OutRecord,
           BaseOf(c, x) \in BasesOf(c), BaseOf(c, x) \notin OutBasesOf(c, o),
           AllocatedBytes(c, m, BaseOf(c, x)),
           x.shadow => PointerSize < c.size /\ LoadPointer(m, x.pointer) = x.pool
    PROVE  /\ OutItems(c, m, o \cup {x})
           /\ OutBasesOf(c, o \cup {x}) = OutBasesOf(c, o) \cup {BaseOf(c, x)}
<1>1. ASSUME NEW y \in o PROVE y.pointer # x.pointer
    <2> SUFFICES ASSUME y.pointer = x.pointer PROVE FALSE
        OBVIOUS
    <2>1. BaseOf(c, y) = BaseOf(c, x)
        BY DEF BaseOf
    <2>2. QED
        BY <2>1 DEF OutBasesOf
<1>2. QED
    BY <1>1 DEF OutItems, OutBasesOf

\* An item that is returned leaves the allocated ones, and only it.
LEMMA OutBasesRemove ==
    ASSUME NEW c, Layout(c), NEW m, NEW o, OutItems(c, m, o), NEW x \in o
    PROVE  OutBasesOf(c, o \ {x}) = OutBasesOf(c, o) \ {BaseOf(c, x)}
<1>1. ASSUME NEW y \in o, y # x PROVE BaseOf(c, y) # BaseOf(c, x)
    BY <1>1, OutApart
<1>2. QED
    BY <1>1 DEF OutBasesOf

\* There are as many allocated items as addresses of allocated items.
LEMMA OutCount ==
    ASSUME NEW c, Layout(c), NEW m, NEW o, OutItems(c, m, o)
    PROVE  Cardinality(OutBasesOf(c, o)) = Cardinality(o)
<1> DEFINE B == OutBasesOf(c, o)
           f == [x \in o |-> BaseOf(c, x)]
<1>1. \A x, y \in o : BaseOf(c, x) = BaseOf(c, y) => x = y
    BY OutApart
<1>2. f \in Bijection(o, B)
    BY <1>1 DEF Bijection, Injection, Surjection, IsInjective, OutBasesOf
<1>3. B \subseteq BasesOf(c)
    BY DEF OutItems, OutBasesOf
<1> HIDE DEF B, f
<1>4. IsFiniteSet(B)
    BY <1>3, BasesFinite, FS_Subset
<1>5. f \in Injection(o, B)
    BY <1>2 DEF Bijection
<1>6. IsFiniteSet(o)
    BY <1>4, <1>5, FS_Injection
<1>7. ExistsBijection(o, B)
    BY <1>2 DEF ExistsBijection
<1>8. Cardinality(B) = Cardinality(o)
    BY <1>6, <1>7, FS_Bijection
<1>9. QED
    BY <1>8 DEF B

-----------------------------------------------------------------------------
(* The inductive invariant.                                                 *)

Statistics == [free : Nat, items : Int, inquiries : Int, denied : Int, max : Int]

FreeCounts == [p \in Pool |-> stat[p].free]

PoolInv ==
    /\ Layout(pools)
    /\ DOMAIN mem = Memory(pools)
    /\ stat \in [Pool -> Statistics]
    /\ OutItems(pools, mem, out)
    /\ Outside(pools, mem)
    /\ \E ch : FreeLists(pools, mem, top, FreeCounts, OutBasesOf(pools, out), ch)

\* The items of the module, and those of the lemmas.
LEMMA BasesSame == Bases = BasesOf(pools) /\ OutBases = OutBasesOf(pools, out)
BY DEF Bases, BasesOf, OutBases, OutBasesOf, GetItemBase, BaseOf

\* The chains of the invariant are the free lists, which are therefore sound.
LEMMA InvFreeListSound ==
    ASSUME PoolInv
    PROVE  FreeListSound
<1> DEFINE B == OutBasesOf(pools, out)
           n == FreeCounts
<1>1. PICK ch : FreeLists(pools, mem, top, n, B, ch)
    BY DEF PoolInv
<1>2. Layout(pools)
    BY DEF PoolInv
<1>3. \A p \in Pool : n[p] = stat[p].free
    BY DEF FreeCounts
<1>4. Bases = BasesOf(pools) /\ OutBases = B
    BY BasesSame
<1> HIDE DEF B, n
<1>5. ASSUME NEW p \in Pool
      PROVE  /\ FreeItems(p) = {ch[p][i] : i \in 0..(n[p] - 1)}
             /\ FreeChain(p)[n[p]] = NULL
             /\ Cardinality(FreeItems(p)) = n[p]
             /\ FreeItems(p) \subseteq Bases
             /\ n[p] \in Nat
    <2> DEFINE F == {ch[p][i] : i \in 0..(n[p] - 1)}
    <2>1. FreeItems(p) = F /\ FreeChain(p)[n[p]] = NULL
        BY <1>1, <1>2, FreeChainIs
    <2>2. n[p] \in Nat /\ Cardinality(F) = n[p] /\ F \subseteq BasesOf(pools)
        BY <1>1, <1>2, ChainLength
    <2>3. QED
        BY <1>4, <2>1, <2>2
<1>6. ASSUME NEW p \in Pool, NEW b \in FreeItems(p)
      PROVE  \E i \in Nat : b = ch[p][i] /\ ch[p][i] # NULL /\ ch[p][i] \notin B
    <2>1. PICK i \in 0..(n[p] - 1) : b = ch[p][i]
        BY <1>5
    <2>2. i \in Nat /\ i < n[p]
        BY <1>5
    <2>3. ch[p][i] # NULL /\ ch[p][i] \notin B
        BY <1>1, <2>2, ChainFacts
    <2>4. QED
        BY <2>1, <2>2, <2>3
<1>7. ASSUME NEW p \in Pool, NEW q \in Pool, p # q
      PROVE  FreeItems(p) \cap FreeItems(q) = {}
    <2> SUFFICES ASSUME NEW b \in FreeItems(p), b \in FreeItems(q) PROVE FALSE
        OBVIOUS
    <2>1. PICK i \in Nat : b = ch[p][i] /\ ch[p][i] # NULL
        BY <1>6
    <2>2. PICK j \in Nat : b = ch[q][j]
        BY <1>6
    <2>3. ch[p][i] = ch[q][j] /\ ch[p][i] # NULL
        BY <2>1, <2>2
    <2>4. p = q
        BY <1>1, <2>3, ChainsApart
    <2>5. QED
        BY <1>7, <2>4
<1>8. Bases = OutBases \cup UNION {FreeItems(p) : p \in Pool}
    <2>1. OutBases \subseteq Bases
        BY <1>1, <1>4 DEF FreeLists
    <2>2. ASSUME NEW b \in Bases, b \notin OutBases
          PROVE  \E p \in Pool : b \in FreeItems(p)
        <3>1. PICK p \in Pool, i \in Nat : ch[p][i] = b
            BY <1>1, <1>4, <2>2 DEF FreeLists
        <3>2. b # NULL
            BY <1>2, <1>4, NullIsNoBase
        <3>3. i < n[p]
            BY <1>1, <3>1, <3>2, ChainFacts
        <3>4. i \in 0..(n[p] - 1)
            BY <1>5, <3>3
        <3>5. QED
            BY <1>5, <3>1, <3>4
    <2>3. QED
        BY <1>5, <2>1, <2>2
<1>9. \A p \in Pool : OutBases \cap FreeItems(p) = {}
    BY <1>4, <1>6
<1>10. Cardinality(OutBases) = Cardinality(out)
    BY <1>4, OutCount DEF PoolInv, B
<1>11. QED
    BY <1>3, <1>5, <1>7, <1>8, <1>9, <1>10 DEF FreeListSound

\* The marks of the invariant are what the checks look for.
LEMMA InvItemsIntact ==
    ASSUME PoolInv
    PROVE  ItemsIntact
<1> DEFINE B == OutBasesOf(pools, out)
           n == FreeCounts
<1>1. PICK ch : FreeLists(pools, mem, top, n, B, ch)
    BY DEF PoolInv
<1>2. Layout(pools) /\ DOMAIN mem = Memory(pools) /\ OutItems(pools, mem, out)
    BY DEF PoolInv
<1>3. Bases = BasesOf(pools) /\ OutBases = B
    BY BasesSame
<1> HIDE DEF n
<1>4. ASSUME NEW p \in Pool, NEW b \in FreeItems(p) PROVE FreeCheck(b)
    <2>1. PICK i \in 0..(n[p] - 1) : b = ch[p][i]
        BY <1>1, <1>2, FreeChainIs
    <2>2. n[p] \in Nat
        BY <1>1 DEF FreeLists
    <2>3. i \in Nat /\ i < n[p]
        BY <2>2
    <2>4. b \in BasesOf(pools) /\ FreeBytes(pools, mem, b)
        BY <1>1, <2>1, <2>3, ChainFacts
    <2>5. isAlignedAddressFor(pools.step, b, pools.itemSize)
        BY <1>2, <2>4, BaseAligned
    <2>6. QED
        BY <2>4, <2>5 DEF FreeCheck, FreeBytes
<1>5. ASSUME NEW b \in OutBases PROVE AllocatedCheck(b)
    <2>1. b \in BasesOf(pools) /\ AllocatedBytes(pools, mem, b)
        BY <1>2, <1>3 DEF OutItems, OutBasesOf
    <2>2. isAlignedAddressFor(pools.step, b, pools.itemSize)
        BY <1>2, <2>1, BaseAligned
    <2>3. QED
        BY <2>1, <2>2 DEF AllocatedCheck, AllocatedBytes
<1>6. \A a \in DOMAIN mem :
            (\A b \in Bases : a < b \/ a >= b + pools.itemSize) => mem[a] = Untouched
    BY <1>2, <1>3 DEF PoolInv, Outside
<1>7. QED
    BY <1>4, <1>5, <1>6 DEF ItemsIntact

\* Every allocated item is aligned, and every object knows its pool.
LEMMA InvObjectsUsable ==
    ASSUME PoolInv
    PROVE  ObjectsUsable
<1>1. Layout(pools) /\ OutItems(pools, mem, out)
    BY DEF PoolInv
<1>2. ASSUME NEW o \in out
      PROVE  /\ isAlignedAddressFor(pools.step, o.pointer, pools.size)
             /\ o.shadow => LoadPointer(mem, o.pointer) = o.pool
    <2> DEFINE diff == pools.allocated.itemValueDiff
               v == o.pointer
    <2>1. /\ BaseOf(pools, o) \in BasesOf(pools) /\ v \in Int
          /\ o.shadow => LoadPointer(mem, o.pointer) = o.pool
        BY <1>1 DEF OutItems, OutRecord
    <2>2. diff \in Int
        BY <1>1, LayoutNumbers
    <2>3. BaseOf(pools, o) = v - diff
        BY DEF BaseOf
    <2>4. isAlignedAddressFor(pools.step, (v - diff) + diff, pools.size)
        BY <1>1, <2>1, <2>3, BaseAligned
    <2> HIDE DEF v, diff
    <2>5. (v - diff) + diff = v
        BY <2>1, <2>2
    <2>6. isAlignedAddressFor(pools.step, v, pools.size)
        BY <2>4, <2>5
    <2>7. QED
        BY <2>1, <2>6 DEF v
<1>3. QED
    BY <1>2 DEF ObjectsUsable

-----------------------------------------------------------------------------
(* The steps.                                                               *)

\* allocate, and New: for an object with its pool before it the value is larger
\* than a pointer.
LEMMA AllocateStep ==
    ASSUME PoolInv, NEW p \in Pool, NEW shadow \in BOOLEAN,
           shadow => PointerSize < pools.size, allocate(p, shadow)
    PROVE  PoolInv'
<1> DEFINE B == OutBasesOf(pools, out)
           n == FreeCounts
           diff == pools.allocated.itemValueDiff
<1>1. PICK ch : FreeLists(pools, mem, top, n, B, ch)
    BY DEF PoolInv
<1>2. /\ Layout(pools) /\ DOMAIN mem = Memory(pools) /\ stat \in [Pool -> Statistics]
      /\ OutItems(pools, mem, out) /\ Outside(pools, mem)
    BY DEF PoolInv
<1>3. pools' = pools
    BY DEF allocate
<1>4. /\ stat[p].inquiries \in Int /\ stat[p].denied \in Int /\ stat[p].max \in Int
      /\ stat[p].items \in Int /\ stat[p].free \in Nat /\ n[p] = stat[p].free
    BY <1>2 DEF Statistics, FreeCounts
<1>5. CASE top[p] = NULL
    <2> DEFINE a == stat[p].inquiries + 1
               d == stat[p].denied + 1
    <2>1. /\ stat' = [stat EXCEPT ![p].inquiries = a, ![p].denied = d]
          /\ mem' = mem /\ top' = top /\ out' = out
        BY <1>5 DEF allocate
    <2>2. a \in Int /\ d \in Int
        BY <1>4
    <2> HIDE DEF a, d
    <2>3. stat' \in [Pool -> Statistics] /\ \A q \in Pool : stat'[q].free = stat[q].free
        <3>1. stat \in [Pool -> Statistics]
            BY <1>2
        <3>2. stat' = [stat EXCEPT ![p].inquiries = a, ![p].denied = d]
            BY <2>1
        <3>3. QED
            BY <2>2, <3>1, <3>2 DEF Statistics
    <2>4. FreeCounts' = FreeCounts
        BY <2>3 DEF FreeCounts
    <2>5. QED
        BY <1>1, <1>2, <1>3, <2>1, <2>3, <2>4 DEF PoolInv
<1>6. CASE top[p] # NULL
    <2> DEFINE base == top[p]
               pointer == base + diff
               made == Put(mem, base, AllocatedItem(pools))
               noted == Put(made, pointer, PointerBytes(p))
               k == IF shadow THEN noted ELSE made
               x == [pool |-> p, pointer |-> pointer, shadow |-> shadow]
               a == stat[p].inquiries + 1
               f == stat[p].free - 1
               z == Max({stat[p].max, stat[p].items - (stat[p].free - 1)})
    <2>1. /\ top' = [top EXCEPT ![p] = NextOf(pools, mem, base)]
          /\ mem' = k /\ out' = out \cup {x}
          /\ stat' = [stat EXCEPT ![p].inquiries = a, ![p].free = f, ![p].max = z]
        BY <1>6, Zenon DEF allocate, GetAllocatedPointer, GetNextFreeItem, NextOf
    <2>2. base \in BasesOf(pools) /\ base \notin B /\ n[p] > 0
        BY <1>1, <1>6, FirstIsFree
    <2>3. base \in Int /\ diff \in Int
        BY <1>2, <2>2, BaseType, LayoutNumbers
    <2>4. /\ Within(pools, base, base, AllocatedItem(pools))
          /\ AllocatedBytes(pools, made, base)
        BY <1>2, <2>2, AllocatedItemPut
    <2>5. DOMAIN made = Memory(pools) /\ Outside(pools, made)
        BY <1>2, <2>2, <2>3, <2>4, PutResult, OutsidePut
    <2>6. \A b \in BasesOf(pools) : b # base => SameBytes(pools, made, mem, b)
        BY <1>2, <2>2, <2>3, <2>4, PutKeepsOthers
    <2> HIDE DEF made, base, a, f, z, n, B
    <2>7. ASSUME shadow
          PROVE  /\ DOMAIN noted = Memory(pools) /\ Outside(pools, noted)
                 /\ \A b \in BasesOf(pools) : b # base => SameBytes(pools, noted, made, b)
                 /\ AllocatedBytes(pools, noted, base)
                 /\ LoadPointer(noted, pointer) = p
        <3> DEFINE size == pools.size
                   w == pools.itemSize
                   bytes == PointerBytes(p)
        <3>1. DOMAIN bytes = 0..3
            BY DEF PointerBytes, PointerSize
        <3>2. size \in Int /\ size > 4
            BY <1>2, <2>7, LayoutNumbers DEF PointerSize
        <3>3. /\ diff \in Nat /\ w \in Nat /\ pools.allocated.endVoidsSize \in Nat
              /\ diff + size + pools.allocated.endVoidsSize <= w
            BY <1>2, LayoutNumbers
        <3> HIDE DEF bytes, size, diff, w
        <3>4. \A i \in DOMAIN bytes :
                    i \in Int /\ pointer + i \in (base + diff)..(base + diff + size - 1)
            BY <2>3, <3>1, <3>2
        <3>5. pointer \in Int
            BY <2>3
        <3>6. /\ Within(pools, base, pointer, bytes)
              /\ AllocatedBytes(pools, Put(made, pointer, bytes), base)
                    = AllocatedBytes(pools, made, base)
            BY <1>2, <2>2, <2>5, <3>4, <3>5, ValuePut DEF diff, size
        <3>7. LoadPointer(Put(made, pointer, bytes), pointer) = p
            <4>1. \A i \in 0..3 : pointer + i \in DOMAIN made
                <5>1. \A i \in 0..3 : pointer + i \in base..(base + w - 1)
                    BY <3>1, <3>6 DEF Within, w
                <5>2. QED
                    BY <1>2, <2>2, <2>5, <5>1, BaseInMemory DEF w
            <4>2. QED
                BY <3>5, <4>1, LoadPut DEF bytes
        <3>8. /\ DOMAIN Put(made, pointer, bytes) = Memory(pools)
              /\ Outside(pools, Put(made, pointer, bytes))
            BY <1>2, <2>2, <2>5, <3>5, <3>6, PutResult, OutsidePut
        <3>9. \A b \in BasesOf(pools) : b # base =>
                    SameBytes(pools, Put(made, pointer, bytes), made, b)
            BY <1>2, <2>2, <2>5, <3>5, <3>6, PutKeepsOthers
        <3>10. QED
            BY <2>4, <3>6, <3>7, <3>8, <3>9 DEF bytes, diff
    <2> HIDE DEF noted, diff
    <2>8. /\ DOMAIN k = Memory(pools) /\ Outside(pools, k)
          /\ \A b \in BasesOf(pools) : b # base => SameBytes(pools, k, mem, b)
          /\ AllocatedBytes(pools, k, base)
          /\ shadow => LoadPointer(k, pointer) = p
        <3>1. CASE shadow
            <4>1. \A b \in BasesOf(pools) : b # base => SameBytes(pools, noted, mem, b)
                BY <2>6, <2>7, <3>1 DEF SameBytes
            <4>2. QED
                BY <2>7, <3>1, <4>1
        <3>2. CASE ~shadow
            BY <2>4, <2>5, <2>6, <3>2
        <3>3. QED
            BY <3>1, <3>2
    <2> HIDE DEF k
    <2>9. x \in OutRecord
        BY <2>3 DEF OutRecord
    <2>10. BaseOf(pools, x) = base
        <3>1. (base + diff) - diff = base
            BY <2>3
        <3>2. QED
            BY <3>1 DEF BaseOf, diff
    <2>11. OutItems(pools, k, out)
        <3>1. \A y \in out : BaseOf(pools, y) # base
            BY <2>2 DEF OutBasesOf, B
        <3>2. QED
            BY <1>2, <2>2, <2>8, <3>1, OutItemsCarry
    <2>12. /\ OutItems(pools, k, out \cup {x})
           /\ OutBasesOf(pools, out \cup {x}) = B \cup {base}
        <3>1. x.shadow = shadow /\ x.pointer = pointer /\ x.pool = p
            OBVIOUS
        <3> HIDE DEF x
        <3>2. BaseOf(pools, x) \notin OutBasesOf(pools, out)
            BY <2>2, <2>10 DEF B
        <3>3. x.shadow => PointerSize < pools.size /\ LoadPointer(k, x.pointer) = x.pool
            BY <2>8, <3>1
        <3>4. /\ OutItems(pools, k, out \cup {x})
              /\ OutBasesOf(pools, out \cup {x}) = OutBasesOf(pools, out) \cup {BaseOf(pools, x)}
            BY <2>2, <2>8, <2>9, <2>10, <2>11, <3>2, <3>3, OutItemsAdd
        <3>5. QED
            BY <2>10, <3>4 DEF B
    <2>13. /\ stat' \in [Pool -> Statistics]
           /\ FreeCounts' = [n EXCEPT ![p] = n[p] - 1]
        <3>1. a \in Int /\ f \in Nat /\ f = n[p] - 1
            BY <1>4, <2>2 DEF a, f
        <3>2. z \in Int
            <4> DEFINE u == stat[p].max
                       v == stat[p].items - (stat[p].free - 1)
            <4>1. u \in Int /\ v \in Int
                BY <1>4
            <4> HIDE DEF u, v
            <4>2. Max({u, v}) \in Int
                BY <4>1, MaxOfTwo
            <4>3. QED
                BY <4>2 DEF u, v, z
        <3>3. /\ stat' \in [Pool -> Statistics]
              /\ \A q \in Pool : stat'[q].free = IF q = p THEN f ELSE stat[q].free
            <4>1. stat \in [Pool -> Statistics]
                BY <1>2
            <4>2. stat' = [stat EXCEPT ![p].inquiries = a, ![p].free = f, ![p].max = z]
                BY <2>1
            <4>3. QED
                BY <3>1, <3>2, <4>1, <4>2 DEF Statistics
        <3>4. n = [q \in Pool |-> stat[q].free]
            BY DEF n, FreeCounts
        <3>5. FreeCounts' = [q \in Pool |-> stat'[q].free]
            BY DEF FreeCounts
        <3>6. QED
            BY <3>1, <3>3, <3>4, <3>5
    <2>14. \E d : FreeLists(pools, k, top', FreeCounts', OutBasesOf(pools, out'), d)
        <3>1. FreeLists(pools, k, [top EXCEPT ![p] = NextOf(pools, mem, base)],
                        [n EXCEPT ![p] = n[p] - 1], B \cup {base},
                        [ch EXCEPT ![p] = [i \in Nat |-> ch[p][i + 1]]])
            BY <1>1, <1>2, <1>6, <2>8, FreeListsPop DEF base
        <3>2. QED
            BY <2>1, <2>12, <2>13, <3>1
    <2>15. QED
        BY <1>2, <1>3, <2>1, <2>8, <2>12, <2>13, <2>14 DEF PoolInv
<1>7. QED
    BY <1>5, <1>6

\* The address of an allocated item.
LEMMA OutAddress ==
    ASSUME NEW c, Layout(c), NEW m, NEW o, OutItems(c, m, o), NEW x \in o
    PROVE  /\ BaseOf(c, x) \in BasesOf(c) /\ BaseOf(c, x) \in OutBasesOf(c, o)
           /\ BaseOf(c, x) \in Int /\ x.pointer \in Int
           /\ BaseOf(c, x) + c.allocated.itemValueDiff = x.pointer
<1> DEFINE v == x.pointer
           diff == c.allocated.itemValueDiff
<1>1. BaseOf(c, x) \in BasesOf(c) /\ BaseOf(c, x) \in OutBasesOf(c, o) /\ v \in Int
    BY DEF OutItems, OutRecord, OutBasesOf
<1>2. diff \in Int
    BY LayoutNumbers
<1>3. BaseOf(c, x) = v - diff
    BY DEF BaseOf
<1> HIDE DEF v, diff
<1>4. (v - diff) + diff = v /\ v - diff \in Int
    BY <1>1, <1>2
<1>5. QED
    BY <1>1, <1>3, <1>4 DEF v, diff

\* deallocate: the item becomes the top of the list it is returned to.
LEMMA DeallocateStep ==
    ASSUME PoolInv, NEW p \in Pool, NEW o \in out, deallocate(p, o)
    PROVE  PoolInv'
<1> DEFINE B == OutBasesOf(pools, out)
           n == FreeCounts
           base == BaseOf(pools, o)
           item == FreeItem(pools, top[p])
           k == Put(mem, base, item)
           f == stat[p].free + 1
<1>1. PICK ch : FreeLists(pools, mem, top, n, B, ch)
    BY DEF PoolInv
<1>2. /\ Layout(pools) /\ DOMAIN mem = Memory(pools) /\ stat \in [Pool -> Statistics]
      /\ OutItems(pools, mem, out) /\ Outside(pools, mem)
    BY DEF PoolInv
<1>3. /\ pools' = pools /\ mem' = k /\ top' = [top EXCEPT ![p] = base]
      /\ stat' = [stat EXCEPT ![p].free = f] /\ out' = out \ {o}
    BY DEF deallocate, GetItemBase, BaseOf
<1>4. base \in BasesOf(pools) /\ base \in B /\ base \in Int
    BY <1>2, OutAddress
<1>5. Within(pools, base, base, item) /\ NextOf(pools, k, base) = top[p] /\ FreeBytes(pools, k, base)
    BY <1>2, <1>4, FreeItemPut
<1>6. DOMAIN k = Memory(pools) /\ Outside(pools, k)
    BY <1>2, <1>4, <1>5, PutResult, OutsidePut
<1>7. \A b \in BasesOf(pools) : b # base => SameBytes(pools, k, mem, b)
    BY <1>2, <1>4, <1>5, PutKeepsOthers
<1>8. OutBasesOf(pools, out \ {o}) = B \ {base}
    BY <1>2, OutBasesRemove
<1>9. OutItems(pools, k, out \ {o})
    <2>1. \A y \in out \ {o} : BaseOf(pools, y) # base
        BY <1>2, OutApart
    <2>2. out \ {o} \in SUBSET out
        OBVIOUS
    <2> HIDE DEF k, base
    <2>3. QED
        BY <1>2, <1>4, <1>7, <2>1, <2>2, OutItemsCarry
<1> HIDE DEF k, B, base, item
<1>10. stat' \in [Pool -> Statistics] /\ FreeCounts' = [n EXCEPT ![p] = n[p] + 1]
    <2>1. f \in Nat /\ f = n[p] + 1
        BY <1>2 DEF Statistics, FreeCounts
    <2>2. n = [q \in Pool |-> stat[q].free] /\ FreeCounts' = [q \in Pool |-> stat'[q].free]
        BY DEF FreeCounts
    <2> HIDE DEF f, n
    <2>3. /\ stat' \in [Pool -> Statistics]
          /\ \A q \in Pool : stat'[q].free = IF q = p THEN f ELSE stat[q].free
        <3>1. stat \in [Pool -> Statistics] /\ stat' = [stat EXCEPT ![p].free = f] /\ f \in Nat
            BY <1>2, <1>3, <2>1
        <3>2. QED
            BY <3>1 DEF Statistics
    <2>4. QED
        BY <2>1, <2>2, <2>3
<1> HIDE DEF n
<1>11. FreeLists(pools, k, [top EXCEPT ![p] = base], [n EXCEPT ![p] = n[p] + 1], B \ {base},
                 [ch EXCEPT ![p] = [i \in Nat |-> IF i = 0 THEN base ELSE ch[p][i - 1]]])
    BY <1>1, <1>2, <1>4, <1>5, <1>7, FreeListsPush
<1>12. \E d : FreeLists(pools, k, top', FreeCounts', OutBasesOf(pools, out'), d)
    BY <1>3, <1>8, <1>10, <1>11
<1>13. QED
    BY <1>2, <1>3, <1>6, <1>9, <1>10, <1>12 DEF PoolInv

\* The client writes: only the value of one allocated item changes.
LEMMA WriteStep ==
    ASSUME PoolInv, NEW o \in out, Write(o)
    PROVE  PoolInv'
<1> DEFINE B == OutBasesOf(pools, out)
           n == FreeCounts
           base == BaseOf(pools, o)
           diff == pools.allocated.itemValueDiff
           size == pools.size
           shadow == IF o.shadow THEN 4 ELSE 0
           pointer == o.pointer
           at == pointer + shadow
           bytes == [i \in 0..(size - shadow - 1) |-> UserByte]
           k == Put(mem, at, bytes)
<1>1. PICK ch : FreeLists(pools, mem, top, n, B, ch)
    BY DEF PoolInv
<1>2. /\ Layout(pools) /\ DOMAIN mem = Memory(pools) /\ stat \in [Pool -> Statistics]
      /\ OutItems(pools, mem, out) /\ Outside(pools, mem)
    BY DEF PoolInv
<1>3. pools' = pools /\ mem' = k /\ top' = top /\ stat' = stat /\ out' = out
    BY DEF Write, PointerSize
<1>4. /\ base \in BasesOf(pools) /\ base \in B /\ base \in Int
      /\ pointer \in Int /\ base + diff = pointer
    BY <1>2, OutAddress
<1>5. size \in Nat \ {0} /\ diff \in Nat
    BY <1>2, LayoutNumbers
<1>6. shadow \in {0, 4}
    OBVIOUS
<1>7. AllocatedBytes(pools, mem, base) /\ (o.shadow => LoadPointer(mem, pointer) = o.pool)
    BY <1>2 DEF OutItems
<1>8. DOMAIN bytes = 0..(size - shadow - 1)
    OBVIOUS
<1> HIDE DEF k, B, n, base, diff, size, pointer, bytes
<1>9. \A i \in DOMAIN bytes :
            i \in Int /\ at + i \in (base + diff)..(base + diff + size - 1)
    <2> HIDE DEF shadow
    <2>1. QED
        BY <1>4, <1>5, <1>6, <1>8
<1>10. at \in Int
    BY <1>4, <1>6
<1>11. \A i \in 0..3 : o.shadow => (pointer + i) - at \notin DOMAIN bytes
    BY <1>4, <1>5, <1>8
<1> HIDE DEF at, shadow
<1>12. /\ Within(pools, base, at, bytes)
       /\ AllocatedBytes(pools, k, base) = AllocatedBytes(pools, mem, base)
    BY <1>2, <1>4, <1>9, <1>10, ValuePut DEF k, diff, size
<1>13. DOMAIN k = Memory(pools) /\ Outside(pools, k)
    BY <1>2, <1>4, <1>10, <1>12, PutResult, OutsidePut DEF k
<1>14. \A b \in BasesOf(pools) : b # base => SameBytes(pools, k, mem, b)
    BY <1>2, <1>4, <1>10, <1>12, PutKeepsOthers DEF k
<1>15. ASSUME o.shadow PROVE LoadPointer(k, pointer) = o.pool
    <2> DEFINE w == pools.itemSize
               voids == pools.allocated.endVoidsSize
    <2>1. /\ w \in Nat /\ voids \in Nat /\ diff + size + voids <= w /\ size > 4
        <3>1. size > 4
            BY <1>2, <1>15 DEF OutItems, PointerSize, size
        <3>2. QED
            BY <1>2, <3>1, LayoutNumbers DEF size, diff
    <2> HIDE DEF w, voids
    <2>2. \A i \in 0..3 : pointer + i \in base..(base + w - 1)
        BY <1>4, <1>5, <2>1
    <2>3. \A i \in 0..3 : pointer + i \in DOMAIN mem
        BY <1>2, <1>4, <2>2, BaseInMemory DEF w
    <2>4. \A i \in 0..3 : k[pointer + i] = mem[pointer + i]
        BY <1>11, <1>15, <2>3, PutResult DEF k
    <2>5. LoadPointer(k, pointer) = LoadPointer(mem, pointer)
        BY <1>4, <2>4, LoadSame
    <2>6. QED
        BY <1>7, <1>15, <2>5
<1>16. OutItems(pools, k, out)
    <2>1. ASSUME NEW y \in out, BaseOf(pools, y) = base
          PROVE  AllocatedBytes(pools, k, base) /\ (y.shadow => LoadPointer(k, y.pointer) = y.pool)
        <3>1. y = o
            BY <1>2, <2>1, OutApart DEF base
        <3>2. QED
            BY <1>7, <1>12, <1>15, <3>1 DEF pointer
    <2>2. QED
        BY <1>2, <1>4, <1>14, <2>1, OutItemsCarry
<1>17. FreeLists(pools, k, top, n, B, ch)
    BY <1>1, <1>2, <1>4, <1>14, FreeListsKeep
<1>18. FreeCounts' = n
    BY <1>3 DEF n, FreeCounts
<1>19. QED
    BY <1>2, <1>3, <1>13, <1>16, <1>17, <1>18 DEF PoolInv, B

\* The item whose link is NULL, which transferFreeItems looks for, is the last.
LEMMA TransferStep ==
    ASSUME PoolInv, NEW p \in Pool, NEW q \in Pool, transferFreeItems(p, q)
    PROVE  PoolInv'
<1> DEFINE B == OutBasesOf(pools, out)
           n == FreeCounts
           f == stat[p].free + stat[q].free
           x == stat[p].items + stat[q].free
           g == 0
           y == stat[q].items - stat[q].free
<1>1. PICK ch : FreeLists(pools, mem, top, n, B, ch)
    BY DEF PoolInv
<1>2. /\ Layout(pools) /\ DOMAIN mem = Memory(pools) /\ stat \in [Pool -> Statistics]
      /\ OutItems(pools, mem, out) /\ Outside(pools, mem)
    BY DEF PoolInv
<1>3. /\ pools' = pools /\ out' = out /\ p # q
      /\ stat' = [stat EXCEPT ![p].free = f, ![p].items = x, ![q].free = g, ![q].items = y]
    BY DEF transferFreeItems
<1>4. /\ f \in Nat /\ x \in Int /\ g \in Nat /\ y \in Int
      /\ f = n[p] + n[q] /\ n[p] \in Nat /\ n[q] \in Nat
    BY <1>2 DEF Statistics, FreeCounts
<1>5. n = [r \in Pool |-> stat[r].free] /\ FreeCounts' = [r \in Pool |-> stat'[r].free]
    BY DEF FreeCounts
<1> HIDE DEF n, B, f, x, g, y
<1>6. /\ stat' \in [Pool -> Statistics]
      /\ \A r \in Pool : stat'[r].free = IF r = p THEN f ELSE IF r = q THEN g ELSE stat[r].free
    <2> DEFINE one == [stat EXCEPT ![p].free = f, ![p].items = x]
               two == [one EXCEPT ![q].free = g, ![q].items = y]
    <2>1. stat \in [Pool -> Statistics] /\ f \in Nat /\ x \in Int /\ g \in Nat /\ y \in Int
        BY <1>2, <1>4
    <2>2. /\ one \in [Pool -> Statistics]
          /\ \A r \in Pool : one[r].free = IF r = p THEN f ELSE stat[r].free
        BY <2>1 DEF Statistics
    <2>3. stat' = two
        BY <1>3
    <2> HIDE DEF one
    <2>4. /\ two \in [Pool -> Statistics]
          /\ \A r \in Pool : two[r].free = IF r = q THEN g ELSE one[r].free
        BY <2>1, <2>2 DEF Statistics
    <2> HIDE DEF two
    <2>5. QED
        BY <1>3, <2>2, <2>3, <2>4
<1>7. FreeCounts' = [n EXCEPT ![p] = n[p] + n[q], ![q] = 0]
    BY <1>3, <1>4, <1>5, <1>6 DEF g
<1>8. CASE top[q] = NULL
    <2>1. mem' = mem /\ top' = top
        BY <1>8 DEF transferFreeItems
    <2>2. n[q] = 0
        <3>1. 0 \in Nat
            OBVIOUS
        <3>2. top[q] = ch[q][0] /\ (ch[q][0] # NULL <=> 0 < n[q])
            BY <1>1, <3>1, ChainFacts
        <3>3. QED
            BY <1>4, <1>8, <3>2
    <2>3. FreeCounts' = n
        <3>1. \A r \in Pool : n[r] = stat[r].free
            BY <1>5
        <3>2. \A r \in Pool : stat'[r].free = stat[r].free
            BY <1>4, <1>6, <2>2, <3>1 DEF g
        <3>3. QED
            BY <1>5, <3>2
    <2>4. QED
        BY <1>1, <1>2, <1>3, <1>6, <2>1, <2>3 DEF PoolInv, B
<1>9. CASE top[q] # NULL
    <2>1. PICK last \in FreeItems(q) :
                /\ GetNextFreeItem(mem, last) = NULL
                /\ mem' = SetNextFreeItem(mem, last, top[p])
                /\ top' = [top EXCEPT ![p] = top[q], ![q] = NULL]
        BY <1>9 DEF transferFreeItems
    <2> DEFINE at == last + NextItemOffset(pools)
               bytes == PointerBytes(top[p])
               k == Put(mem, at, bytes)
               w == n[q]
    <2>2. mem' = k /\ NextOf(pools, mem, last) = NULL
        BY <2>1 DEF SetNextFreeItem, GetNextFreeItem, NextOf
    <2>3. PICK i \in 0..(w - 1) : last = ch[q][i]
        BY <1>1, <1>2, FreeChainIs
    <2>4. i \in Nat /\ i < w /\ w \in Nat
        BY <1>4
    <2>5. /\ last \in BasesOf(pools) /\ last \notin B
          /\ NextOf(pools, mem, last) = ch[q][i + 1] /\ FreeBytes(pools, mem, last)
        BY <1>1, <2>3, <2>4, ChainFacts
    <2> HIDE DEF w, k, at, bytes
    <2>6. i = w - 1
        <3>1. i + 1 \in Nat /\ ch[q][i + 1] = NULL
            BY <2>2, <2>4, <2>5
        <3>2. ~(i + 1 < n[q])
            BY <1>1, <3>1, ChainFacts
        <3>3. QED
            BY <2>4, <3>2 DEF w
    <2>7. /\ Within(pools, last, at, bytes)
          /\ NextOf(pools, k, last) = top[p]
          /\ FreeBytes(pools, k, last)
        BY <1>2, <2>5, LinkPut DEF k, at, bytes
    <2>8. at \in Int
        <3>1. last \in Nat /\ NextItemOffset(pools) \in Nat
            BY <1>2, <2>5, BaseType, LayoutNumbers
        <3>2. QED
            BY <3>1 DEF at
    <2>9. DOMAIN k = Memory(pools) /\ Outside(pools, k)
        BY <1>2, <2>5, <2>7, <2>8, PutResult, OutsidePut DEF k
    <2>10. \A b \in BasesOf(pools) : b # last => SameBytes(pools, k, mem, b)
        BY <1>2, <2>5, <2>7, <2>8, PutKeepsOthers DEF k
    <2>11. OutItems(pools, k, out)
        <3>1. \A z \in out : BaseOf(pools, z) # last
            BY <2>5 DEF OutBasesOf, B
        <3>2. QED
            BY <1>2, <2>5, <2>10, <3>1, OutItemsCarry
    <2>12. n[q] > 0 /\ last = ch[q][n[q] - 1]
        BY <2>3, <2>4, <2>6 DEF w
    <2>13. \E d : FreeLists(pools, k, [top EXCEPT ![p] = top[q], ![q] = NULL],
                           [n EXCEPT ![p] = n[p] + n[q], ![q] = 0], B, d)
        BY <1>1, <1>2, <1>3, <2>7, <2>10, <2>12, FreeListsMove
    <2>14. \E d : FreeLists(pools, k, top', FreeCounts', B, d)
        BY <1>7, <2>1, <2>13
    <2>15. QED
        BY <1>2, <1>3, <1>6, <2>2, <2>9, <2>11, <2>14 DEF PoolInv, B
<1>10. QED
    BY <1>8, <1>9

\* Every step of a client, and the steps that change nothing.
LEMMA ClientStep ==
    ASSUME PoolInv, [ClientNext]_vars
    PROVE  PoolInv'
<1>1. CASE UNCHANGED vars
    <2>1. pools' = pools /\ mem' = mem /\ top' = top /\ stat' = stat /\ out' = out
        BY <1>1 DEF vars
    <2>2. FreeCounts' = FreeCounts
        BY <2>1 DEF FreeCounts
    <2>3. QED
        BY <2>1, <2>2 DEF PoolInv
<1>2. ASSUME NEW p \in Pool, allocate(p, FALSE) PROVE PoolInv'
    BY <1>2, AllocateStep
<1>3. ASSUME NEW p \in Pool, New(p, 1) PROVE PoolInv'
    <2>1. allocate(p, TRUE) /\ PointerSize + Max({1, 1}) <= pools.size
        BY <1>3 DEF New
    <2>2. Max({1, 1}) = 1
        BY MaxOfTwo
    <2> DEFINE size == pools.size
    <2>3. size \in Nat
        BY LayoutNumbers DEF PoolInv
    <2>4. 4 + 1 <= size
        BY <2>1, <2>2 DEF PointerSize
    <2> HIDE DEF size
    <2>5. 4 < size
        BY <2>3, <2>4
    <2>6. QED
        BY <2>1, <2>5, AllocateStep DEF size, PointerSize
<1>4. ASSUME NEW o \in out, Write(o) PROVE PoolInv'
    BY <1>4, WriteStep
<1>5. ASSUME NEW o \in out, Delete(o) PROVE PoolInv'
    <2>1. LoadPointer(mem, o.pointer) \in Pool /\ deallocate(LoadPointer(mem, o.pointer), o)
        BY <1>5 DEF Delete
    <2>2. QED
        BY <2>1, DeallocateStep
<1>6. ASSUME NEW o \in out, NEW p \in Pool, deallocate(p, o) PROVE PoolInv'
    BY <1>6, DeallocateStep
<1>7. ASSUME NEW p \in Pool, NEW q \in Pool, transferFreeItems(p, q) PROVE PoolInv'
    BY <1>7, TransferStep
<1>8. QED
    BY <1>1, <1>2, <1>3, <1>4, <1>5, <1>6, <1>7 DEF ClientNext

-----------------------------------------------------------------------------
(* The new pools.                                                           *)

\* The j-th item of a buffer.
Item(c, p, j) == c.first[p] + j * c.itemSize

\* The item a new item is linked to.
Previous(c, b) ==
    IF b - c.itemSize \in BasesOf(c) /\ b \notin Range(c.first) THEN b - c.itemSize ELSE NULL

\* An item of a buffer is an item.
LEMMA ItemIsBase ==
    ASSUME NEW c, NEW p \in Pool, NEW j \in 0..(Amounts[p] - 1)
    PROVE  Item(c, p, j) \in ItemBases(c, p) /\ Item(c, p, j) \in BasesOf(c)
BY DEF Item, ItemBases, BasesOf

\* Two items of the buffers are at different addresses.
LEMMA ItemsApart ==
    ASSUME NEW c, Layout(c), NEW p \in Pool, NEW q \in Pool,
           NEW i \in 0..(Amounts[p] - 1), NEW j \in 0..(Amounts[q] - 1),
           Item(c, p, i) = Item(c, q, j)
    PROVE  p = q /\ i = j
<1> DEFINE n == c.itemSize
           f == c.first[p]
           g == c.first[q]
           x == f + Amounts[p] * n
           y == g + Amounts[q] * n
           a == Item(c, p, i)
<1>1. /\ n \in Nat \ {0} /\ f \in Nat /\ g \in Nat
      /\ Amounts[p] \in Nat /\ Amounts[q] \in Nat /\ x \in Int /\ y \in Int
    BY Placement
<1>2. a \in Nat /\ f <= a /\ a + n <= x
    BY ItemInBuffer DEF Item
<1>3. g <= a /\ a + n <= y
    BY ItemInBuffer DEF Item
<1>4. p # q => x <= g \/ y <= f
    BY Placement
<1>5. a = f + i * n /\ a = g + j * n
    BY DEF Item
<1>6. i \in Nat /\ j \in Nat
    BY <1>1
<1> HIDE DEF n, x, y, a
<1>7. p = q
    <2> HIDE DEF f, g
    <2>1. QED
        BY <1>1, <1>2, <1>3, <1>4
<1>8. f = g
    BY <1>7
<1> HIDE DEF f, g
<1>9. i * n \in Nat /\ j * n \in Nat /\ i * n = j * n
    <2> DEFINE u == i * n
               v == j * n
    <2>1. u \in Nat /\ v \in Nat
        BY <1>1, <1>6
    <2>2. a = f + u /\ a = f + v
        BY <1>5, <1>8
    <2> HIDE DEF u, v
    <2>3. u = v
        BY <1>1, <2>1, <2>2
    <2>4. QED
        BY <2>1, <2>3 DEF u, v
<1>10. ~(i < j) /\ ~(j < i)
    <2> DEFINE u == i * n
               v == j * n
    <2>1. (i < j => u + n <= v) /\ (j < i => v + n <= u)
        BY <1>1, <1>6, ProductInOrder
    <2>2. u = v /\ u \in Nat
        BY <1>9
    <2> HIDE DEF u, v
    <2>3. QED
        BY <1>1, <2>1, <2>2
<1>11. QED
    BY <1>6, <1>7, <1>10

\* An item is linked to the one before it in its buffer, the first to none.
LEMMA PreviousItem ==
    ASSUME NEW c, Layout(c), NEW p \in Pool, NEW j \in 0..(Amounts[p] - 1)
    PROVE  Previous(c, Item(c, p, j)) = IF j = 0 THEN NULL ELSE Item(c, p, j - 1)
<1>1. \A q \in Pool : Amounts[q] \in Nat \ {0} /\ c.first[q] \in Nat
    BY Placement
<1>2. DOMAIN c.first = Pool
    BY PlacementAssumption DEF Layout
<1>3. \A q \in Pool : c.first[q] = Item(c, q, 0) /\ 0 \in 0..(Amounts[q] - 1)
    <2>1. ASSUME NEW q \in Pool PROVE c.first[q] = Item(c, q, 0) /\ 0 \in 0..(Amounts[q] - 1)
        <3> DEFINE f == c.first[q]
                   n == c.itemSize
        <3>1. f \in Nat /\ n \in Nat
            BY Placement
        <3>2. Item(c, q, 0) = f + 0 * n
            BY DEF Item
        <3> HIDE DEF f, n
        <3>3. Item(c, q, 0) = f
            BY <3>1, <3>2
        <3>4. QED
            BY <1>1, <3>3 DEF f
    <2>2. QED
        BY <2>1
<1>4. CASE j = 0
    <2>1. Item(c, p, j) \in Range(c.first)
        BY <1>2, <1>3, <1>4 DEF Range
    <2>2. QED
        BY <1>4, <2>1 DEF Previous
<1>5. CASE j # 0
    <2>1. Item(c, p, j) \notin Range(c.first)
        <3> SUFFICES ASSUME NEW q \in Pool, Item(c, p, j) = Item(c, q, 0) PROVE FALSE
            BY <1>2, <1>3 DEF Range
        <3>1. j = 0
            BY <1>3, ItemsApart
        <3>2. QED
            BY <1>5, <3>1
    <2>2. j - 1 \in 0..(Amounts[p] - 1)
        BY <1>1, <1>5
    <2>3. Item(c, p, j) - c.itemSize = Item(c, p, j - 1)
        <3> DEFINE f == c.first[p]
                   n == c.itemSize
        <3>1. f \in Nat /\ n \in Nat /\ j \in Int
            BY Placement
        <3>2. Item(c, p, j) = f + j * n /\ Item(c, p, j - 1) = f + (j - 1) * n
            BY DEF Item
        <3> HIDE DEF f, n
        <3>3. (f + j * n) - n = f + (j - 1) * n
            <4>1. (j - 1) * n = j * n - n
                BY <3>1
            <4> DEFINE u == j * n
            <4>2. u \in Int
                BY <3>1
            <4> HIDE DEF u
            <4>3. (f + u) - n = f + (u - n)
                BY <3>1, <4>2
            <4>4. QED
                BY <4>1, <4>3 DEF u
        <3>4. QED
            BY <3>2, <3>3 DEF n
    <2>4. Item(c, p, j - 1) \in BasesOf(c)
        BY <2>2, ItemIsBase
    <2>5. QED
        BY <1>5, <2>1, <2>3, <2>4 DEF Previous
<1>6. QED
    BY <1>4, <1>5

\* The top of a new pool is its last item.
LEMMA LastItem ==
    ASSUME NEW c, Layout(c), NEW p \in Pool
    PROVE  Max(ItemBases(c, p)) = Item(c, p, Amounts[p] - 1)
<1> DEFINE k == Amounts[p] - 1
           l == Item(c, p, k)
           n == c.itemSize
           f == c.first[p]
<1>1. k \in Nat /\ k \in 0..(Amounts[p] - 1) /\ n \in Nat /\ f \in Nat /\ Amounts[p] \in Nat
    BY Placement
<1>2. l \in ItemBases(c, p)
    BY <1>1, ItemIsBase
<1>3. ASSUME NEW b \in ItemBases(c, p) PROVE b \in Int /\ l \in Int /\ l >= b
    <2>1. PICK i \in 0..(Amounts[p] - 1) : b = f + i * n
        BY DEF ItemBases
    <2> DEFINE u == i * n
               v == k * n
    <2>2. i \in Nat /\ i <= k
        BY <1>1
    <2>3. l = f + v
        BY DEF Item
    <2> HIDE DEF k, l, n, f
    <2>4. u \in Int /\ v \in Int /\ u <= v
        <3>1. CASE i = k
            BY <1>1, <3>1
        <3>2. CASE i < k
            <4>1. u \in Nat /\ v \in Nat /\ u + n <= v
                BY <1>1, <2>2, <3>2, ProductInOrder
            <4> HIDE DEF u, v
            <4>2. QED
                BY <1>1, <4>1
        <3>3. QED
            BY <1>1, <2>2, <3>1, <3>2
    <2>5. b = f + u
        BY <2>1
    <2> HIDE DEF u, v
    <2>6. QED
        BY <1>1, <2>3, <2>4, <2>5
<1> HIDE DEF l
<1>4. \A x \in ItemBases(c, p) : (\A b \in ItemBases(c, p) : x >= b) => x = l
    BY <1>2, <1>3
<1>5. QED
    BY <1>2, <1>3, <1>4 DEF Max, l

\* The items of which a byte of new memory is a part.
Owner(c, a) == {b \in BasesOf(c) : (a - b) \in DOMAIN FreeItem(c, NULL)}

\* What a byte of new memory is.
LEMMA NewMemoryByte ==
    ASSUME NEW c
    PROVE  /\ DOMAIN NewMemory(c) = Memory(c)
           /\ \A a \in Memory(c) : NewMemory(c)[a] =
                IF Owner(c, a) = {} THEN Untouched
                ELSE FreeItem(c, Previous(c, Max(Owner(c, a))))[a - Max(Owner(c, a))]
BY DEF NewMemory, Memory, Owner, BasesOf, Previous

\* A free item does not reach beyond its own bytes.
LEMMA FreeItemWithin ==
    ASSUME NEW c, Layout(c), NEW i \in DOMAIN FreeItem(c, NULL)
    PROVE  i \in Nat /\ i < c.itemSize
<1> DEFINE n == c.itemSize
           k == IF Checked(c) THEN n ELSE 4
           off == NextItemOffset(c)
           voids == c.free.endVoidsSize
<1>1. n \in Nat /\ voids \in Nat /\ off + 4 + voids = n /\ off = IF Checked(c) THEN 4 ELSE 0
    BY LayoutNumbers
<1>2. i \in 0..(k - 1)
    <2>1. DOMAIN FreeItem(c, NULL) = 0..((IF Checked(c) THEN c.itemSize ELSE 4) - 1)
        BY FreeItemBytes
    <2>2. QED
        BY <2>1
<1> HIDE DEF n, off, voids
<1>3. k \in Nat /\ k <= n
    BY <1>1
<1> HIDE DEF k
<1>4. QED
    BY <1>1, <1>2, <1>3 DEF n

\* New memory holds a free item, linked to the one before it, at every base.
LEMMA NewItem ==
    ASSUME NEW c, Layout(c), NEW b \in BasesOf(c)
    PROVE  /\ NextOf(c, NewMemory(c), b) = Previous(c, b)
           /\ FreeBytes(c, NewMemory(c), b)
<1> DEFINE item == FreeItem(c, Previous(c, b))
           n == c.itemSize
           m == NewMemory(c)
<1>1. DOMAIN item = DOMAIN FreeItem(c, NULL)
    BY FreeItemBytes
<1>2. ASSUME NEW i \in DOMAIN item PROVE m[b + i] = item[i]
    <2>1. i \in Nat /\ i < n /\ n \in Nat /\ b \in Nat
        BY <1>1, FreeItemWithin, LayoutNumbers, BaseType
    <2> DEFINE a == b + i
    <2>2. a \in Int /\ a \in b..(b + n - 1) /\ a - b = i
        <3> HIDE DEF n
        <3>1. QED
            BY <2>1
    <2>3. a \in Memory(c)
        BY <2>2, BaseInMemory
    <2> HIDE DEF a
    <2>4. b \in Owner(c, a)
        BY <1>1, <2>2 DEF Owner
    <2>5. ASSUME NEW d \in Owner(c, a) PROVE d = b
        <3>1. d \in BasesOf(c) /\ (a - d) \in DOMAIN FreeItem(c, NULL)
            BY DEF Owner
        <3>2. d \in Nat /\ a - d \in Nat /\ a - d < n
            BY <3>1, BaseType, FreeItemWithin
        <3>3. d # b => d + n <= b \/ b + n <= d
            BY <3>1, BasesApart
        <3> HIDE DEF n
        <3>4. QED
            BY <2>1, <2>2, <3>2, <3>3
    <2>6. Owner(c, a) = {b}
        BY <2>4, <2>5
    <2>7. Max({b}) = b
        <3>1. {b} = {b, b}
            OBVIOUS
        <3>2. b \in Int
            BY <2>1
        <3>3. Max({b, b}) = b
            BY <3>2, MaxOfTwo
        <3>4. QED
            BY <3>1, <3>3
    <2>8. m[a] = FreeItem(c, Previous(c, b))[a - b]
        BY <2>3, <2>6, <2>7, NewMemoryByte
    <2>9. QED
        BY <2>2, <2>8 DEF a
<1> HIDE DEF m
<1>3. NextOf(c, m, b) = Previous(c, b) /\ FreeBytes(c, m, b)
    BY <1>2, FreeItemRead
<1>4. QED
    BY <1>3 DEF m

\* Nothing is written outside the items of new memory.
LEMMA NewOutside ==
    ASSUME NEW c, Layout(c)
    PROVE  Outside(c, NewMemory(c))
<1> DEFINE n == c.itemSize
<1>1. ASSUME NEW a \in Memory(c), \A b \in BasesOf(c) : a < b \/ a >= b + n
      PROVE  NewMemory(c)[a] = Untouched
    <2>1. ASSUME NEW b \in Owner(c, a) PROVE FALSE
        <3>1. b \in BasesOf(c) /\ (a - b) \in DOMAIN FreeItem(c, NULL)
            BY DEF Owner
        <3>2. b \in Nat /\ a \in Int /\ n \in Nat /\ a - b \in Nat /\ a - b < n
            BY <3>1, BaseType, FreeItemWithin, MemoryType, LayoutNumbers
        <3>3. a < b \/ a >= b + n
            BY <1>1, <3>1
        <3> HIDE DEF n
        <3>4. QED
            BY <3>2, <3>3
    <2>2. Owner(c, a) = {}
        BY <2>1
    <2>3. QED
        BY <2>2, NewMemoryByte
<1>2. QED
    BY <1>1 DEF Outside

\* The list of a new pool runs from the last item of its buffer to the first.
NewChain(c, p) == [i \in Nat |-> IF i < Amounts[p] THEN Item(c, p, Amounts[p] - 1 - i) ELSE NULL]

\* The list of a new pool has its items, and NULL behind them.
LEMMA NewChainFacts ==
    ASSUME NEW c, Layout(c), NEW p \in Pool, NEW i \in Nat
    PROVE  /\ NewChain(c, p)[i] \in BasesOf(c) \cup {NULL}
           /\ (NewChain(c, p)[i] # NULL <=> i < Amounts[p])
           /\ i < Amounts[p] => /\ NewChain(c, p)[i] = Item(c, p, Amounts[p] - 1 - i)
                                /\ NewChain(c, p)[i] \in BasesOf(c)
                                /\ Amounts[p] - 1 - i \in 0..(Amounts[p] - 1)
<1>1. Amounts[p] \in Nat
    BY Placement
<1>2. NULL \notin BasesOf(c)
    BY NullIsNoBase
<1>3. CASE i < Amounts[p]
    <2>1. Amounts[p] - 1 - i \in 0..(Amounts[p] - 1)
        BY <1>1, <1>3
    <2>2. NewChain(c, p)[i] = Item(c, p, Amounts[p] - 1 - i)
        BY <1>3 DEF NewChain
    <2>3. NewChain(c, p)[i] \in BasesOf(c)
        BY <2>1, <2>2, ItemIsBase
    <2>4. QED
        BY <1>2, <1>3, <2>1, <2>2, <2>3
<1>4. CASE ~(i < Amounts[p])
    BY <1>4 DEF NewChain
<1>5. QED
    BY <1>3, <1>4

\* The items of a new pool are linked in the order of its list.
LEMMA NewChainLinks ==
    ASSUME NEW c, Layout(c), NEW p \in Pool, NEW i \in Nat, i < Amounts[p]
    PROVE  /\ NextOf(c, NewMemory(c), NewChain(c, p)[i]) = NewChain(c, p)[i + 1]
           /\ FreeBytes(c, NewMemory(c), NewChain(c, p)[i])
<1> DEFINE k == Amounts[p] - 1 - i
           b == NewChain(c, p)[i]
<1>1. Amounts[p] \in Nat
    BY Placement
<1>2. b = Item(c, p, k) /\ b \in BasesOf(c) /\ k \in 0..(Amounts[p] - 1)
    BY NewChainFacts
<1>3. NextOf(c, NewMemory(c), b) = Previous(c, b) /\ FreeBytes(c, NewMemory(c), b)
    <2> HIDE DEF b
    <2>1. QED
        BY <1>2, NewItem
<1>4. Previous(c, Item(c, p, k)) = IF k = 0 THEN NULL ELSE Item(c, p, k - 1)
    <2> HIDE DEF k
    <2>1. QED
        BY <1>2, PreviousItem
<1>5. NewChain(c, p)[i + 1] = IF k = 0 THEN NULL ELSE Item(c, p, k - 1)
    <2>1. i + 1 \in Nat
        OBVIOUS
    <2>2. NewChain(c, p)[i + 1] =
            IF i + 1 < Amounts[p] THEN Item(c, p, Amounts[p] - 1 - (i + 1)) ELSE NULL
        BY <2>1 DEF NewChain
    <2>3. (i + 1 < Amounts[p] <=> k # 0) /\ Amounts[p] - 1 - (i + 1) = k - 1
        BY <1>1, <1>2
    <2>4. QED
        BY <2>2, <2>3
<1>6. QED
    BY <1>2, <1>3, <1>4, <1>5

\* The free lists of new pools.
LEMMA NewFreeLists ==
    ASSUME NEW c, Layout(c)
    PROVE  FreeLists(c, NewMemory(c), [p \in Pool |-> Max(ItemBases(c, p))],
                     [p \in Pool |-> Amounts[p]], {}, [p \in Pool |-> NewChain(c, p)])
<1> DEFINE m == NewMemory(c)
           t == [p \in Pool |-> Max(ItemBases(c, p))]
           n == [p \in Pool |-> Amounts[p]]
           ch == [p \in Pool |-> NewChain(c, p)]
<1>1. \A p \in Pool : Amounts[p] \in Nat \ {0}
    BY Placement
<1>2. n \in [Pool -> Nat]
    BY <1>1
<1>3. ch \in [Pool -> [Nat -> BasesOf(c) \cup {NULL}]]
    <2>1. ASSUME NEW p \in Pool PROVE NewChain(c, p) \in [Nat -> BasesOf(c) \cup {NULL}]
        <3>1. \A i \in Nat : NewChain(c, p)[i] \in BasesOf(c) \cup {NULL}
            BY NewChainFacts
        <3>2. NewChain(c, p) = [i \in Nat |-> NewChain(c, p)[i]]
            BY DEF NewChain
        <3>3. QED
            BY <3>1, <3>2
    <2>2. QED
        BY <2>1
<1>4. \A p \in Pool : n[p] = Amounts[p] /\ ch[p] = NewChain(c, p)
    OBVIOUS
<1>5. t = [p \in Pool |-> ch[p][0]]
    <2>1. ASSUME NEW p \in Pool PROVE Max(ItemBases(c, p)) = ch[p][0]
        <3>1. 0 < Amounts[p] /\ 0 \in Nat /\ Amounts[p] - 1 - 0 = Amounts[p] - 1
            BY <1>1
        <3>2. NewChain(c, p)[0] = Item(c, p, Amounts[p] - 1)
            BY <3>1 DEF NewChain
        <3>3. QED
            BY <1>4, <3>2, LastItem
    <2>2. QED
        BY <2>1
<1> HIDE DEF n, ch, m
<1>6. \A p \in Pool, i \in Nat : (ch[p][i] # NULL <=> i < n[p])
    BY <1>4, NewChainFacts
<1>7. \A p \in Pool, i \in Nat : ch[p][i] # NULL =>
            NextOf(c, m, ch[p][i]) = ch[p][i + 1] /\ FreeBytes(c, m, ch[p][i])
    <2>1. ASSUME NEW p \in Pool, NEW i \in Nat, ch[p][i] # NULL
          PROVE  NextOf(c, m, ch[p][i]) = ch[p][i + 1] /\ FreeBytes(c, m, ch[p][i])
        <3>1. i < Amounts[p]
            BY <1>4, <1>6, <2>1
        <3>2. /\ NextOf(c, m, NewChain(c, p)[i]) = NewChain(c, p)[i + 1]
              /\ FreeBytes(c, m, NewChain(c, p)[i])
            BY <3>1, NewChainLinks DEF m
        <3>3. QED
            BY <1>4, <3>2
    <2>2. QED
        BY <2>1
<1>8. \A p, q \in Pool, i, j \in Nat :
            ch[p][i] = ch[q][j] /\ ch[p][i] # NULL => p = q /\ i = j
    <2>1. ASSUME NEW p \in Pool, NEW q \in Pool, NEW i \in Nat, NEW j \in Nat,
                 ch[p][i] = ch[q][j], ch[p][i] # NULL
          PROVE  p = q /\ i = j
        <3>1. i < Amounts[p] /\ j < Amounts[q]
            BY <1>4, <1>6, <2>1
        <3> DEFINE k == Amounts[p] - 1 - i
                   l == Amounts[q] - 1 - j
        <3>2. ch[p][i] = Item(c, p, k) /\ k \in 0..(Amounts[p] - 1)
            BY <1>4, <3>1, NewChainFacts
        <3>3. ch[q][j] = Item(c, q, l) /\ l \in 0..(Amounts[q] - 1)
            BY <1>4, <3>1, NewChainFacts
        <3>4. p = q /\ k = l
            <4> HIDE DEF k, l
            <4>1. Item(c, p, k) = Item(c, q, l)
                BY <2>1, <3>2, <3>3
            <4>2. QED
                BY <3>2, <3>3, <4>1, ItemsApart
        <3>5. QED
            BY <1>1, <3>4
    <2>2. QED
        BY <2>1
<1>9. \A b \in BasesOf(c) : b \in {} \/ \E p \in Pool, i \in Nat : ch[p][i] = b
    <2>1. ASSUME NEW b \in BasesOf(c) PROVE \E p \in Pool, i \in Nat : ch[p][i] = b
        <3>1. PICK p \in Pool : \E i \in 0..(Amounts[p] - 1) : b = c.first[p] + i * c.itemSize
            BY ItemAddress
        <3>2. PICK j \in 0..(Amounts[p] - 1) : b = Item(c, p, j)
            BY <3>1 DEF Item
        <3> DEFINE i == Amounts[p] - 1 - j
        <3>3. i \in Nat /\ i < Amounts[p] /\ Amounts[p] - 1 - i = j
            BY <1>1
        <3> HIDE DEF i
        <3>4. ch[p][i] = b
            BY <1>4, <3>2, <3>3, NewChainFacts
        <3>5. QED
            BY <3>3, <3>4
    <2>2. QED
        BY <2>1
<1> HIDE DEF t
<1>10. FreeLists(c, m, t, n, {}, ch)
    BY <1>2, <1>3, <1>5, <1>6, <1>7, <1>8, <1>9 DEF FreeLists
<1>11. QED
    BY <1>10 DEF m, t, n, ch

\* What the constructors leave satisfies the invariant.
LEMMA InitInv ==
    ASSUME ClientInit
    PROVE  PoolInv
<1>1. PICK c \in Cases : PoolInit(c)
    BY DEF ClientInit
<1>2. Layout(pools)
    BY <1>1, ConstructedLayout DEF PoolInit
<1>3. DOMAIN mem = Memory(pools)
    BY <1>1, NewMemoryByte DEF PoolInit
<1>4. stat \in [Pool -> Statistics]
    <2>1. \A p \in Pool : NewStatistics(p) \in Statistics
        BY <1>2, Placement DEF NewStatistics, Statistics
    <2>2. QED
        BY <1>1, <2>1 DEF PoolInit
<1>5. OutItems(pools, mem, out)
    BY <1>1 DEF PoolInit, OutItems
<1>6. Outside(pools, mem)
    BY <1>1, <1>2, NewOutside DEF PoolInit
<1>7. FreeCounts = [p \in Pool |-> Amounts[p]]
    BY <1>1 DEF PoolInit, FreeCounts, NewStatistics
<1>8. OutBasesOf(pools, out) = {}
    BY <1>1 DEF PoolInit, OutBasesOf
<1>9. mem = NewMemory(pools) /\ top = [p \in Pool |-> Max(ItemBases(pools, p))]
    BY <1>1 DEF PoolInit
<1>10. \E ch : FreeLists(pools, mem, top, FreeCounts, OutBasesOf(pools, out), ch)
    <2>1. FreeLists(pools, mem, top, FreeCounts, OutBasesOf(pools, out),
                    [p \in Pool |-> NewChain(pools, p)])
        BY <1>2, <1>7, <1>8, <1>9, NewFreeLists
    <2>2. QED
        BY <2>1
<1>11. QED
    BY <1>2, <1>3, <1>4, <1>5, <1>6, <1>10 DEF PoolInv

-----------------------------------------------------------------------------
(* The theorems.                                                            *)

\* The invariant is inductive.
LEMMA PoolInvariant == ClientSpec => []PoolInv
BY InitInv, ClientStep, PTL DEF ClientSpec

\* However the clients allocate, construct, delete and return items, to their
\* own or to another pool, and however transferFreeItems moves the free items
\* between pools, each list of free items ends after as many items as the pool
\* counts, and every item is in exactly one list or allocated exactly once.
THEOREM PoolFreeListSound == ClientSpec => []FreeListSound
<1>1. PoolInv => FreeListSound
    BY InvFreeListSound
<1>2. QED
    BY <1>1, PoolInvariant, PTL

\* Whatever a client writes into the memory that allocate gave it, the checks
\* of TFreeItemMap and TAllocatedItemMap never fail on an item that is free or
\* allocated, and no byte outside the items is ever written.
THEOREM PoolItemsIntact == ClientSpec => []ItemsIntact
<1>1. PoolInv => ItemsIntact
    BY InvItemsIntact
<1>2. QED
    BY <1>1, PoolInvariant, PTL

\* What allocate returns is aligned for the size of the user's item under the
\* pool's alignment step, and an object made by new finds the pool to which
\* TAbstractPoolForNew returns it in the memory before the object.
THEOREM PoolObjectsUsable == ClientSpec => []ObjectsUsable
<1>1. PoolInv => ObjectsUsable
    BY InvObjectsUsable
<1>2. QED
    BY <1>1, PoolInvariant, PTL
=============================================================================
