----------------------------- MODULE MemoryPool -----------------------------
(***************************************************************************)
(* The memory pools of src/MemoryPool.h at the level of bytes.  A pool     *)
(* cuts a buffer into items of one size.  A free item holds the pointer to *)
(* the next free one; an allocated item holds the user's value.  The maps  *)
(* of src/MemoryPoolInternalClasses.h say where in the item that is, and   *)
(* surround it with a signature and filled voids, by which they find a     *)
(* corrupted item and one that is returned twice.                          *)
(*                                                                         *)
(* The bodies of TMemoryPoolSimple are not in the repository.  They are    *)
(* modelled after the members and comments of the class, the interface of  *)
(* the maps and the assertions of the unit test (module MemoryPoolTests).  *)
(***************************************************************************)
EXTENDS MemoryAlignment, Sequences, FiniteSetsExt, Functions

CONSTANTS
    Amounts,        \* InitialAmountOfItem of each pool
    FirstItems(_),  \* where the allocator puts the buffers of items of a size
    Cases,          \* the template and constructor arguments to consider
    MaxInquiries    \* BOUND: the calls of allocate of the free client

\* BOUND: the sizes of the user's items.
MaxItem == 512

\* sizeof(void*): the layout of the checked maps is made for 32 bits.
PointerSize == 4

ASSUME PoolAssumption ==
    /\ Amounts \in Seq(Nat \ {0})
    /\ Cases \subseteq [step : {1, 2, 4, 8, 16}, size : 1..MaxItem,
                        check : {"none", "corruption", "disallow"}]
    /\ MaxInquiries \in Nat

VARIABLES
    pools,  \* the arguments of the pools and their item maps
    mem,    \* the bytes of the buffers and of the memory between them
    top,    \* _topFreeItem
    stat,   \* the statistics
    out     \* what is allocated: [pool, pointer, shadow]

vars == <<pools, mem, top, stat, out>>

NULL == 0
Pool == DOMAIN Amounts

-----------------------------------------------------------------------------
(* Bytes.  Pointers are stored low byte first; the first of the bytes holds *)
(* the whole of an address.                                                 *)

SIGNATURE_AND_POOL_ITEM_FREE == 254
SIGNATURE_AND_POOL_ITEM_ALLOCATED == 161
ALIGNMENT_VOIDS_FILL == 175
ITEM_VALUE == 127
UserByte == 85      \* what the user writes
Untouched == 0      \* memory nobody has written

\* Bytes written from an address on.
Put(m, at, bytes) ==
    [a \in DOMAIN m |-> IF (a - at) \in DOMAIN bytes THEN bytes[a - at] ELSE m[a]]

PointerBytes(p) == [i \in 0..(PointerSize - 1) |-> IF i = 0 THEN p ELSE 0]

\* A pointer that nobody stored there is not 0 in its higher bytes.
LoadPointer(m, at) ==
    IF \A i \in 1..(PointerSize - 1) : m[at + i] = 0 THEN m[at] ELSE -1

Filled(m, at, n) == \A a \in at..(at + n - 1) : m[a] = ALIGNMENT_VOIDS_FILL

-----------------------------------------------------------------------------
(* The item maps: their construction, and endConstruct once the size that   *)
(* suits both is known.                                                     *)

Checked(c) == c.check # "none"

\* SIZE_OF_SIGNATURE, SIZE_OF_BEGIN_VOIDS.
NextItemOffset(c) == IF Checked(c) THEN 1 + 3 ELSE 0

TFreeItemMap(c) ==
    [alignedItemSize |-> NextItemOffset(c) + PointerSize, endVoidsSize |-> 0]

FreeEndConstruct(map, c, real) ==
    [map EXCEPT !.alignedItemSize = real,
                !.endVoidsSize = real - (NextItemOffset(c) + PointerSize)]

\* Mutant: the value follows the signature at once.
TAllocatedItemMap_Packed(c) ==
    LET diff == IF Checked(c) THEN 1 ELSE 0
        noVoids == diff + c.size
        aligned == alignSize(c.step, noVoids)
    IN  [itemValueDiff |-> diff, itemSizeWithoutEndVoids |-> noVoids,
         alignedItemSize |-> aligned, endVoidsSize |-> aligned - noVoids]

TAllocatedItemMap(c) ==
    LET diff == IF Checked(c) THEN alignAddressFor(c.step, 1, c.size) ELSE 0
        noVoids == diff + c.size
        aligned == alignSize(c.step, noVoids)
    IN  [itemValueDiff |-> diff, itemSizeWithoutEndVoids |-> noVoids,
         alignedItemSize |-> aligned, endVoidsSize |-> aligned - noVoids]

\* The size is assigned before it is compared with itself: the end voids keep
\* the size the constructor gave them.
AllocatedEndConstruct(map, real) ==
    LET sized == [map EXCEPT !.alignedItemSize = real]
    IN  IF real > sized.alignedItemSize
        THEN [sized EXCEPT !.endVoidsSize = real - sized.itemSizeWithoutEndVoids]
        ELSE sized

\* _PoolBufferSize.
PoolBufferSize(p, itemSize) == Amounts[p] * itemSize

\* The allocator aligns every buffer to Gap, which no alignment step exceeds;
\* the model also has the Gap bytes around it.
Gap == 16

\* The buffers do not overlap.
ASSUME PlacementAssumption ==
    \A size \in 1..MaxSize :
        /\ FirstItems(size) \in [Pool -> Nat \ {0}]
        /\ \A p \in Pool : FirstItems(size)[p] % Gap = 0
        /\ \A p, q \in Pool : p # q =>
            \/ FirstItems(size)[p] + PoolBufferSize(p, size) <= FirstItems(size)[q]
            \/ FirstItems(size)[q] + PoolBufferSize(q, size) <= FirstItems(size)[p]

\* Mutant: the items are as large as a free item.
Constructed_FreeSize(c) ==
    LET real == TFreeItemMap(c).alignedItemSize
    IN  [step |-> c.step, size |-> c.size, check |-> c.check,
         free |-> FreeEndConstruct(TFreeItemMap(c), c, real),
         allocated |-> AllocatedEndConstruct(TAllocatedItemMap(c), real),
         itemSize |-> real, first |-> FirstItems(real)]

\* What the constructors of equal pools leave in their members: _AlignedItemSize
\* is the size that suits both maps, to which each then adjusts itself.
Constructed(c) ==
    LET real == Max({TFreeItemMap(c).alignedItemSize, TAllocatedItemMap(c).alignedItemSize})
    IN  [step |-> c.step, size |-> c.size, check |-> c.check,
         free |-> FreeEndConstruct(TFreeItemMap(c), c, real),
         allocated |-> AllocatedEndConstruct(TAllocatedItemMap(c), real),
         itemSize |-> real, first |-> FirstItems(real)]

-----------------------------------------------------------------------------
(* The maps at work.                                                        *)

GetItemBase(pointer) == pointer - pools.allocated.itemValueDiff
GetAllocatedPointer(base) == base + pools.allocated.itemValueDiff

GetNextFreeItem(m, base) == LoadPointer(m, base + NextItemOffset(pools))
SetNextFreeItem(m, base, next) == Put(m, base + NextItemOffset(pools), PointerBytes(next))

\* TFreeItemMap::MakeItem and SetNextFreeItem: what they write into an item.
FreeItem(c, next) ==
    IF Checked(c)
    THEN [i \in 0..(NextItemOffset(c) + PointerSize + c.free.endVoidsSize - 1) |->
            CASE i = 0 -> SIGNATURE_AND_POOL_ITEM_FREE
              [] i \in 1..3 -> ALIGNMENT_VOIDS_FILL
              [] i \in 4..(4 + PointerSize - 1) -> PointerBytes(next)[i - 4]
              [] OTHER -> ALIGNMENT_VOIDS_FILL]
    ELSE PointerBytes(next)

\* TAllocatedItemMap::MakeItem: what it writes into an item.
AllocatedItem(c) ==
    LET map == c.allocated
    IN  IF Checked(c)
        THEN [i \in 0..(map.itemSizeWithoutEndVoids + map.endVoidsSize - 1) |->
                CASE i = 0 -> SIGNATURE_AND_POOL_ITEM_ALLOCATED
                  [] i >= map.itemValueDiff /\ i < map.itemValueDiff + c.size -> ITEM_VALUE
                  [] OTHER -> ALIGNMENT_VOIDS_FILL]
        ELSE <<>>

\* TFreeItemMap::Check.
FreeCheck(base) ==
    /\ isAlignedAddressFor(pools.step, base, pools.itemSize)
    /\ Checked(pools) =>
        /\ mem[base] = SIGNATURE_AND_POOL_ITEM_FREE
        /\ Filled(mem, base + 1, 3)
        /\ Filled(mem, base + NextItemOffset(pools) + PointerSize, pools.free.endVoidsSize)

\* TAllocatedItemMap::Check.
AllocatedCheck(base) ==
    LET map == pools.allocated
    IN  /\ isAlignedAddressFor(pools.step, base, pools.itemSize)
        /\ Checked(pools) =>
            /\ mem[base] = SIGNATURE_AND_POOL_ITEM_ALLOCATED
            /\ Filled(mem, base + 1, map.itemValueDiff - 1)
            /\ Filled(mem, base + map.itemSizeWithoutEndVoids, map.endVoidsSize)

\* The items of a pool's own buffer.
ItemBases(c, p) == {c.first[p] + i * c.itemSize : i \in 0..(Amounts[p] - 1)}

Bases == UNION {ItemBases(pools, p) : p \in Pool}

\* TItemMap::ItemBelongBuffer, without its assertion that the size of the buffer
\* is aligned (line 68): an odd number of items smaller than the step fails that.
ItemBelongBuffer(base, p) ==
    /\ pools.first[p] <= base
    /\ pools.first[p] + PoolBufferSize(p, pools.itemSize) >= base + pools.itemSize

\* AllocatedItemBelongPoolCheck.
BelongPoolCheck(base, p) == pools.check = "disallow" => ItemBelongBuffer(base, p)

-----------------------------------------------------------------------------
(* TMemoryPoolSimple.                                                       *)

\* The bytes of a pool's buffer and those around it.
Surroundings(c, p) ==
    (c.first[p] - Gap)..(c.first[p] + PoolBufferSize(p, c.itemSize) + Gap)

\* The items of every new buffer are free, each linked to the one before it.
NewMemory(c) ==
    LET bases == UNION {ItemBases(c, p) : p \in Pool}
        previous(b) == IF b - c.itemSize \in bases /\ b \notin Range(c.first)
                       THEN b - c.itemSize ELSE NULL
        owner(a) == {b \in bases : (a - b) \in DOMAIN FreeItem(c, NULL)}
    IN  [a \in UNION {Surroundings(c, p) : p \in Pool} |->
            IF owner(a) = {} THEN Untouched
            ELSE LET b == Max(owner(a)) IN FreeItem(c, previous(b))[a - b]]

\* The constructor.
NewStatistics(p) ==
    [free |-> Amounts[p], items |-> Amounts[p], inquiries |-> 0, denied |-> 0, max |-> 0]

\* ItemsAllocated is the difference of items and free: no member counts it.
allocate(p, shadow) ==
    /\ IF top[p] = NULL
       THEN /\ stat' = [stat EXCEPT ![p].inquiries = @ + 1, ![p].denied = @ + 1]
            /\ UNCHANGED <<mem, top, out>>
       ELSE LET base == top[p]
                pointer == GetAllocatedPointer(base)
                made == Put(mem, base, AllocatedItem(pools))
            IN  /\ top' = [top EXCEPT ![p] = GetNextFreeItem(mem, base)]
                \* setShadowMemoryInformation: the pool is noted before the object.
                /\ mem' = IF shadow THEN Put(made, pointer, PointerBytes(p)) ELSE made
                /\ out' = out \cup {[pool |-> p, pointer |-> pointer, shadow |-> shadow]}
                /\ stat' = [stat EXCEPT
                     ![p].inquiries = @ + 1, ![p].free = @ - 1,
                     ![p].max = Max({@, stat[p].items - (stat[p].free - 1)})]
    /\ UNCHANGED pools

\* The item becomes the first free item of p, whichever pool it comes from.
deallocate(p, o) ==
    LET base == GetItemBase(o.pointer)
    IN  /\ BelongPoolCheck(base, p)
        /\ mem' = Put(mem, base, FreeItem(pools, top[p]))
        /\ top' = [top EXCEPT ![p] = base]
        /\ stat' = [stat EXCEPT ![p].free = @ + 1]
        /\ out' = out \ {o}
        /\ UNCHANGED pools

\* The addresses found along the free list of p, NULL once it has ended.  A
\* list that goes astray ends where it does.
FreeChain(p) ==
    LET next[n \in 0..(Cardinality(Bases) + 1)] ==
            IF n = 0 THEN top[p]
            ELSE IF next[n - 1] \in Bases THEN GetNextFreeItem(mem, next[n - 1])
            ELSE next[n - 1]
    IN  next

FreeItems(p) == Range(FreeChain(p)) \ {NULL}

\* Mutant: the list of p is lost behind the items of q.
transferFreeItems_Unlinked(p, q) ==
    /\ p # q
    /\ UNCHANGED mem
    /\ top' = IF top[q] = NULL THEN top ELSE [top EXCEPT ![p] = top[q], ![q] = NULL]
    /\ stat' = [stat EXCEPT ![p].free = @ + stat[q].free, ![p].items = @ + stat[q].free,
                            ![q].free = 0, ![q].items = @ - stat[q].free]
    /\ UNCHANGED <<pools, out>>

\* Every free item of q goes to p.
transferFreeItems(p, q) ==
    /\ p # q
    /\ IF top[q] = NULL
       THEN UNCHANGED <<mem, top>>
       ELSE \E last \in FreeItems(q) :
                /\ GetNextFreeItem(mem, last) = NULL
                /\ mem' = SetNextFreeItem(mem, last, top[p])
                /\ top' = [top EXCEPT ![p] = top[q], ![q] = NULL]
    /\ stat' = [stat EXCEPT ![p].free = @ + stat[q].free, ![p].items = @ + stat[q].free,
                            ![q].free = 0, ![q].items = @ - stat[q].free]
    /\ UNCHANGED <<pools, out>>

-----------------------------------------------------------------------------
(* TAbstractPoolForNew: an object that knows the pool it came from.          *)

\* allocateUniversal: the shadow information and the object must fit the item.
New(p, size) ==
    /\ PointerSize + Max({size, 1}) <= pools.size
    /\ allocate(p, TRUE)

\* deallocate reads the pool from the memory before the object.
Delete(o) ==
    /\ o.shadow
    /\ LoadPointer(mem, o.pointer) \in Pool
    /\ deallocate(LoadPointer(mem, o.pointer), o)

-----------------------------------------------------------------------------
(* A client.                                                                *)

\* The client writes the whole of the memory it was given.
Write(o) ==
    LET shadow == IF o.shadow THEN PointerSize ELSE 0
    IN  /\ mem' = Put(mem, o.pointer + shadow, [i \in 0..(pools.size - shadow - 1) |-> UserByte])
        /\ UNCHANGED <<pools, top, stat, out>>

PoolInit(c) ==
    /\ pools = Constructed(c)
    /\ mem = NewMemory(pools)
    /\ top = [p \in Pool |-> Max(ItemBases(pools, p))]
    /\ stat = [p \in Pool |-> NewStatistics(p)]
    /\ out = {}

\* An item of a plain pool may be returned to any pool of equal items, unless
\* the check disallows it.
ClientNext ==
    \/ /\ SumFunction([p \in Pool |-> stat[p].inquiries]) < MaxInquiries
       /\ \E p \in Pool : allocate(p, FALSE) \/ New(p, 1)
    \/ \E o \in out : Write(o) \/ Delete(o)
    \/ \E o \in out, p \in Pool : ~o.shadow /\ deallocate(p, o)
    \/ \E p, q \in Pool : pools.check # "disallow" /\ transferFreeItems(p, q)

ClientInit == \E c \in Cases : PoolInit(c)

ClientSpec == ClientInit /\ [][ClientNext]_vars

-----------------------------------------------------------------------------
(* Properties.                                                              *)

OutBases == {GetItemBase(o.pointer) : o \in out}

\* Whatever the client writes into the memory it was given, the checks that
\* allocate, deallocate and checkAllFreeItemsAtPoolIfCheckTurnedOn make of an
\* item never fail, and no byte outside the buffers is ever written.
ItemsIntact ==
    /\ \A p \in Pool : \A b \in FreeItems(p) : FreeCheck(b)
    /\ \A b \in OutBases : AllocatedCheck(b)
    /\ \A a \in DOMAIN mem :
            (\A b \in Bases : a < b \/ a >= b + pools.itemSize) => mem[a] = Untouched

\* The free lists stay sound while items are returned to other pools and moved
\* between pools: each ends after as many items as the pool counts free, no item
\* is in two lists or free and allocated at once, and none is lost.
FreeListSound ==
    /\ \A p \in Pool :
        /\ FreeItems(p) \subseteq Bases
        /\ Cardinality(FreeItems(p)) = stat[p].free
        /\ FreeChain(p)[stat[p].free] = NULL
    /\ \A p, q \in Pool : p # q => FreeItems(p) \cap FreeItems(q) = {}
    /\ Bases = OutBases \cup UNION {FreeItems(p) : p \in Pool}
    /\ \A p \in Pool : OutBases \cap FreeItems(p) = {}
    /\ Cardinality(OutBases) = Cardinality(out)

\* What allocate returns is aligned for the item's size under the alignment
\* strategy of the pool, for items of foreign buffers too (nothing is said of the
\* pointer that new hands out, which lies behind the pool's); and an object made
\* by new still finds the pool that made it, whatever is written to the object
\* and to its neighbours.
ObjectsUsable ==
    \A o \in out :
        /\ isAlignedAddressFor(pools.step, o.pointer, pools.size)
        /\ o.shadow => LoadPointer(mem, o.pointer) = o.pool

\* MemoryPool.h, lines 156-161: in an allocated item of a checked pool every
\* byte is the signature, the value, or a filled void.
VoidsFilled ==
    Checked(pools) =>
        \A b \in OutBases : \A a \in (b + 1)..(b + pools.itemSize - 1) :
            LET value == b + pools.allocated.itemValueDiff
            IN  a < value \/ a >= value + pools.size => mem[a] = ALIGNMENT_VOIDS_FILL
=============================================================================
