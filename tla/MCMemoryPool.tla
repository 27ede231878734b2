---------------------------- MODULE MCMemoryPool ----------------------------
(* Two pools, of two items and of one: an item smaller than a pointer, one  *)
(* of five bytes and one larger than the bookkeeping of a free item.        *)
EXTENDS MemoryPoolTests

MCAmounts == <<2, 1>>
MCCases == {Case("none", 4, 1), Case("none", 8, 10), Case("corruption", 1, 1),
            Case("corruption", 8, 10), Case("disallow", 4, 5)}

\* The buffers lie one after the other, with a gap between them.
MCFirstItems(itemSize) ==
    LET first[p \in Pool] ==
            IF p = 1 THEN Gap
            ELSE RoundUp(first[p - 1] + PoolBufferSize(p - 1, itemSize), Gap) + Gap
    IN  first
=============================================================================
