------------------------ MODULE MemoryAlignmentTests ------------------------
(***************************************************************************)
(* The assertions of src/UnitTests/MemoryAlignmentUnitTest.cpp, as tables: *)
(* one per block of the test.  What precedes the blocks (lines 37-78), on  *)
(* the test's own helper and on the three named strategies, is left out.   *)
(***************************************************************************)
EXTENDS MemoryAlignment, Sequences, Bitwise

\* TIsPowerOfTwoIncludingZeroPower.
IsPowerOfTwo(v) == v # 0 /\ (v & (v - 1)) = 0

\* TRoundUpPowerOfTwoIncludingZeroPower: the highest bit of v - 1 is copied to
\* every bit below it, by shifts of 1, 2, 4, 8 and 16.
RoundUpPowerOfTwoByShifts(v) ==
    LET smeared[i \in 0..5] ==
            IF i = 0 THEN v - 1
            ELSE smeared[i - 1] | (smeared[i - 1] \div 2^(2^(i - 1)))
    IN  smeared[5] + 1

\* BOUND: the sizes for which the bit algorithms are compared with what they compute.
ComparedSizes == 1..MaxSize

\* What the test expects of the sizes 1, 2, ...: their step, their aligned
\* size, and which of 1..9 are aligned already.
SizeTest(max, steps, sizes, aligned) ==
    [max |-> max, steps |-> steps, sizes |-> sizes, aligned |-> aligned]

\* What the test expects of addresses for an object of this size: the aligned
\* address of 0, 1, ... and of the four at the end, and which of the tested
\* addresses are aligned already and which not.
AddressTest(max, size, up, ends, aligned, unaligned) ==
    [max |-> max, size |-> size, up |-> up, ends |-> ends,
     aligned |-> aligned, unaligned |-> unaligned]

\* TEndestAlignedAddress, shifted as the test shifts it.
Ends(max) == <<-3 * max, -3 * max - 1, -3 * max + 1, -2 * max>>

Sizes1 == SizeTest(1, <<1, 1, 1, 1, 1, 1, 1, 1, 1, 1>>,
    <<1, 2, 3, 4, 5, 6, 7, 8, 9, 10>>, {1, 2, 3, 4, 5, 6, 7, 8, 9})

Sizes2 == SizeTest(2, <<1, 2, 2, 2, 2, 2, 2, 2, 2, 2>>,
    <<1, 2, 4, 4, 6, 6, 8, 8, 10, 10>>, {1, 2, 4, 6, 8})

Addresses2For1 == AddressTest(2, 1,
    <<0, 1, 2, 3, 4, 5, 6, 7, 8, 9, 10>>, <<-6, -7, -5, -4>>,
    {-7, -6, -5, -4, 0, 1, 2, 3, 4, 5, 6, 7, 8, 9, 10},
    {})

Addresses2For2 == AddressTest(2, 2,
    <<0, 2, 2, 4, 4, 6, 6, 8, 8, 10, 10>>, <<-6, -6, -4, -4>>,
    {-6, -4, 0, 2, 4, 6, 8, 10},
    {-7, -5, 1, 3, 5, 7, 9})

Addresses2For8 == AddressTest(2, 8,
    <<0, 2, 2, 4, 4, 6, 6, 8, 8, 10, 10>>, <<-6, -6, -4, -4>>,
    {-6, -4, 0, 2, 4, 6, 8, 10, 16},
    {-7, -5, 1, 3, 5, 7, 9, 15, 17})

Addresses2For5 == AddressTest(2, 5,
    <<0, 2, 2, 4, 4, 6, 6, 8, 8, 10, 10>>, <<-6, -6, -4, -4>>,
    {-6, -4, 0, 2, 4, 6, 8, 10, 16},
    {-7, -5, 1, 3, 5, 7, 9, 15, 17})

Sizes4 == SizeTest(4, <<1, 2, 4, 4, 4, 4, 4, 4, 4, 4>>,
    <<1, 2, 4, 4, 8, 8, 8, 8, 12, 12>>, {1, 2, 4, 8})

Addresses4For1 == AddressTest(4, 1,
    <<0, 1, 2, 3, 4, 5, 6, 7, 8, 9, 10>>, <<-12, -13, -11, -8>>,
    {-13, -12, -11, -8, 0, 1, 2, 3, 4, 5, 6, 7, 8, 9, 10},
    {})

Addresses4For2 == AddressTest(4, 2,
    <<0, 2, 2, 4, 4, 6, 6, 8, 8, 10, 10>>, <<-12, -12, -10, -8>>,
    {-12, -8, 0, 2, 4, 6, 8, 10},
    {-13, -11, 1, 3, 5, 7, 9})

Addresses4For8 == AddressTest(4, 8,
    <<0, 4, 4, 4, 4, 8, 8, 8, 8, 12, 12>>, <<-12, -12, -8, -8>>,
    {-12, -8, 0, 4, 8, 12, 16},
    {-13, -11, 1, 2, 3, 5, 6, 7, 9, 10, 15, 17})

Addresses4For5 == AddressTest(4, 5,
    <<0, 4, 4, 4, 4, 8, 8, 8, 8, 12, 12>>, <<-12, -12, -8, -8>>,
    {-12, -8, 0, 4, 8, 12, 16},
    {-13, -11, 1, 2, 3, 5, 6, 7, 9, 10, 15, 17})

Sizes8 == SizeTest(8, <<1, 2, 4, 4, 8, 8, 8, 8, 8, 8>>,
    <<1, 2, 4, 4, 8, 8, 8, 8, 16, 16>>, {1, 2, 4, 8})

Addresses8For1 == AddressTest(8, 1,
    <<0, 1, 2, 3, 4, 5, 6, 7, 8, 9, 10>>, <<-24, -25, -23, -16>>,
    {-25, -24, -23, -16, 0, 1, 2, 3, 4, 5, 6, 7, 8, 9, 10},
    {})

Addresses8For2 == AddressTest(8, 2,
    <<0, 2, 2, 4, 4, 6, 6, 8, 8, 10, 10>>, <<-24, -24, -22, -16>>,
    {-24, -16, 0, 2, 4, 6, 8, 10},
    {-25, -23, 1, 3, 5, 7, 9})

Addresses8For8 == AddressTest(8, 8,
    <<0, 8, 8, 8, 8, 8, 8, 8, 8, 16, 16>>, <<-24, -24, -16, -16>>,
    {-24, -16, 0, 8, 16},
    {-25, -23, 1, 2, 3, 4, 5, 6, 7, 9, 10, 12, 15, 17})

Addresses8For5 == AddressTest(8, 5,
    <<0, 8, 8, 8, 8, 8, 8, 8, 8, 16, 16>>, <<-24, -24, -16, -16>>,
    {-24, -16, 0, 8, 16},
    {-25, -23, 1, 2, 3, 4, 5, 6, 7, 9, 10, 12, 15, 17})

Addresses8For3 == AddressTest(8, 3,
    <<0, 4, 4, 4, 4, 8, 8, 8, 8, 12, 12>>, <<-24, -24, -20, -16>>,
    {-24, -16, 0, 4, 8, 12, 16},
    {-25, -23, 1, 2, 3, 5, 6, 7, 9, 10, 15, 17})

\* Without alignment every address stays as it is, for every size.
Addresses1 == {AddressTest(1, size, <<0, 1, 2, 3, 4, 5>>, <<>>,
                           (-5..-2) \cup (0..5), {}) : size \in {1, 4, 5, 6, 7, 8}}

SizeTests == {Sizes1, Sizes2, Sizes4, Sizes8}

AddressTests ==
    Addresses1 \cup {Addresses2For1, Addresses2For2, Addresses2For8,
                    Addresses2For5, Addresses4For1, Addresses4For2,
                    Addresses4For8, Addresses4For5, Addresses8For1,
                    Addresses8For2, Addresses8For8, Addresses8For5,
                    Addresses8For3}

BitAlgorithmsAgree ==
    \A n \in ComparedSizes :
        /\ RoundUpPowerOfTwoByShifts(n) = RoundUpPowerOfTwo(n)
        /\ IsPowerOfTwo(n) = (n \in PowersOfTwo)

SizeTestHolds(t) ==
    /\ \A n \in DOMAIN t.steps : getAlignmentStep(t.max, n) = t.steps[n]
    /\ \A n \in DOMAIN t.sizes : alignSize(t.max, n) = t.sizes[n]
    /\ \A n \in 1..9 : isAlignedSize(t.max, n) = (n \in t.aligned)
    /\ BitAlgorithmsAgree

AddressTestHolds(t) ==
    /\ \A i \in DOMAIN t.up : alignAddressFor(t.max, i - 1, t.size) = t.up[i]
    /\ \A i \in DOMAIN t.ends :
            alignAddressFor(t.max, Ends(t.max)[i], t.size) = t.ends[i]
    /\ \A a \in t.aligned : isAlignedAddressFor(t.max, a, t.size)
    /\ \A a \in t.unaligned : ~isAlignedAddressFor(t.max, a, t.size)
=============================================================================
