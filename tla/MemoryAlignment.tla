--------------------------- MODULE MemoryAlignment ---------------------------
(***************************************************************************)
(* src/BitsAlgorithms.h and src/MemoryAligment.h: the arithmetic by which  *)
(* the memory pools align sizes and addresses.  The bodies of the member   *)
(* functions of TMemoryAlignment are not in the repository; they are       *)
(* written here after the template the header keeps in a comment, their    *)
(* declarations and the assertions of the unit test, which                 *)
(* MemoryAlignmentTests repeats.                                           *)
(*                                                                         *)
(* An address is a signed number: the test's 0xffffffff is -1.             *)
(***************************************************************************)
EXTENDS Integers

\* BOUND: the powers of two, up to the largest size that is rounded.
MaxSize == 1024
PowersOfTwo == {1, 2, 4, 8, 16, 32, 64, 128, 256, 512, 1024}

\* TRoundUpPowerOfTwoIncludingZeroPower, by what it computes.  The shifts by which
\* it does so are in MemoryAlignmentTests, which compares the two.
RoundUpPowerOfTwo(v) ==
    CHOOSE p \in PowersOfTwo : p >= v /\ \A q \in PowersOfTwo : q >= v => p <= q

\* alignSizeTo and alignAddressTo.
RoundUp(n, step) == n + (IF n % step = 0 THEN 0 ELSE step - (n % step))

\* The step that suits a size, at most MaxAlignmentStep.
getAlignmentStep(max, size) ==
    LET p == RoundUpPowerOfTwo(size) IN IF p < max THEN p ELSE max

\* Mutant: a small size is aligned to the whole step.
alignSize_Whole(max, size) == RoundUp(size, max)

alignSize(max, size) ==
    IF size >= max THEN RoundUp(size, max) ELSE RoundUpPowerOfTwo(size)

isAlignedSize(max, size) == alignSize(max, size) = size

alignAddressFor(max, address, size) == RoundUp(address, getAlignmentStep(max, size))

isAlignedAddressFor(max, address, size) == alignAddressFor(max, address, size) = address
=============================================================================
