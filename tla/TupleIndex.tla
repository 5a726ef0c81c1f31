----------------------------- MODULE TupleIndex -----------------------------
(***************************************************************************)
(* Where the bit of a 2-tuple lives: Get2TupleMapIndex, and the split of   *)
(* its result into a word and a bit of that word.                          *)
(***************************************************************************)
EXTENDS CNF

CONSTANT WordBits   \* 32 in the program: the width of uint32_t

ASSUME WordBitsAssumption == WordBits \in Nat \ {0}

\* Fault: j instead of j - i - 1.
Get2TupleMapIndexShifted(t) ==
  (2 * t[2] + t[4]) * NumCombinationAllPossible
    + ((2 * NumVar - t[1] - 1) * t[1]) \div 2 + t[3]

\* Four blocks, one for each pair of values, of all pairs i < j row by row.
Get2TupleMapIndex(t) ==
  (2 * t[2] + t[4]) * NumCombinationAllPossible
    + ((2 * NumVar - t[1] - 1) * t[1]) \div 2 + t[3] - t[1] - 1

WordOf(t) == Get2TupleMapIndex(t) \div WordBits
BitOf(t)  == Get2TupleMapIndex(t) % WordBits

\* cap of a set with a bit for every tuple; NumVar >= 2, so it is not 0.
Capacity == (NumTupleAllPossible + WordBits - 1) \div WordBits

\* What arr points to.
WordArrays == [0 .. Capacity - 1 -> SUBSET (0 .. WordBits - 1)]
=============================================================================
