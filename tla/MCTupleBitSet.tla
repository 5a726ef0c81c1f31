--------------------------- MODULE MCTupleBitSet ---------------------------
(* Three options and words of five bits: 12 bits in three words. *)
EXTENDS TupleBitSet, TLC

\* Bits 2, 3 and 5 and the last one, in all three words.
MCTouched == { <<1, 0, 2, 0>>, <<0, 0, 1, 1>>, <<1, 0, 2, 1>>, <<1, 1, 2, 1>> }

AddressSymmetry == Permutations(Address)
=============================================================================
