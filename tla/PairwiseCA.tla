----------------------------- MODULE PairwiseCA -----------------------------
(***************************************************************************)
(* What the program promises (README.md and examples/README.md): it grows  *)
(* a suite of valid configurations, never adds a useless one, and stops    *)
(* only with a pairwise covering array in which every valid tuple appears. *)
(***************************************************************************)
EXTENDS CNF

VARIABLES formula,   \* the system under test, never changed
          suite,     \* the test cases generated so far
          finished   \* the covering array has been delivered

avars == <<formula, suite, finished>>

AInit == /\ formula \in Formula
         /\ suite = <<>>
         /\ finished = FALSE

\* One more valid configuration, covering at least one new tuple.
AAdd == /\ ~finished
        /\ \E tc \in Models(formula) :
             /\ ~(TuplesOf(tc) \subseteq CoveredBy(suite))
             /\ suite' = Append(suite, tc)
        /\ UNCHANGED <<formula, finished>>

\* The suite is a covering array.
AFinish == /\ ~finished
           /\ CoveredBy(suite) = Feasible(formula)
           /\ finished' = TRUE
           /\ UNCHANGED <<formula, suite>>

ANext == AAdd \/ AFinish

ASpec == AInit /\ [][ANext]_avars
=============================================================================
