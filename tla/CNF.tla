-------------------------------- MODULE CNF --------------------------------
(***************************************************************************)
(* The data every part of the sampler shares: test cases, the CNF formula  *)
(* that read_cnf leaves in `clauses', the 2-tuples of option values and    *)
(* the relation "test case covers tuple" that Update2TupleInfo, get_gain   *)
(* and find_uncovered_tuples all walk over.                                *)
(*                                                                         *)
(* A 2-tuple is kept as <<i, v_i, j, v_j>> with i < j.  The program keeps  *)
(* its position in a bit set; StorageProofs proves that the position       *)
(* determines the tuple, so a set of tuples and the bit set agree.         *)
(***************************************************************************)
EXTENDS Integers, Sequences, FiniteSets

CONSTANT NumVar          \* num_var_: the number of options of the system

ASSUME NumVarAssumption == NumVar \in Nat /\ NumVar >= 2

Var == 0 .. NumVar - 1
Bit == {0, 1}

\* One row of testcase_set_: testcase[v] is 0 or 1 for every option v.
TestCase == [Var -> Bit]

\* DIMACS literals, 1-based and signed, and the clauses made of them.
Literal == (-NumVar .. NumVar) \ {0}
Clause  == Seq(Literal)
Formula == Seq(Clause)

LitVar(l)   == (IF l < 0 THEN -l ELSE l) - 1
LitValue(l) == IF l > 0 THEN 1 ELSE 0
ToLit(v, b) == IF b = 1 THEN v + 1 ELSE -v - 1

Holds(tc, l)      == tc[LitVar(l)] = LitValue(l)
SatClause(tc, c)  == \E p \in DOMAIN c : Holds(tc, c[p])
Satisfies(tc, F)  == \A c \in DOMAIN F : SatClause(tc, F[c])
Models(F)         == {tc \in TestCase : Satisfies(tc, F)}

\* as_backbone: the value a unit clause fixes (the last one read wins), or -1.
UnitClauses(F, v) == {c \in DOMAIN F : Len(F[c]) = 1 /\ LitVar(F[c][1]) = v}

AsBackbone(F) ==
  [v \in Var |->
     LET U == UnitClauses(F, v)
     IN  IF U = {} THEN -1
         ELSE LitValue(F[CHOOSE c \in U : \A d \in U : d <= c][1])]

\* The sum of f, a sequence of numbers, over the positions in S.
SumOver(S, f) ==
  LET sum[c \in 0 .. Len(f)] ==
        IF c = 0 THEN 0 ELSE IF c \in S THEN sum[c - 1] + f[c] ELSE sum[c - 1]
  IN  sum[Len(f)]

-----------------------------------------------------------------------------
(* 2-tuples *)

Tuple == {t \in Var \X Bit \X Var \X Bit : t[1] < t[3]}

Covers(tc, t) == tc[t[1]] = t[2] /\ tc[t[3]] = t[4]

TuplesOf(tc) == {t \in Tuple : Covers(tc, t)}

\* The valid tuples: what a pairwise covering array of F has to cover.
Feasible(F) == {t \in Tuple : \E tc \in Models(F) : Covers(tc, t)}

\* What a sequence of test cases covers.
CoveredBy(tcs) == UNION {TuplesOf(tcs[k]) : k \in DOMAIN tcs}

\* The tuples in which option v takes value b.
Mentions(t, v, b) == (t[1] = v /\ t[2] = b) \/ (t[3] = v /\ t[4] = b)

NumCombinationAllPossible == (NumVar * (NumVar - 1)) \div 2
NumTupleAllPossible       == NumCombinationAllPossible * 4
=============================================================================
