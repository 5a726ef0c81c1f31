----------------------------- MODULE FinalScan -----------------------------
(***************************************************************************)
(* clear_final and find_uncovered_tuples, the part of the final phase that *)
(* every strategy shares: walk all 2-tuples, take the impossible ones off  *)
(* num_tuple_all_exact_, and collect the uncovered ones, with a model of   *)
(* each when `simplify' asks for it.                                       *)
(*                                                                         *)
(* The incremental solver CDCLSolver::Solver keeps the assumptions added   *)
(* to it until clear_assumptions is called; solve answers for the formula  *)
(* under all of them.                                                      *)
(***************************************************************************)
EXTENDS Sampling

VARIABLES
  scan,                         \* <<i, v_i, j, v_j>>: the loop variables
  num_tuple_all_exact,
  uncovered_tuples,             \* pairs of literals
  uncovered_possible_solutions,
  assumptions                   \* of the final solver: a set of literals

scanVars == <<scan, num_tuple_all_exact, uncovered_tuples,
              uncovered_possible_solutions, assumptions>>

\* The pair of literals an uncovered tuple is stored as, and how the
\* strategies read i, v_i, j and v_j back from it.
TupleLits(t)  == <<ToLit(t[1], t[2]), ToLit(t[3], t[4])>>
LitsTuple(ls) == <<LitVar(ls[1]), IF ls[1] < 0 THEN 0 ELSE 1,
                   LitVar(ls[2]), IF ls[2] < 0 THEN 0 ELSE 1>>
LitPair       == Literal \X Literal

\* Fault: the clauses are not given to the solver.
ModelsUnderNoClauses(A) == {tc \in TestCase : \A l \in A : Holds(tc, l)}

\* The models of the formula under a set of assumed literals; CDCLSolver::solve
\* answers whether there are any and get_solution returns one of them.
ModelsUnder(A) == {tc \in Models(clauses) : \A l \in A : Holds(tc, l)}

-----------------------------------------------------------------------------
(* The order of the four loops *)

NextRow == IF scan[2] = 0 THEN <<scan[1], 1, scan[1] + 1, 0>>
                          ELSE <<scan[1] + 1, 0, scan[1] + 2, 0>>

NextTuple == IF scan[4] = 0 THEN [scan EXCEPT ![4] = 1]
             ELSE IF scan[3] < NumVar - 1 THEN [scan EXCEPT ![3] = @ + 1, ![4] = 0]
             ELSE NextRow

AtTuple == pc = "scan" /\ scan[1] < NumVar - 1

\* Fault: -1 is taken for a value.
RowImpossibleNoCheck == AsBackbone(clauses)[scan[1]] # scan[2]

\* The backbone rules out v_i, and v_j.
RowImpossible   == AsBackbone(clauses)[scan[1]] \notin {-1, scan[2]}
ValueImpossible == AsBackbone(clauses)[scan[3]] \notin {-1, scan[4]}

-----------------------------------------------------------------------------
(* Steps *)

FInit == /\ SInit
         /\ scan = <<0, 0, 1, 0>>
         /\ num_tuple_all_exact = 0
         /\ uncovered_tuples = <<>>
         /\ uncovered_possible_solutions = <<>>
         /\ assumptions = {}

Sample == SNext /\ UNCHANGED scanVars

\* clear_final up to the call of the strategy: a fresh solver.
ClearFinal ==
  /\ pc = "clear_final"
  /\ num_tuple_all_exact' = NumTupleAllPossible
  /\ assumptions' = {}
  /\ pc' = "scan"
  /\ UNCHANGED <<inputVars, testcase_set, num_generated, countVars, positive_appearance,
                 queueVars, scan, uncovered_tuples, uncovered_possible_solutions>>

scanFrame == <<inputVars, pc, testcase_set, num_generated, countVars,
               positive_appearance, queueVars>>

\* Fault: a row is counted as one tuple per option.
SkipRowOnce ==
  /\ AtTuple /\ RowImpossible
  /\ num_tuple_all_exact' = num_tuple_all_exact - (NumVar - scan[1] - 1)
  /\ scan' = NextRow
  /\ UNCHANGED <<scanFrame, uncovered_tuples, uncovered_possible_solutions, assumptions>>

\* v_i contradicts the backbone: all tuples of this row at once.
SkipRow ==
  /\ AtTuple /\ RowImpossible
  /\ num_tuple_all_exact' = num_tuple_all_exact - 2 * (NumVar - scan[1] - 1)
  /\ scan' = NextRow
  /\ UNCHANGED <<scanFrame, uncovered_tuples, uncovered_possible_solutions, assumptions>>

\* v_j contradicts the backbone.
SkipValue ==
  /\ AtTuple /\ ~RowImpossible /\ ValueImpossible
  /\ num_tuple_all_exact' = num_tuple_all_exact - 1
  /\ scan' = NextTuple
  /\ UNCHANGED <<scanFrame, uncovered_tuples, uncovered_possible_solutions, assumptions>>

Candidate == AtTuple /\ ~RowImpossible /\ ~ValueImpossible

SkipCovered ==
  /\ Candidate /\ scan \in already_t_wise
  /\ scan' = NextTuple
  /\ UNCHANGED <<scanFrame, num_tuple_all_exact, uncovered_tuples,
                 uncovered_possible_solutions, assumptions>>

\* Fault: only one option of the tuple is assumed.
SolvePossibleHalf ==
  /\ Candidate /\ scan \notin already_t_wise
  /\ \E tc \in ModelsUnder(assumptions \cup {ToLit(scan[1], scan[2])}) :
       uncovered_possible_solutions' = Append(uncovered_possible_solutions, tc)
  /\ uncovered_tuples' = Append(uncovered_tuples, TupleLits(scan))
  /\ assumptions' = {}
  /\ scan' = NextTuple
  /\ UNCHANGED <<scanFrame, num_tuple_all_exact>>

\* An uncovered tuple with simplify: solve with the tuple assumed, then
\* clear_assumptions.
SolvePossible ==
  /\ Candidate /\ scan \notin already_t_wise
  /\ \E tc \in ModelsUnder(assumptions \cup {ToLit(scan[1], scan[2]), ToLit(scan[3], scan[4])}) :
       uncovered_possible_solutions' = Append(uncovered_possible_solutions, tc)
  /\ uncovered_tuples' = Append(uncovered_tuples, TupleLits(scan))
  /\ assumptions' = {}
  /\ scan' = NextTuple
  /\ UNCHANGED <<scanFrame, num_tuple_all_exact>>

SolveImpossible ==
  /\ Candidate /\ scan \notin already_t_wise
  /\ ModelsUnder(assumptions \cup {ToLit(scan[1], scan[2]), ToLit(scan[3], scan[4])}) = {}
  /\ num_tuple_all_exact' = num_tuple_all_exact - 1
  /\ assumptions' = {}
  /\ scan' = NextTuple
  /\ UNCHANGED <<scanFrame, uncovered_tuples, uncovered_possible_solutions>>

\* An uncovered tuple without simplify: possible or not, keep it.
KeepUnsolved ==
  /\ Candidate /\ scan \notin already_t_wise
  /\ uncovered_tuples' = Append(uncovered_tuples, TupleLits(scan))
  /\ scan' = NextTuple
  /\ UNCHANGED <<scanFrame, num_tuple_all_exact, uncovered_possible_solutions, assumptions>>

FindUncoveredTuples(simplify) ==
  \/ SkipRow
  \/ SkipValue
  \/ SkipCovered
  \/ simplify /\ SolvePossible
  \/ simplify /\ SolveImpossible
  \/ ~simplify /\ KeepUnsolved

\* The loops are over and the strategy goes on with the tuples found.
ScanDone == pc = "scan" /\ scan[1] >= NumVar - 1

\* A strategy adds test case tc: emplace_back, ++num_generated_testcase_ and
\* Update2TupleInfo.
AddTestcase(tc) ==
  /\ testcase_set' = Append(testcase_set, tc)
  /\ num_generated' = num_generated + 1
  /\ Update2TupleInfo(tc)

-----------------------------------------------------------------------------
(* Properties *)

\* What is left to do, as numbers to be compared from the left: the phase;
\* then the tuples to cover and the stage of the round, or the position of the
\* scan, or what rest says of the strategy.
Stage == [init |-> 4, clear_pq |-> 3, weight |-> 2, generate |-> 1, update |-> 0]

Remaining(rest) ==
  CASE pc \in DOMAIN Stage  -> <<4, Cardinality(Tuple \ already_t_wise), Stage[pc], 0, 0>>
    [] pc = "clear_final" -> <<3, 0, 0, 0, 0>>
    [] pc = "scan"        -> <<2, NumVar - scan[1], 1 - scan[2], NumVar - scan[3], 1 - scan[4]>>
    [] pc = "done"        -> <<0, 0, 0, 0, 0>>
    [] OTHER              -> <<1, rest[1], rest[2], rest[3], 0>>

\* m is less than n at the first place where they differ, and no less than 0.
Fewer(m, n) ==
  \E k \in DOMAIN m : m[k] \in Nat /\ m[k] < n[k] /\ \A j \in 1 .. k - 1 : m[j] = n[j]

ScanTypeOK ==
  /\ TypeOK
  /\ scan \in (0 .. NumVar) \X Bit \X (0 .. NumVar + 1) \X Bit
  /\ num_tuple_all_exact \in Int
  /\ uncovered_tuples \in Seq(LitPair)
  /\ uncovered_possible_solutions \in Seq(TestCase)
  /\ assumptions \in SUBSET Literal

\* The order in which the loops meet the tuples.
Before(t, s) ==
  \/ t[1] < s[1]
  \/ t[1] = s[1] /\ t[2] < s[2]
  \/ t[1] = s[1] /\ t[2] = s[2] /\ t[3] < s[3]
  \/ t[1] = s[1] /\ t[2] = s[2] /\ t[3] = s[3] /\ t[4] < s[4]

Collected == {LitsTuple(uncovered_tuples[k]) : k \in DOMAIN uncovered_tuples}

\* The backbone shortcuts subtract row-wise and value-wise and skip the
\* solver, yet each impossible tuple passed is subtracted exactly once, and
\* with simplify the valid tuples passed are covered or collected.
ScanExact ==
  pc = "scan" =>
    /\ num_tuple_all_exact =
         NumTupleAllPossible - Cardinality({t \in Tuple \ Feasible(clauses) : Before(t, scan)})
    /\ \A t \in Feasible(clauses) : Before(t, scan) => t \in already_t_wise \cup Collected

\* Solution k, stored beside tuple k, is a valid configuration covering it.
SolutionsMatch ==
  /\ Len(uncovered_possible_solutions) = Len(uncovered_tuples)
  /\ \A k \in DOMAIN uncovered_tuples :
       /\ uncovered_possible_solutions[k] \in Models(clauses)
       /\ Covers(uncovered_possible_solutions[k], LitsTuple(uncovered_tuples[k]))
=============================================================================
