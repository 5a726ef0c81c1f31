-------------------------- MODULE FinalPlainProofs --------------------------
(***************************************************************************)
(* Proofs about the whole program with the default final strategy: the     *)
(* choice among the stored solutions, the covering array at the end, and   *)
(* the refinement of PairwiseCA.                                           *)
(***************************************************************************)
EXTENDS FinalPlain, SamplingProofs

-----------------------------------------------------------------------------
(* The inductive invariant *)

\* From the end of the scan on every valid tuple is covered or still ahead.
ChooseInv ==
  /\ choose \in Nat \ {0}
  /\ pc \in {"choose", "done"} =>
       /\ num_tuple_all_exact = Cardinality(Feasible(clauses))
       /\ \A t \in Feasible(clauses) :
            \/ t \in already_t_wise
            \/ \E k \in choose .. Len(uncovered_tuples) : LitsTuple(uncovered_tuples[k]) = t
  /\ pc = "done" => choose > Len(uncovered_tuples)

PInv == SInv /\ ScanInv /\ SolutionsMatch /\ ChooseInv

-----------------------------------------------------------------------------
(* The steps *)

LEMMA PInvInit == Init => PInv
BY ScanInvInit DEF Init, PInv, ChooseInv, FInit, SInit

\* Up to the end of the scan the strategy has not begun.
LEMMA BeforeChoosingPInv ==
  ASSUME PInv, SampleStep \/ ClearFinalStep \/ ScanStep
  PROVE  PInv'
<1>1. CASE SampleStep
  <2>1. SInv' /\ ScanInv' /\ UNCHANGED choose /\ pc' \notin {"choose", "done"}
    BY <1>1, SampleScanInv, ZenonT(40) DEF PInv, SampleStep, Sample, SNext, GenerateInitTestcaseCDCL,
       CountTestcase, ClearPQ, UpdateSampleWeight, GenerateTestcase
  <2>2. UNCHANGED <<clauses, uncovered_tuples, uncovered_possible_solutions>>
    BY <1>1, ZenonT(40) DEF SampleStep, Sample, scanVars, SNext, GenerateInitTestcaseCDCL, CountTestcase,
       ClearPQ, UpdateSampleWeight, GenerateTestcase, inputVars
  <2>3. SolutionsMatch' /\ ChooseInv'
    BY <2>1, <2>2 DEF PInv, SolutionsMatch, ChooseInv
  <2>. QED BY <2>1, <2>3, SMTT(30) DEF PInv
<1>2. CASE ClearFinalStep
  <2>1. /\ SInv' /\ ScanInv' /\ UNCHANGED choose /\ pc' \notin {"choose", "done"}
        /\ UNCHANGED <<clauses, uncovered_tuples, uncovered_possible_solutions>>
    BY <1>2, ClearFinalScanInv DEF PInv, ClearFinalStep, ClearFinal, inputVars
  <2>. QED BY <2>1 DEF PInv, SolutionsMatch, ChooseInv
<1>3. CASE ScanStep
  <2>1. SInv' /\ ScanInv' /\ SolutionsMatch' /\ UNCHANGED choose
    BY <1>3, FindScanInv, FindMatches DEF PInv, ScanStep
  <2>2. pc' \notin {"choose", "done"}
    BY <1>3 DEF ScanStep, FindUncoveredTuples, SkipRow, SkipValue, SkipCovered, SolvePossible,
       SolveImpossible, AtTuple, Candidate, scanFrame
  <2>. QED BY <2>1, <2>2 DEF PInv, ChooseInv
<1>. QED BY <1>1, <1>2, <1>3

\* At the end of the scan every tuple has been passed.
LEMMA StartChoosingPInv ==
  ASSUME PInv, StartChoosing
  PROVE  PInv'
<1>. USE DEF StartChoosing
<1>1. /\ UNCHANGED <<clauses, already_t_wise, scan, num_tuple_all_exact, uncovered_tuples,
                     uncovered_possible_solutions>>
      /\ pc = "scan" /\ pc' = "choose" /\ choose' = 1
  BY DEF inputVars, countVars, scanVars, ScanDone
<1>2. SInv' /\ ScanInv' /\ SolutionsMatch'
  <2>1. UNCHANGED clauses /\ UNCHANGED scanVars /\ pc \in InFinal /\ pc' \in InFinal \ {"scan"}
    BY <1>1 DEF InFinal
  <2>. QED BY <2>1, FinalPhaseSInv, ScanInvStays DEF PInv
<1>3. Feasible(clauses) = already_t_wise \cup Collected
  <2>1. Collected \subseteq Feasible(clauses)
    BY DEF PInv, ScanInv, CollectedOnce, Collected, SolutionsMatch, Feasible
  <2>. QED BY <2>1, ScanEnd, SInvFacts DEF PInv
<1>4. num_tuple_all_exact = Cardinality(Feasible(clauses))
  BY <1>3, ScanEnd DEF PInv
<1>5. ASSUME NEW t \in Feasible(clauses)
      PROVE  \/ t \in already_t_wise
             \/ \E k \in 1 .. Len(uncovered_tuples) : LitsTuple(uncovered_tuples[k]) = t
  <2>1. DOMAIN uncovered_tuples = 1 .. Len(uncovered_tuples)
    BY DEF PInv, ScanInv, CollectedOnce
  <2>. QED BY <1>3, <2>1 DEF Collected
<1>6. ChooseInv'
  BY <1>1, <1>4, <1>5 DEF ChooseInv
<1>. QED BY <1>2, <1>6 DEF PInv

LEMMA ChooseCoveredPInv ==
  ASSUME PInv, ChooseCovered
  PROVE  PInv'
<1>. USE DEF ChooseCovered, Choosing
<1>1. /\ UNCHANGED <<clauses, already_t_wise, num_tuple_all_exact, uncovered_tuples>>
      /\ UNCHANGED scanVars
      /\ pc = "choose" /\ pc' = "choose" /\ choose' = choose + 1 /\ choose \in Nat \ {0}
  BY DEF PInv, ChooseInv, sampleVars, inputVars, countVars, scanVars
<1>2. SInv'
  BY SInvNext DEF PInv
<1>3. ScanInv' /\ SolutionsMatch'
  <2>1. pc \in InFinal /\ pc' \in InFinal \ {"scan"}
    BY <1>1 DEF InFinal
  <2>. QED BY <1>1, <2>1, ScanInvStays DEF PInv
<1>4. Len(uncovered_tuples) \in Nat
  BY DEF PInv, ScanInv, CollectedOnce
<1>5. \A t \in Feasible(clauses) :
        \/ t \in already_t_wise
        \/ \E k \in choose + 1 .. Len(uncovered_tuples) : LitsTuple(uncovered_tuples[k]) = t
  <2>. SUFFICES ASSUME NEW t \in Feasible(clauses), t \notin already_t_wise
                PROVE  \E k \in choose + 1 .. Len(uncovered_tuples) :
                         LitsTuple(uncovered_tuples[k]) = t
    OBVIOUS
  <2>1. PICK k \in choose .. Len(uncovered_tuples) : LitsTuple(uncovered_tuples[k]) = t
    BY <1>1 DEF PInv, ChooseInv
  <2>2. k # choose
    BY <2>1 DEF ChosenTuple
  <2>. QED BY <1>1, <1>4, <2>1, <2>2
<1>6. ChooseInv'
  BY <1>1, <1>5 DEF PInv, ChooseInv
<1>. QED BY <1>2, <1>3, <1>6 DEF PInv

\* The stored solution of an uncovered tuple is valid and covers it.
LEMMA ChosenSolution ==
  ASSUME PInv, ChooseSolution
  PROVE  /\ uncovered_possible_solutions[choose] \in Models(clauses)
         /\ Covers(uncovered_possible_solutions[choose], ChosenTuple)
         /\ ChosenTuple \in TuplesOf(uncovered_possible_solutions[choose])
         /\ ~(TuplesOf(uncovered_possible_solutions[choose]) \subseteq already_t_wise)
<1>1. choose \in DOMAIN uncovered_tuples /\ ChosenTuple \notin already_t_wise
  BY DEF PInv, ChooseInv, ScanInv, CollectedOnce, SolutionsMatch, ChooseSolution, Choosing
<1>2. /\ uncovered_possible_solutions[choose] \in Models(clauses)
      /\ Covers(uncovered_possible_solutions[choose], ChosenTuple)
      /\ ChosenTuple \in Tuple
  BY <1>1 DEF PInv, ScanInv, CollectedOnce, SolutionsMatch, ChosenTuple
<1>. QED BY <1>1, <1>2 DEF TuplesOf

LEMMA ChooseSolutionPInv ==
  ASSUME PInv, ChooseSolution
  PROVE  PInv'
<1>. DEFINE tc == uncovered_possible_solutions[choose]
<1>1. /\ UNCHANGED <<clauses, upperlimit, pc, positive_appearance, pq, selected_bitset>>
      /\ UNCHANGED <<num_tuple_all_exact, uncovered_tuples>> /\ UNCHANGED scanVars
      /\ AddTestcase(tc) /\ pc = "choose" /\ pc' = "choose" /\ choose' = choose + 1
      /\ choose \in Nat \ {0}
  BY DEF ChooseSolution, Choosing, inputVars, queueVars, scanVars, PInv, ChooseInv
<1>2. /\ tc \in Models(clauses) /\ ChosenTuple \in TuplesOf(tc)
      /\ ~(TuplesOf(tc) \subseteq already_t_wise)
  BY ChosenSolution
<1>. HIDE DEF tc
<1>3. SInv' /\ already_t_wise' = already_t_wise \cup TuplesOf(tc)
  <2>1. pc \in InFinal /\ pc' \in InFinal
    BY <1>1 DEF InFinal
  <2>. QED BY <1>1, <1>2, <2>1, AddTestcaseSInv DEF PInv
<1>4. ScanInv' /\ SolutionsMatch'
  <2>1. pc \in InFinal /\ pc' \in InFinal \ {"scan"}
    BY <1>1 DEF InFinal
  <2>. QED BY <1>1, <2>1, ScanInvStays DEF PInv
<1>5. Len(uncovered_tuples) \in Nat
  BY DEF PInv, ScanInv, CollectedOnce
<1>6. \A t \in Feasible(clauses) :
        \/ t \in already_t_wise'
        \/ \E k \in choose + 1 .. Len(uncovered_tuples) : LitsTuple(uncovered_tuples[k]) = t
  <2>. SUFFICES ASSUME NEW t \in Feasible(clauses), t \notin already_t_wise'
                PROVE  \E k \in choose + 1 .. Len(uncovered_tuples) :
                         LitsTuple(uncovered_tuples[k]) = t
    OBVIOUS
  <2>1. PICK k \in choose .. Len(uncovered_tuples) : LitsTuple(uncovered_tuples[k]) = t
    BY <1>1, <1>3 DEF PInv, ChooseInv
  <2>2. k # choose
    BY <1>2, <1>3, <2>1 DEF ChosenTuple
  <2>. QED BY <1>1, <1>5, <2>1, <2>2
<1>7. ChooseInv'
  BY <1>1, <1>6 DEF PInv, ChooseInv
<1>. QED BY <1>3, <1>4, <1>7 DEF PInv

LEMMA FinishPInv ==
  ASSUME PInv, Finish
  PROVE  PInv'
<1>. USE DEF Finish, Choosing
<1>1. /\ UNCHANGED <<clauses, already_t_wise, num_tuple_all_exact, uncovered_tuples, choose>>
      /\ UNCHANGED scanVars /\ pc = "choose" /\ pc' = "done"
  BY DEF inputVars, countVars, scanVars
<1>2. SInv' /\ ScanInv' /\ SolutionsMatch'
  <2>1. pc \in InFinal /\ pc' \in InFinal \ {"scan"}
    BY <1>1 DEF InFinal
  <2>. QED BY <1>1, <2>1, FinalPhaseSInv, ScanInvStays DEF PInv
<1>3. choose > Len(uncovered_tuples)
  BY <1>1 DEF PInv, ScanInv, ChooseInv, SolutionsMatch
<1>4. ChooseInv'
  BY <1>1, <1>3 DEF PInv, ChooseInv
<1>. QED BY <1>2, <1>4 DEF PInv

-----------------------------------------------------------------------------
(* The theorems *)

\* Every step of the program keeps the invariant.
LEMMA PInvNext ==
  ASSUME PInv, [Next]_vars
  PROVE  PInv'
<1>1. CASE SampleStep \/ ClearFinalStep \/ ScanStep
  BY <1>1, BeforeChoosingPInv
<1>2. CASE StartChoosing
  BY <1>2, StartChoosingPInv
<1>3. CASE ChooseCovered
  BY <1>3, ChooseCoveredPInv
<1>4. CASE ChooseSolution
  BY <1>4, ChooseSolutionPInv
<1>5. CASE Finish
  BY <1>5, FinishPInv
<1>6. CASE UNCHANGED vars
  <2>1. SInv' /\ ScanInv' /\ UNCHANGED choose
    BY <1>6, StutterScanInv DEF PInv, vars
  <2>2. UNCHANGED <<clauses, pc, already_t_wise, num_tuple_all_exact, uncovered_tuples,
                    uncovered_possible_solutions>>
    BY <1>6 DEF vars, sampleVars, inputVars, countVars, scanVars
  <2>. QED BY <2>1, <2>2 DEF PInv, ChooseInv, SolutionsMatch
<1>. QED BY <1>1, <1>2, <1>3, <1>4, <1>5, <1>6 DEF Next, Step, Terminated

\* The invariant holds in every reachable state.
LEMMA SpecPInv == Spec => []PInv
BY PInvInit, PInvNext, PTL DEF Spec

\* Type correctness of the whole program with the default strategy.
THEOREM PlainTypeCorrect == Spec => []PlainTypeOK
<1>1. PInv => PlainTypeOK
  BY ScanParts, SMTT(30) DEF PInv, SInv, ScanInv, CollectedOnce, ChooseInv, PlainTypeOK, ScanTypeOK, Bit
<1>. QED BY <1>1, SpecPInv, PTL

\* The scan's shortcuts over rows and values the backbone rules out subtract
\* every impossible tuple exactly once and miss no valid one.
THEOREM PlainScanExact == Spec => []ScanExact
<1>1. PInv => ScanExact
  BY ScanInvExact DEF PInv
<1>. QED BY <1>1, SpecPInv, PTL

\* The two arrays the strategy walks in parallel stay parallel.
THEOREM PlainSolutionsMatch == Spec => []SolutionsMatch
<1>1. PInv => SolutionsMatch
  BY DEF PInv
<1>. QED BY <1>1, SpecPInv, PTL

\* At the end: every valid tuple is covered, or it would still be ahead.
LEMMA DoneCovers ==
  ASSUME PInv, choose > Len(uncovered_tuples), pc \in {"choose", "done"}
  PROVE  /\ already_t_wise = Feasible(clauses)
         /\ num_tuple = num_tuple_all_exact
         /\ num_tuple_all_exact = Cardinality(Feasible(clauses))
<1>1. choose \in Nat /\ Len(uncovered_tuples) \in Nat
  BY DEF PInv, ChooseInv, ScanInv
<1>2. Feasible(clauses) \subseteq already_t_wise
  BY <1>1 DEF PInv, ChooseInv
<1>3. already_t_wise = Feasible(clauses)
  BY <1>2, SInvFacts DEF PInv
<1>. QED BY <1>3 DEF PInv, ChooseInv, SInv, RowsInv

\* The run ends only with a pairwise covering array, and the log reports the
\* true number of valid tuples and full coverage, for every system, every
\* candidate set size and every limit.
THEOREM PlainDeliversCoveringArray == Spec => []DeliversCoveringArray
<1>1. PInv => DeliversCoveringArray
  BY DoneCovers DEF DeliversCoveringArray, PInv, ChooseInv
<1>. QED BY <1>1, SpecPInv, PTL

-----------------------------------------------------------------------------
(* The refinement *)

\* What a prefix covers, in the words of the abstract specification.
LEMMA CoveredByCounted ==
  ASSUME SInv
  PROVE  CoveredBy(Counted) = already_t_wise
BY SInvImplies DEF CoverageExact

\* Counting the newest row appends it to the suite.
LEMMA CountedNext ==
  ASSUME NEW S, NEW s \in Seq(S), NEW n \in 0 .. Len(s) - 1
  PROVE  SubSeq(s, 1, n + 1) = Append(SubSeq(s, 1, n), s[n + 1])
<1>. DEFINE a == SubSeq(s, 1, n)
            b == SubSeq(s, 1, n + 1)
<1>1. Len(s) \in Nat /\ n \in Nat /\ n + 1 <= Len(s) /\ s[n + 1] \in S
  OBVIOUS
<1>2. a \in Seq(S) /\ Len(a) = n /\ \A k \in 1 .. n : a[k] = s[k]
  BY <1>1, SubSeqProperties
<1>3. b \in Seq(S) /\ Len(b) = n + 1 /\ \A k \in 1 .. n + 1 : b[k] = s[k]
  BY <1>1, SubSeqProperties
<1>. HIDE DEF a, b
<1>4. /\ Append(a, s[n + 1]) \in Seq(S) /\ Len(Append(a, s[n + 1])) = n + 1
      /\ \A k \in 1 .. n : Append(a, s[n + 1])[k] = a[k]
      /\ Append(a, s[n + 1])[n + 1] = s[n + 1]
  BY <1>1, <1>2, AppendProperties
<1>5. \A k \in 1 .. n + 1 : b[k] = Append(a, s[n + 1])[k]
  <2>1. \A k \in 1 .. n + 1 : k \in 1 .. n \/ k = n + 1
    BY <1>1
  <2>. QED BY <1>2, <1>3, <1>4, <2>1
<1>6. b = Append(a, s[n + 1])
  BY <1>3, <1>4, <1>5, SeqEqual
<1>. QED BY <1>6 DEF a, b

\* A row not yet counted leaves the suite as it was.
LEMMA CountedAppend ==
  ASSUME NEW S, NEW s \in Seq(S), NEW x \in S
  PROVE  SubSeq(Append(s, x), 1, Len(s)) = s
<1>. DEFINE a == Append(s, x)
            b == SubSeq(a, 1, Len(s))
<1>1. Len(s) \in Nat
  OBVIOUS
<1>2. \A k \in 1 .. Len(s) : a[k] = s[k] /\ a[k] \in S
  BY AppendProperties
<1>. HIDE DEF a
<1>3. b \in Seq(S) /\ Len(b) = Len(s) /\ \A k \in 1 .. Len(s) : b[k] = a[k]
  BY <1>1, <1>2, SubSeqProperties
<1>. HIDE DEF b
<1>4. b = s
  BY <1>2, <1>3, SeqEqual
<1>. QED BY <1>4 DEF a, b

\* With every row counted the suite is testcase_set_.
LEMMA CountedFull ==
  ASSUME NEW S, NEW s \in Seq(S)
  PROVE  SubSeq(s, 1, Len(s)) = s
<1>1. SubSeq(s, 1, Len(s)) \in Seq(S) /\ Len(SubSeq(s, 1, Len(s))) = Len(s)
      /\ \A k \in 1 .. Len(s) : SubSeq(s, 1, Len(s))[k] = s[k]
  BY SubSeqProperties
<1>. QED BY <1>1, SeqEqual

\* The instance speaks of the same formulas, models and tuples.
LEMMA PromiseSame ==
  /\ Promise!Formula = Formula
  /\ \A F : Promise!Models(F) = Models(F)
  /\ \A F : Promise!Feasible(F) = Feasible(F)
  /\ \A tc : Promise!TuplesOf(tc) = TuplesOf(tc)
  /\ \A tcs : Promise!CoveredBy(tcs) = CoveredBy(tcs)
<1>1. /\ Promise!Formula = Formula
      /\ Promise!Tuple = Tuple
      /\ Promise!TestCase = TestCase
  BY DEF Promise!Formula, Formula, Promise!Clause, Clause, Promise!Literal, Literal,
         Promise!Tuple, Tuple, Promise!Var, Var, Promise!Bit, Bit, Promise!TestCase, TestCase
<1>2. ASSUME NEW F, NEW tc PROVE Promise!Satisfies(tc, F) <=> Satisfies(tc, F)
  BY DEF Promise!Satisfies, Satisfies, Promise!SatClause, SatClause, Promise!Holds, Holds,
         Promise!LitVar, LitVar, Promise!LitValue, LitValue
<1>3. ASSUME NEW F PROVE Promise!Models(F) = Models(F)
  BY <1>1, <1>2 DEF Promise!Models, Models
<1>4. ASSUME NEW tc, NEW t PROVE Promise!Covers(tc, t) <=> Covers(tc, t)
  BY DEF Promise!Covers, Covers
<1>5. ASSUME NEW tc PROVE Promise!TuplesOf(tc) = TuplesOf(tc)
  BY <1>1, <1>4 DEF Promise!TuplesOf, TuplesOf
<1>6. ASSUME NEW F PROVE Promise!Feasible(F) = Feasible(F)
  BY <1>1, <1>3, <1>4 DEF Promise!Feasible, Feasible
<1>7. ASSUME NEW tcs PROVE Promise!CoveredBy(tcs) = CoveredBy(tcs)
  BY <1>5 DEF Promise!CoveredBy, CoveredBy
<1>. QED BY <1>1, <1>3, <1>5, <1>6, <1>7

\* A step that appends a valid row with something new is the abstract AAdd.
LEMMA CountsOneRow ==
  ASSUME SInv, UNCHANGED clauses, pc # "done", pc' # "done",
         NEW tc \in Models(clauses),
         Counted' = Append(Counted, tc),
         ~(TuplesOf(tc) \subseteq already_t_wise)
  PROVE  Promise!AAdd
BY CoveredByCounted, PromiseSame DEF Promise!AAdd

\* A step of the sampling phase adds the newest row when it is counted.
LEMMA SampleRefines ==
  ASSUME PInv, SNext
  PROVE  [Promise!ANext]_Promise!avars
<1>1. /\ SInv /\ clauses \in Formula
      /\ testcase_set \in Seq(TestCase)
      /\ num_generated \in Nat /\ num_generated = Len(testcase_set)
  BY SInvFacts, SMTT(30) DEF PInv
<1>2. /\ UNCHANGED clauses
      /\ pc \in {"init", "update", "clear_pq", "weight", "generate"}
      /\ pc' \in {"update", "clear_pq", "weight", "generate", "clear_final"}
  BY DEF SNext, GenerateInitTestcaseCDCL, CountTestcase, ClearPQ, UpdateSampleWeight,
         GenerateTestcase, inputVars
<1>3. ASSUME Counted' = Counted PROVE UNCHANGED Promise!avars
  BY <1>2, <1>3 DEF Promise!avars
<1>4. CASE GenerateInitTestcaseCDCL
  <2>1. pc = "init" /\ pc' = "update" /\ num_generated = 0 /\ num_generated' = 1
    BY <1>4 DEF GenerateInitTestcaseCDCL, PInv, SInv, RowsInv
  <2>2. Counted = <<>> /\ Counted' = <<>>
    BY <2>1, SubSeqEmpty DEF Counted, Uncounted
  <2>. QED BY <1>3, <2>2
<1>5. CASE CountTestcase
  <2>. DEFINE n == num_generated - 1
              tc == testcase_set[num_generated]
  <2>1. pc = "update" /\ pc' # "update" /\ UNCHANGED <<testcase_set, num_generated>>
    BY <1>5 DEF CountTestcase
  <2>2. n \in 0 .. Len(testcase_set) - 1 /\ n + 1 = num_generated
        /\ num_generated \in DOMAIN testcase_set
    BY <1>1, <2>1 DEF PInv, SInv, RowsInv
  <2>3. Counted = SubSeq(testcase_set, 1, n) /\ Counted' = SubSeq(testcase_set, 1, n + 1)
    BY <2>1, <2>2 DEF Counted, Uncounted
  <2>4. SubSeq(testcase_set, 1, n + 1) = Append(SubSeq(testcase_set, 1, n), testcase_set[n + 1])
    BY <1>1, <2>2, CountedNext
  <2>5. Counted' = Append(Counted, tc)
    BY <2>2, <2>3, <2>4
  <2>6. tc \in Models(clauses) /\ ~(TuplesOf(tc) \subseteq already_t_wise)
    BY <2>1, <2>2 DEF PInv, SInv, RowsValid, RowsInv, FreshInv, Uncounted
  <2>7. Promise!AAdd
    BY <1>1, <1>2, <2>5, <2>6, CountsOneRow
  <2>. QED BY <2>7 DEF Promise!ANext
<1>6. CASE ClearPQ
  BY <1>3, <1>6 DEF ClearPQ, Counted, Uncounted
<1>7. CASE UpdateSampleWeight
  BY <1>3, <1>7 DEF UpdateSampleWeight, Counted, Uncounted
<1>8. CASE GenerateTestcase
  <2>1. pc = "generate" /\ Counted = testcase_set
    BY <1>1, <1>8, CountedFull DEF GenerateTestcase, Counted, Uncounted
  <2>2. CASE pc' = "clear_final" /\ UNCHANGED <<testcase_set, num_generated>>
    BY <1>3, <2>1, <2>2 DEF Counted, Uncounted
  <2>3. CASE ~(pc' = "clear_final" /\ UNCHANGED <<testcase_set, num_generated>>)
    <3>1. /\ pc' = "update" /\ num_generated' = num_generated + 1
          /\ \E x : testcase_set' = Append(testcase_set, x)
      BY <1>8, <2>3 DEF GenerateTestcase
    <3>2. PICK x : testcase_set' = Append(testcase_set, x)
      BY <3>1
    <3>3. SInv'
      BY <1>8, SInvNext DEF SNext, PInv
    <3>4. testcase_set' \in Seq(TestCase) /\ Len(testcase_set') = Len(testcase_set) + 1
      BY <1>1, <3>1, <3>3 DEF SInv, TypeOK, RowsValid
    <3>5. x \in TestCase
      <4>1. testcase_set'[Len(testcase_set) + 1] = x
        BY <1>1, <3>2
      <4>. QED BY <1>1, <3>4, <4>1
    <3>6. SubSeq(testcase_set', 1, Len(testcase_set)) = testcase_set
      BY <1>1, <3>2, <3>5, CountedAppend
    <3>7. Counted' = testcase_set
      BY <1>1, <3>1, <3>6 DEF Counted, Uncounted
    <3>. QED BY <1>3, <2>1, <3>7
  <2>. QED BY <2>2, <2>3
<1>. QED BY <1>4, <1>5, <1>6, <1>7, <1>8 DEF SNext

\* A stored solution that is used is a new valid row.
LEMMA ChooseSolutionRefines ==
  ASSUME PInv, ChooseSolution
  PROVE  Promise!AAdd
<1>. DEFINE tc == uncovered_possible_solutions[choose]
<1>1. /\ testcase_set \in Seq(TestCase) /\ num_generated = Len(testcase_set)
      /\ num_generated \in Nat
  BY SInvFacts DEF PInv
<1>2. /\ pc = "choose" /\ pc' = "choose" /\ UNCHANGED clauses
      /\ testcase_set' = Append(testcase_set, tc) /\ num_generated' = num_generated + 1
  BY DEF ChooseSolution, Choosing, AddTestcase, inputVars
<1>3. tc \in Models(clauses) /\ ~(TuplesOf(tc) \subseteq already_t_wise)
  BY ChosenSolution
<1>. HIDE DEF tc
<1>4. testcase_set' \in Seq(TestCase) /\ Len(testcase_set') = num_generated'
  BY <1>1, <1>2, <1>3, AppendProperties DEF Models
<1>5. Counted = testcase_set /\ Counted' = testcase_set'
  BY <1>1, <1>2, <1>4, CountedFull DEF Counted, Uncounted
<1>. QED BY <1>2, <1>3, <1>5, CountsOneRow DEF PInv

\* Every step of the program is an abstract step or a stutter.
LEMMA StepRefines ==
  ASSUME PInv, [Next]_vars
  PROVE  [Promise!ANext]_Promise!avars
<1>1. CASE SampleStep
  BY <1>1, SampleRefines DEF SampleStep, Sample
<1>2. CASE ClearFinalStep \/ ScanStep \/ StartChoosing \/ ChooseCovered \/ UNCHANGED vars
  <2>1. /\ UNCHANGED <<clauses, testcase_set, num_generated>>
        /\ pc' = pc \/ (pc \in {"clear_final", "scan"} /\ pc' \in {"scan", "choose"})
    BY <1>2 DEF ClearFinalStep, ClearFinal, ScanStep, FindUncoveredTuples, SkipRow, SkipValue,
         SkipCovered, SolvePossible, SolveImpossible, scanFrame, StartChoosing, ScanDone,
         ChooseCovered, vars, sampleVars, inputVars
  <2>2. Counted' = Counted /\ (pc' = "done" <=> pc = "done")
    BY <2>1 DEF Counted, Uncounted
  <2>. QED BY <2>1, <2>2 DEF Promise!avars
<1>3. CASE ChooseSolution
  BY <1>3, ChooseSolutionRefines DEF Promise!ANext
<1>4. CASE Finish
  <2>1. /\ pc = "choose" /\ pc' = "done" /\ UNCHANGED <<clauses, testcase_set, num_generated>>
    BY <1>4 DEF Finish, inputVars
  <2>2. Counted' = Counted
    BY <2>1 DEF Counted, Uncounted
  <2>3. choose > Len(uncovered_tuples)
    BY <1>4 DEF Finish, Choosing, PInv, ScanInv, ChooseInv, SolutionsMatch
  <2>4. CoveredBy(Counted) = Feasible(clauses)
    BY <2>1, <2>3, DoneCovers, CoveredByCounted DEF PInv
  <2>. QED BY <2>1, <2>2, <2>4, PromiseSame DEF Promise!ANext, Promise!AFinish
<1>. QED BY <1>1, <1>2, <1>3, <1>4 DEF Next, Step, Terminated

\* The whole program with the default strategy implements PairwiseCA: it
\* only ever adds valid rows that cover something new, and stops with a
\* covering array.
THEOREM PlainRefines == Spec => Refines
<1>1. Init => Promise!AInit
  <2>. SUFFICES ASSUME Init PROVE Promise!AInit
    OBVIOUS
  <2>1. clauses \in Formula /\ pc = "init" /\ num_generated = 0
    BY SamplingAssumption DEF Init, FInit, SInit
  <2>2. Counted = <<>>
    BY <2>1, SubSeqEmpty DEF Counted, Uncounted
  <2>. QED BY <2>1, <2>2, PromiseSame DEF Promise!AInit
<1>2. PInv /\ [Next]_vars => [Promise!ANext]_Promise!avars
  BY StepRefines
<1>. QED BY <1>1, <1>2, SpecPInv, PTL DEF Spec, Refines, Promise!ASpec

-----------------------------------------------------------------------------
(* Every step leaves less to do *)

LEMMA StepAdvances ==
  ASSUME PInv, Step
  PROVE  Fewer(WorkLeft', WorkLeft)
<1>. DEFINE n == Len(uncovered_possible_solutions)
<1>1. n \in Nat /\ choose \in Nat
  BY DEF PInv, ScanInv, ChooseInv
<1>2. /\ pc = "choose" => WorkLeft = <<1, n + 1 - choose, 0, 0, 0>>
      /\ pc' = "choose" => WorkLeft' = <<1, n' + 1 - choose', 0, 0, 0>>
      /\ pc' = "done" => WorkLeft' = <<0, 0, 0, 0, 0>>
  BY DEF WorkLeft, Remaining, Stage
<1>3. CASE SampleStep \/ ClearFinalStep \/ ScanStep
  <2>1. /\ pc \in BeforeScan \cup {"scan"} /\ pc' \in BeforeScan \cup {"scan"}
        /\ Fewer(EarlyWork', EarlyWork)
    BY <1>3, EarlyAdvances DEF PInv, SampleStep, ClearFinalStep, ScanStep
  <2>2. WorkLeft = EarlyWork /\ WorkLeft' = EarlyWork'
    BY <2>1 DEF WorkLeft, EarlyWork, Remaining, Stage, BeforeScan
  <2>. QED BY <2>1, <2>2
<1>4. CASE StartChoosing
  <2>1. pc = "scan" /\ pc' = "choose"
    BY <1>4 DEF StartChoosing, ScanDone
  <2>2. WorkLeft = <<2, NumVar - scan[1], 1 - scan[2], NumVar - scan[3], 1 - scan[4]>>
    BY <2>1 DEF WorkLeft, Remaining, Stage
  <2>. QED BY <1>2, <2>1, <2>2, FewerNumbers
<1>5. CASE ChooseCovered \/ ChooseSolution
  <2>1. pc = "choose" /\ pc' = "choose" /\ n' = n /\ choose <= n /\ choose' = choose + 1
    BY <1>5 DEF ChooseCovered, ChooseSolution, Choosing, sampleVars, scanVars
  <2>2. n' + 1 - choose' \in Nat /\ n' + 1 - choose' < n + 1 - choose
    BY <1>1, <2>1
  <2>. HIDE DEF n
  <2>. QED BY <1>2, <2>1, <2>2, FewerNumbers
<1>6. CASE Finish
  <2>1. pc = "choose" /\ pc' = "done"
    BY <1>6 DEF Finish
  <2>. QED BY <1>2, <2>1, FewerNumbers
<1>. QED BY <1>3, <1>4, <1>5, <1>6 DEF Step

\* The program with the default strategy goes on for a bounded time: every step
\* lowers five numbers, compared from the left, that cannot fall below 0.
THEOREM PlainAdvances == Spec => Advances
<1>1. PInv /\ [Next]_vars => [Fewer(WorkLeft', WorkLeft)]_vars
  BY StepAdvances DEF Next, Terminated
<1>. QED BY <1>1, SpecPInv, PTL DEF Spec, Advances
=============================================================================
