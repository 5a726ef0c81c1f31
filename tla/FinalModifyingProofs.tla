------------------------ MODULE FinalModifyingProofs ------------------------
(***************************************************************************)
(* Proofs about the whole program with final strategies 3 and 4, for every *)
(* system and every shuffle.  Rows need not be valid once modified, so the *)
(* invariant of the sampling phase ends with the scan; what remains is     *)
(* that no tuple is lost on the way to being covered.                      *)
(***************************************************************************)
EXTENDS FinalModifying, SamplingProofs

-----------------------------------------------------------------------------
(* The inductive invariant *)

Modifying == {"choose", "modify", "filter", "done"}

TupleIds == Seq(1 .. Len(uncovered_tuples))

ListInv ==
  /\ pc \in BeforeScan \cup {"scan"} \cup Modifying
  /\ tupleids \in TupleIds /\ tmp_tupleids \in TupleIds
  /\ row \in TestCase /\ asgn_fixed \in [Var -> BOOLEAN]
  /\ clause_truecount \in [DOMAIN clauses -> Int]
  /\ try \in Nat \ {0}
  /\ pc \notin Modifying => tupleids = <<>> /\ tmp_tupleids = <<>>
  /\ pc = "done" => tupleids = <<>>

\* The options of the tuple the row started from are fixed at its values, so
\* that no other tuple can move them.
RowInv ==
  pc = "modify" =>
    /\ tupleids # <<>>
    /\ \A a \in {1, 2} : LET l == uncovered_tuples[tupleids[1]][a]
                         IN  asgn_fixed[LitVar(l)] /\ Holds(row, l)

\* Tuple t is at or behind entry n of the list s.
Ahead(s, n, t) == \E k \in n .. Len(s) : LitsTuple(uncovered_tuples[s[k]]) = t

Left(t) == IF pc = "filter" THEN Ahead(tmp_tupleids, 1, t) \/ Ahead(tupleids, try, t)
                            ELSE Ahead(tupleids, 1, t)

\* Every valid tuple is covered or still in a list.
LeftInv ==
  pc \in Modifying =>
    /\ num_tuple_all_exact = Cardinality(Feasible(clauses))
    /\ \A t \in Feasible(clauses) : t \in already_t_wise \/ Left(t)

MInv == /\ TypeOK /\ ScanInv /\ SolutionsMatch
        /\ pc \notin Modifying => SInv
        /\ ListInv /\ RowInv /\ LeftInv

-----------------------------------------------------------------------------
(* Types *)

\* A step that leaves the rows and the counters alone.
LEMMA TypeFrame ==
  ASSUME TypeOK, UNCHANGED <<inputVars, testcase_set, num_generated, countVars,
                             positive_appearance, queueVars>>
  PROVE  TypeOK'
BY DEF TypeOK, inputVars, countVars, queueVars

LEMMA LitParts ==
  ASSUME NEW ls \in LitPair, NEW a \in {1, 2}
  PROVE  ls[a] \in Literal /\ LitVar(ls[a]) \in Var /\ LitValue(ls[a]) \in Bit
BY NumVarAssumption DEF LitPair, Literal, LitVar, LitValue, Var, Bit

\* A row that covers a tuple makes its literals true.
LEMMA CoveredPair ==
  ASSUME NEW ls \in LitPair, NEW tc, Covers(tc, LitsTuple(ls)), NEW a \in {1, 2}
  PROVE  Holds(tc, ls[a])
<1>1. \A l \in Literal : LitValue(l) = IF l < 0 THEN 0 ELSE 1
  BY NumVarAssumption DEF Literal, LitValue
<1>2. ls[1] \in Literal /\ ls[2] \in Literal
  BY DEF LitPair
<1>3. /\ tc[LitVar(ls[1])] = (IF ls[1] < 0 THEN 0 ELSE 1)
      /\ tc[LitVar(ls[2])] = (IF ls[2] < 0 THEN 0 ELSE 1)
  BY DEF Covers, LitsTuple
<1>. QED BY <1>1, <1>2, <1>3 DEF Holds

\* The converse.
LEMMA PairHolds ==
  ASSUME NEW ls \in LitPair, NEW tc, \A a \in {1, 2} : Holds(tc, ls[a])
  PROVE  Covers(tc, LitsTuple(ls))
<1>1. ls[1] \in Literal /\ ls[2] \in Literal
  BY DEF LitPair
<1>2. \A l \in Literal : LitValue(l) = IF l < 0 THEN 0 ELSE 1
  BY NumVarAssumption DEF Literal, LitValue
<1>. QED BY <1>1, <1>2 DEF Covers, LitsTuple, Holds

LEMMA ClauseDomain ==
  ASSUME clauses \in Formula, NEW c \in DOMAIN clauses, NEW T \in SUBSET (DOMAIN clauses[c])
  PROVE  Cardinality(T) \in Int
<1>1. Len(clauses[c]) \in Nat /\ DOMAIN clauses[c] = 1 .. Len(clauses[c])
  BY DEF Formula, Clause
<1>2. IsFiniteSet(DOMAIN clauses[c])
  BY <1>1, FS_Interval
<1>. QED BY <1>2, FS_Subset, FS_CardinalityType

LEMMA CountTypes ==
  ASSUME clauses \in Formula, NEW c \in DOMAIN clauses
  PROVE  /\ \A tc : TrueCount(tc, c) \in Int
         /\ \A l : Occurrences(c, l) \in Int
BY ClauseDomain DEF TrueCount, Occurrences

\* What every step of the strategy starts from.
LEMMA ModifyingFacts ==
  ASSUME MInv
  PROVE  /\ clauses \in Formula
         /\ uncovered_tuples \in Seq(LitPair) /\ Len(uncovered_tuples) \in Nat
         /\ DOMAIN uncovered_tuples = 1 .. Len(uncovered_tuples)
         /\ tupleids \in TupleIds /\ Len(tupleids) \in Nat
         /\ tmp_tupleids \in TupleIds /\ Len(tmp_tupleids) \in Nat
         /\ \A k \in 1 .. Len(tupleids) :
              /\ tupleids[k] \in DOMAIN uncovered_tuples
              /\ uncovered_tuples[tupleids[k]] \in LitPair
         /\ row \in TestCase /\ asgn_fixed \in [Var -> BOOLEAN] /\ try \in Nat \ {0}
         /\ clause_truecount \in [DOMAIN clauses -> Int]
<1>1. clauses \in Formula
  BY SamplingAssumption DEF MInv, TypeOK
<1>2. uncovered_tuples \in Seq(LitPair)
  BY DEF MInv, ScanInv, CollectedOnce
<1>3. tupleids \in Seq(1 .. Len(uncovered_tuples)) /\ tmp_tupleids \in Seq(1 .. Len(uncovered_tuples))
  BY DEF MInv, ListInv, TupleIds
<1>. QED BY <1>1, <1>2, <1>3 DEF MInv, ListInv, TupleIds

-----------------------------------------------------------------------------
(* The steps *)

LEMMA MInvInit == Init => MInv
<1>. SUFFICES ASSUME Init PROVE MInv
  OBVIOUS
<1>1. SInv /\ ScanInv /\ SolutionsMatch /\ pc = "init"
  BY ScanInvInit DEF Init, FInit, SInit
<1>2. row \in TestCase
  BY DEF Init, TestCase, Bit
<1>3. ListInv
  BY <1>1, <1>2 DEF Init, ListInv, TupleIds, BeforeScan, Modifying
<1>. QED BY <1>1, <1>3 DEF MInv, SInv, RowInv, LeftInv, Modifying

LEMMA BeforeChoosingMInv ==
  ASSUME MInv, SampleStep \/ ClearFinalStep \/ ScanStep
  PROVE  MInv'
<1>1. pc \notin Modifying /\ pc' \notin Modifying /\ pc' \in BeforeScan \cup {"scan"}
      /\ UNCHANGED clauses
  <2>1. CASE SampleStep
    BY <2>1, ZenonT(40) DEF SampleStep, Sample, SNext, GenerateInitTestcaseCDCL, CountTestcase, ClearPQ,
       UpdateSampleWeight, GenerateTestcase, Modifying, BeforeScan, inputVars
  <2>2. CASE ClearFinalStep
    BY <2>2 DEF ClearFinalStep, ClearFinal, Modifying, BeforeScan, inputVars
  <2>3. CASE ScanStep
    BY <2>3 DEF ScanStep, FindUncoveredTuples, SkipRow, SkipValue, SkipCovered, SolvePossible,
       SolveImpossible, KeepUnsolved, AtTuple, Candidate, scanFrame, Modifying, BeforeScan,
       inputVars
  <2>. QED BY <2>1, <2>2, <2>3, SMTT(30)
<1>2. SInv /\ ScanInv /\ SolutionsMatch
  BY <1>1 DEF MInv
<1>3. SInv' /\ ScanInv'
  BY <1>2, SampleScanInv, ClearFinalScanInv, FindScanInv DEF SampleStep, ClearFinalStep, ScanStep
<1>4. SolutionsMatch'
  <2>1. CASE ScanStep
    BY <1>2, <2>1, FindMatches DEF ScanStep
  <2>2. CASE SampleStep \/ ClearFinalStep
    <3>1. UNCHANGED <<uncovered_tuples, uncovered_possible_solutions>>
      BY <2>2 DEF SampleStep, Sample, ClearFinalStep, ClearFinal, scanVars
    <3>. QED BY <1>1, <1>2, <3>1 DEF SolutionsMatch
  <2>. QED BY <2>1, <2>2
<1>5. UNCHANGED <<tupleids, row, asgn_fixed, clause_truecount, try, tmp_tupleids>>
  BY DEF SampleStep, ClearFinalStep, ScanStep, rowVars
<1>6. ListInv'
  <2>1. tupleids' = <<>> /\ tmp_tupleids' = <<>>
    BY <1>1, <1>5 DEF MInv, ListInv
  <2>2. tupleids' \in TupleIds' /\ tmp_tupleids' \in TupleIds'
    BY <2>1 DEF TupleIds
  <2>. QED BY <1>1, <1>5, <2>1, <2>2 DEF MInv, ListInv, Modifying
<1>. QED BY <1>1, <1>3, <1>4, <1>6 DEF MInv, SInv, RowInv, LeftInv, Modifying

\* At the end of the scan the list holds every tuple collected, shuffled or
\* not.
LEMMA StartChoosingMInv ==
  ASSUME MInv, StartChoosing
  PROVE  MInv'
<1>. DEFINE n == Len(uncovered_tuples)
<1>1. /\ UNCHANGED <<inputVars, testcase_set, num_generated, countVars, positive_appearance,
                     queueVars>>
      /\ UNCHANGED <<clauses, already_t_wise, num_tuple_all_exact, uncovered_tuples, row,
                     asgn_fixed, clause_truecount, try, tmp_tupleids>>
      /\ UNCHANGED scanVars
      /\ pc = "scan" /\ pc' = "choose" /\ ScanDone
      /\ tupleids' \in Bijection(1 .. n, 1 .. n) \cup {Identity(n)}
  BY DEF StartChoosing, ScanDone, inputVars, countVars, scanVars
<1>2. SInv /\ ScanInv /\ SolutionsMatch
  BY <1>1 DEF MInv, Modifying
<1>3. TypeOK' /\ ScanInv' /\ SolutionsMatch'
  <2>1. pc \in InFinal /\ pc' \in InFinal \ {"scan"}
    BY <1>1 DEF InFinal
  <2>. QED BY <1>1, <1>2, <2>1, ScanInvStays, TypeFrame DEF MInv
<1>4. n \in Nat /\ DOMAIN uncovered_tuples = 1 .. n
  BY <1>2 DEF ScanInv, CollectedOnce
<1>5. /\ tupleids' \in [1 .. n -> 1 .. n]
      /\ \A k \in 1 .. n : \E a \in 1 .. n : tupleids'[a] = k
  <2>. HIDE DEF n
  <2>1. CASE tupleids' \in Bijection(1 .. n, 1 .. n)
    BY <2>1 DEF Bijection, Injection, Surjection, IsInjective
  <2>2. CASE tupleids' = Identity(n)
    BY <1>4, <2>2 DEF Identity
  <2>3. tupleids' \in Bijection(1 .. n, 1 .. n) \/ tupleids' = Identity(n)
    BY <1>1
  <2>. QED BY <2>1, <2>2, <2>3
<1>6. tupleids' \in Seq(1 .. n) /\ Len(tupleids') = n
  BY <1>4, <1>5, SMTT(30)
<1>7. Feasible(clauses) = already_t_wise \cup Collected
  <2>1. Collected \subseteq Feasible(clauses)
    BY <1>2 DEF ScanInv, CollectedOnce, Collected, SolutionsMatch, Feasible
  <2>. QED BY <1>1, <1>2, <2>1, ScanEnd, SInvFacts
<1>8. LeftInv'
  <2>1. num_tuple_all_exact' = Cardinality(Feasible(clauses))
    BY <1>1, <1>2, <1>7, ScanEnd
  <2>2. ASSUME NEW t \in Collected PROVE Ahead(tupleids, 1, t)'
    <3>1. PICK k \in 1 .. n : t = LitsTuple(uncovered_tuples[k])
      BY <1>4 DEF Collected
    <3>2. PICK a \in 1 .. n : tupleids'[a] = k
      BY <1>5
    <3>. QED BY <1>1, <1>6, <3>1, <3>2 DEF Ahead
  <2>3. \A t \in Feasible(clauses) : t \in already_t_wise' \/ Ahead(tupleids, 1, t)'
    BY <1>1, <1>7, <2>2
  <2>. QED BY <1>1, <2>1, <2>3 DEF LeftInv, Left
<1>9. ListInv'
  <2>1. tupleids' \in TupleIds' /\ tmp_tupleids' \in TupleIds'
    BY <1>1, <1>6 DEF MInv, ListInv, TupleIds
  <2>. QED BY <1>1, <2>1 DEF MInv, ListInv, Modifying
<1>. QED BY <1>1, <1>3, <1>8, <1>9 DEF MInv, RowInv, Modifying

\* A row starts as a solution that covers the first tuple of the list.
LEMMA StartRowMInv ==
  ASSUME MInv, StartRow
  PROVE  MInv'
<1>. DEFINE t0 == tupleids[1]
            ls == uncovered_tuples[t0]
<1>1. /\ UNCHANGED <<inputVars, testcase_set, num_generated, countVars, positive_appearance,
                     queueVars>>
      /\ UNCHANGED <<clauses, already_t_wise, num_tuple_all_exact, uncovered_tuples, tupleids,
                     tmp_tupleids>>
      /\ UNCHANGED scanVars
      /\ pc = "choose" /\ pc' = "modify" /\ tupleids # <<>> /\ try' = 2
      /\ row' = uncovered_possible_solutions[t0]
      /\ clause_truecount' =
           [c \in DOMAIN clauses |-> TrueCount(uncovered_possible_solutions[t0], c)]
      /\ asgn_fixed' = [asgn_fixed EXCEPT ![LitVar(ls[1])] = TRUE, ![LitVar(ls[2])] = TRUE]
  BY DEF StartRow, inputVars, countVars, scanVars
<1>2. TypeOK' /\ ScanInv' /\ SolutionsMatch'
  <2>1. pc \in InFinal /\ pc' \in InFinal \ {"scan"}
    BY <1>1 DEF InFinal
  <2>. QED BY <1>1, <2>1, ScanInvStays, TypeFrame DEF MInv
<1>3. 1 \in 1 .. Len(tupleids)
  BY <1>1, ModifyingFacts DEF TupleIds
<1>4. t0 \in DOMAIN uncovered_tuples /\ ls \in LitPair /\ clauses \in Formula
      /\ asgn_fixed \in [Var -> BOOLEAN]
  BY <1>3, ModifyingFacts
<1>5. row' \in Models(clauses) /\ Covers(row', LitsTuple(ls))
  BY <1>1, <1>4 DEF MInv, SolutionsMatch
<1>6. row' \in TestCase
  BY <1>5 DEF Models
<1>7. LitVar(ls[1]) \in Var /\ LitVar(ls[2]) \in Var
  BY <1>4, LitParts
<1>. HIDE DEF ls
<1>8. /\ asgn_fixed' \in [Var -> BOOLEAN]
      /\ asgn_fixed'[LitVar(ls[1])] = TRUE /\ asgn_fixed'[LitVar(ls[2])] = TRUE
  BY <1>1, <1>4, <1>7
<1>9. clause_truecount' \in [DOMAIN clauses -> Int]
  BY <1>1, <1>4, CountTypes
<1>10. RowInv'
  <2>1. \A a \in {1, 2} : Holds(row', ls[a])
    BY <1>4, <1>5, CoveredPair
  <2>2. \A a \in {1, 2} : asgn_fixed'[LitVar(ls[a])]
    BY <1>8
  <2>3. uncovered_tuples'[tupleids'[1]] = ls
    BY <1>1 DEF ls
  <2>. QED BY <1>1, <2>1, <2>2, <2>3 DEF RowInv
<1>11. ListInv'
  <2>1. tupleids' \in TupleIds' /\ tmp_tupleids' \in TupleIds'
    BY <1>1, ModifyingFacts DEF TupleIds
  <2>2. clause_truecount' \in [DOMAIN clauses' -> Int]
    BY <1>1, <1>9
  <2>3. pc' \in Modifying /\ pc' # "done" /\ try' \in Nat \ {0}
    BY <1>1 DEF Modifying
  <2>. QED BY <1>6, <1>8, <2>1, <2>2, <2>3 DEF ListInv
<1>12. LeftInv'
  BY <1>1 DEF MInv, LeftInv, Left, Ahead, Modifying
<1>. QED BY <1>1, <1>2, <1>10, <1>11, <1>12 DEF MInv, Modifying

\* A step of the loops that keeps the rows, and what it must show.
LEMMA LoopStep ==
  ASSUME MInv, pc \in Modifying, pc' \in Modifying,
         UNCHANGED <<inputVars, testcase_set, num_generated, countVars, positive_appearance,
                     queueVars>>,
         UNCHANGED scanVars
  PROVE  /\ TypeOK' /\ ScanInv' /\ SolutionsMatch'
         /\ UNCHANGED <<clauses, already_t_wise, num_tuple_all_exact, uncovered_tuples>>
<1>1. pc \in InFinal /\ pc' \in InFinal \ {"scan"}
  BY DEF InFinal, Modifying
<1>2. UNCHANGED <<clauses, already_t_wise, num_tuple_all_exact, uncovered_tuples>>
  BY DEF inputVars, countVars, scanVars
<1>. QED BY <1>1, <1>2, ScanInvStays, TypeFrame DEF MInv

LEMMA RejectTupleMInv ==
  ASSUME MInv, RejectTuple
  PROVE  MInv'
<1>1. /\ UNCHANGED <<inputVars, testcase_set, num_generated, countVars, positive_appearance,
                     queueVars>>
      /\ UNCHANGED scanVars /\ UNCHANGED pc
      /\ UNCHANGED <<tupleids, row, asgn_fixed, clause_truecount, tmp_tupleids>>
      /\ pc = "modify" /\ try' = try + 1
  BY DEF RejectTuple, Trying, sampleVars
<1>2. /\ TypeOK' /\ ScanInv' /\ SolutionsMatch'
      /\ UNCHANGED <<clauses, already_t_wise, num_tuple_all_exact, uncovered_tuples>>
  BY <1>1, LoopStep DEF Modifying
<1>3. ListInv'
  BY <1>1, <1>2 DEF MInv, ListInv, TupleIds, Modifying
<1>4. RowInv' /\ LeftInv'
  BY <1>1, <1>2 DEF MInv, RowInv, LeftInv, Left, Ahead, Modifying
<1>. QED BY <1>1, <1>2, <1>3, <1>4 DEF MInv, Modifying

\* An accepted tuple writes no option fixed before at another value.
LEMMA AcceptTupleMInv ==
  ASSUME MInv, AcceptTuple
  PROVE  MInv'
<1>. DEFINE x == TriedLits[1]
            y == TriedLits[2]
<1>1. /\ UNCHANGED <<inputVars, testcase_set, num_generated, countVars, positive_appearance,
                     queueVars>>
      /\ UNCHANGED scanVars /\ UNCHANGED pc
      /\ UNCHANGED <<tupleids, tmp_tupleids>>
      /\ pc = "modify" /\ try' = try + 1 /\ try <= Len(tupleids)
      /\ Compatible /\ clause_truecount' = Flipped /\ row' = Pushed
      /\ asgn_fixed' =
           [v \in Var |-> asgn_fixed[v] \/ \E a \in {1, 2} : LitVar(TriedLits[a]) = v]
  BY DEF AcceptTuple, Trying, sampleVars
<1>2. /\ TypeOK' /\ ScanInv' /\ SolutionsMatch'
      /\ UNCHANGED <<clauses, already_t_wise, num_tuple_all_exact, uncovered_tuples>>
  BY <1>1, LoopStep DEF Modifying
<1>3. /\ try \in 1 .. Len(tupleids) /\ 1 \in 1 .. Len(tupleids)
      /\ row \in [Var -> Bit] /\ asgn_fixed \in [Var -> BOOLEAN]
      /\ clause_truecount \in [DOMAIN clauses -> Int] /\ clauses \in Formula
      /\ TriedLits \in LitPair /\ uncovered_tuples[tupleids[1]] \in LitPair
  BY <1>1, ModifyingFacts DEF TriedLits, TestCase
<1>4. /\ LitVar(x) \in Var /\ LitVar(y) \in Var
      /\ LitValue(x) \in Bit /\ LitValue(y) \in Bit
  BY <1>3, LitParts
<1>5. row' = [row EXCEPT ![LitVar(x)] = LitValue(x), ![LitVar(y)] = LitValue(y)]
  BY <1>1 DEF Pushed
<1>6. /\ asgn_fixed[LitVar(x)] => row[LitVar(x)] = LitValue(x)
      /\ asgn_fixed[LitVar(y)] => row[LitVar(y)] = LitValue(y)
  BY <1>1 DEF Compatible, Holds
<1>7. clause_truecount' \in [DOMAIN clauses -> Int]
  <2>. DEFINE delta(c, l) == IF asgn_fixed[LitVar(l)] THEN 0
                             ELSE Occurrences(c, l) - Occurrences(c, -l)
  <2>1. \A c \in DOMAIN clauses : delta(c, x) \in Int /\ delta(c, y) \in Int
    BY <1>3, CountTypes
  <2>2. clause_truecount' =
          [c \in DOMAIN clauses |-> clause_truecount[c] + delta(c, x) + delta(c, y)]
    BY <1>1 DEF Flipped
  <2>. HIDE DEF delta
  <2>. QED BY <1>3, <2>1, <2>2
<1>. HIDE DEF x, y
<1>8. row' \in [Var -> Bit]
  BY <1>3, <1>4, <1>5
<1>9. \A v \in Var : asgn_fixed[v] => asgn_fixed'[v] /\ row'[v] = row[v]
  <2>. SUFFICES ASSUME NEW v \in Var, asgn_fixed[v]
                PROVE  asgn_fixed'[v] /\ row'[v] = row[v]
    OBVIOUS
  <2>1. asgn_fixed'[v]
    BY <1>1
  <2>2. row'[v] = row[v]
    BY <1>3, <1>4, <1>5, <1>6
  <2>. QED BY <2>1, <2>2
<1>10. RowInv'
  <2>. DEFINE ls == uncovered_tuples[tupleids[1]]
  <2>1. \A a \in {1, 2} : LitVar(ls[a]) \in Var
    BY <1>3, LitParts
  <2>2. /\ tupleids # <<>>
        /\ \A a \in {1, 2} : asgn_fixed[LitVar(ls[a])] /\ Holds(row, ls[a])
    BY <1>1 DEF MInv, RowInv
  <2>3. uncovered_tuples'[tupleids'[1]] = ls
    BY <1>1, <1>2
  <2>. HIDE DEF ls
  <2>4. \A a \in {1, 2} : asgn_fixed'[LitVar(ls[a])] /\ Holds(row', ls[a])
    BY <1>9, <2>1, <2>2 DEF Holds
  <2>. QED BY <1>1, <2>2, <2>3, <2>4 DEF RowInv
<1>11. asgn_fixed' \in [Var -> BOOLEAN]
  BY <1>1
<1>12. ListInv'
  <2>1. tupleids' \in TupleIds' /\ tmp_tupleids' \in TupleIds' /\ try' \in Nat \ {0}
    BY <1>1, <1>2, ModifyingFacts DEF TupleIds
  <2>2. clause_truecount' \in [DOMAIN clauses' -> Int]
    BY <1>2, <1>7
  <2>3. pc' \in Modifying /\ pc' # "done"
    BY <1>1 DEF Modifying
  <2>. QED BY <1>8, <1>11, <2>1, <2>2, <2>3 DEF ListInv, TestCase
<1>13. LeftInv'
  BY <1>1, <1>2 DEF MInv, LeftInv, Left, Ahead, Modifying
<1>. QED BY <1>1, <1>2, <1>10, <1>12, <1>13 DEF MInv, Modifying

\* Adding the row only ever adds to what is covered.
LEMMA AddRowMInv ==
  ASSUME MInv, AddRow
  PROVE  MInv'
<1>1. /\ UNCHANGED <<clauses, upperlimit, positive_appearance, pq, selected_bitset>>
      /\ UNCHANGED scanVars
      /\ UNCHANGED <<num_tuple_all_exact, uncovered_tuples, tupleids, row, asgn_fixed,
                     clause_truecount>>
      /\ pc = "modify" /\ pc' = "filter" /\ try' = 1 /\ tmp_tupleids' = <<>>
      /\ testcase_set' = Append(testcase_set, row) /\ num_generated' = num_generated + 1
      /\ Update2TupleInfo(row)
  BY DEF AddRow, AddTestcase, inputVars, queueVars, scanVars
<1>2. ScanInv' /\ SolutionsMatch'
  <2>1. pc \in InFinal /\ pc' \in InFinal \ {"scan"}
    BY <1>1 DEF InFinal
  <2>. QED BY <1>1, <2>1, ScanInvStays DEF MInv
<1>3. TypeOK /\ row \in TestCase
  BY DEF MInv, ListInv
<1>4. /\ already_t_wise' = already_t_wise \cup TuplesOf(row)
      /\ already_t_wise' \in SUBSET Tuple
      /\ num_tuple' \in Int
      /\ positive_uncovered' \in [Var -> Int]
      /\ negative_uncovered' \in [Var -> Int]
  BY <1>1, <1>3, UpdateEffect
<1>5. TypeOK'
  BY <1>1, <1>3, <1>4 DEF TypeOK
<1>6. ListInv'
  <2>1. tupleids' \in TupleIds' /\ tmp_tupleids' \in TupleIds'
    BY <1>1, ModifyingFacts DEF TupleIds
  <2>. QED BY <1>1, <2>1 DEF MInv, ListInv, Modifying
<1>7. LeftInv'
  BY <1>1, <1>4 DEF MInv, LeftInv, Left, Ahead, Modifying
<1>. QED BY <1>1, <1>2, <1>5, <1>6, <1>7 DEF MInv, RowInv, Modifying

\* The filter drops a tuple only if it is covered.
LEMMA FilterTupleMInv ==
  ASSUME MInv, FilterTuple
  PROVE  MInv'
<1>1. /\ UNCHANGED <<inputVars, testcase_set, num_generated, countVars, positive_appearance,
                     queueVars>>
      /\ UNCHANGED scanVars /\ UNCHANGED pc
      /\ UNCHANGED <<tupleids, row, asgn_fixed, clause_truecount>>
      /\ pc = "filter" /\ try' = try + 1 /\ try <= Len(tupleids)
      /\ tmp_tupleids' = IF LitsTuple(TriedLits) \in already_t_wise THEN tmp_tupleids
                         ELSE Append(tmp_tupleids, tupleids[try])
  BY DEF FilterTuple, sampleVars
<1>2. /\ TypeOK' /\ ScanInv' /\ SolutionsMatch'
      /\ UNCHANGED <<clauses, already_t_wise, num_tuple_all_exact, uncovered_tuples>>
  BY <1>1, LoopStep DEF Modifying
<1>3. /\ try \in 1 .. Len(tupleids) /\ Len(tupleids) \in Nat
      /\ tupleids[try] \in 1 .. Len(uncovered_tuples)
      /\ tmp_tupleids \in Seq(1 .. Len(uncovered_tuples)) /\ Len(tmp_tupleids) \in Nat
  BY <1>1, ModifyingFacts DEF TupleIds
<1>4. tmp_tupleids' \in Seq(1 .. Len(uncovered_tuples))
  BY <1>1, <1>3, AppendProperties
<1>5. /\ Len(tmp_tupleids') \in Nat /\ Len(tmp_tupleids') >= Len(tmp_tupleids)
      /\ \A k \in 1 .. Len(tmp_tupleids) : tmp_tupleids'[k] = tmp_tupleids[k]
      /\ LitsTuple(TriedLits) \notin already_t_wise =>
           /\ Len(tmp_tupleids') >= 1
           /\ tmp_tupleids'[Len(tmp_tupleids')] = tupleids[try]
  BY <1>1, <1>3, AppendProperties
<1>6. ASSUME NEW t \in Feasible(clauses), t \notin already_t_wise
      PROVE  Ahead(tmp_tupleids, 1, t)' \/ Ahead(tupleids, try, t)'
  <2>1. Ahead(tmp_tupleids, 1, t) \/ Ahead(tupleids, try, t)
    BY <1>1, <1>6 DEF MInv, LeftInv, Left, Modifying
  <2>2. CASE Ahead(tmp_tupleids, 1, t)
    <3>1. PICK k \in 1 .. Len(tmp_tupleids) : LitsTuple(uncovered_tuples[tmp_tupleids[k]]) = t
      BY <2>2 DEF Ahead
    <3>2. k \in 1 .. Len(tmp_tupleids')
      BY <1>3, <1>5
    <3>. QED BY <1>2, <1>5, <3>1, <3>2 DEF Ahead
  <2>3. CASE Ahead(tupleids, try, t)
    <3>1. PICK k \in try .. Len(tupleids) : LitsTuple(uncovered_tuples[tupleids[k]]) = t
      BY <2>3 DEF Ahead
    <3>2. CASE k = try
      <4>1. LitsTuple(TriedLits) = t
        BY <3>1, <3>2 DEF TriedLits
      <4>2. /\ Len(tmp_tupleids') \in 1 .. Len(tmp_tupleids')
            /\ tmp_tupleids'[Len(tmp_tupleids')] = tupleids[try]
        BY <1>5, <1>6, <4>1
      <4>. QED BY <1>2, <3>1, <3>2, <4>2 DEF Ahead
    <3>3. CASE k # try
      <4>1. k \in try' .. Len(tupleids')
        BY <1>1, <1>3, <3>3
      <4>. QED BY <1>1, <1>2, <3>1, <4>1 DEF Ahead
    <3>. QED BY <3>2, <3>3
  <2>. QED BY <2>1, <2>2, <2>3
<1>7. LeftInv'
  BY <1>1, <1>2, <1>6 DEF MInv, LeftInv, Left, Modifying
<1>8. ListInv'
  <2>1. tupleids' \in TupleIds' /\ tmp_tupleids' \in TupleIds'
    BY <1>1, <1>2, <1>4, ModifyingFacts DEF TupleIds
  <2>. QED BY <1>1, <1>2, <2>1 DEF MInv, ListInv, Modifying
<1>. QED BY <1>1, <1>2, <1>7, <1>8 DEF MInv, RowInv, Modifying

LEMMA SwapTupleIdsMInv ==
  ASSUME MInv, SwapTupleIds
  PROVE  MInv'
<1>1. /\ UNCHANGED <<inputVars, testcase_set, num_generated, countVars, positive_appearance,
                     queueVars>>
      /\ UNCHANGED scanVars
      /\ UNCHANGED <<row, asgn_fixed, clause_truecount, try, tmp_tupleids>>
      /\ pc = "filter" /\ pc' = "choose" /\ try > Len(tupleids) /\ tupleids' = tmp_tupleids
  BY DEF SwapTupleIds, scanVars
<1>2. /\ TypeOK' /\ ScanInv' /\ SolutionsMatch'
      /\ UNCHANGED <<clauses, already_t_wise, num_tuple_all_exact, uncovered_tuples>>
  BY <1>1, LoopStep DEF Modifying
<1>3. Len(tupleids) \in Nat /\ try \in Nat
  BY ModifyingFacts
<1>4. \A t : ~Ahead(tupleids, try, t)
  BY <1>1, <1>3 DEF Ahead
<1>5. LeftInv'
  <2>1. \A t : Ahead(tmp_tupleids, 1, t) <=> Ahead(tupleids, 1, t)'
    BY <1>1, <1>2 DEF Ahead
  <2>. QED BY <1>1, <1>2, <1>4, <2>1 DEF MInv, LeftInv, Left, Modifying
<1>6. ListInv'
  <2>1. tupleids' \in TupleIds' /\ tmp_tupleids' \in TupleIds'
    BY <1>1, <1>2, ModifyingFacts DEF TupleIds
  <2>. QED BY <1>1, <1>2, <2>1 DEF MInv, ListInv, Modifying
<1>. QED BY <1>1, <1>2, <1>5, <1>6 DEF MInv, RowInv, Modifying

LEMMA FinishMInv ==
  ASSUME MInv, Finish
  PROVE  MInv'
<1>1. /\ UNCHANGED <<inputVars, testcase_set, num_generated, countVars, positive_appearance,
                     queueVars>>
      /\ UNCHANGED scanVars
      /\ UNCHANGED <<tupleids, row, asgn_fixed, clause_truecount, try, tmp_tupleids>>
      /\ pc = "choose" /\ pc' = "done" /\ tupleids = <<>>
  BY DEF Finish, scanVars, rowVars
<1>2. /\ TypeOK' /\ ScanInv' /\ SolutionsMatch'
      /\ UNCHANGED <<clauses, already_t_wise, num_tuple_all_exact, uncovered_tuples>>
  BY <1>1, LoopStep DEF Modifying
<1>3. ListInv' /\ LeftInv'
  BY <1>1, <1>2 DEF MInv, ListInv, TupleIds, LeftInv, Left, Ahead, Modifying
<1>. QED BY <1>1, <1>2, <1>3 DEF MInv, RowInv, Modifying

-----------------------------------------------------------------------------
(* The theorems *)

\* Every step of the program keeps the invariant.
LEMMA MInvNext ==
  ASSUME MInv, [Next]_vars
  PROVE  MInv'
<1>1. CASE SampleStep \/ ClearFinalStep \/ ScanStep
  BY <1>1, BeforeChoosingMInv
<1>2. CASE StartChoosing
  BY <1>2, StartChoosingMInv
<1>3. CASE StartRow
  BY <1>3, StartRowMInv
<1>4. CASE RejectTuple
  BY <1>4, RejectTupleMInv
<1>5. CASE AcceptTuple
  BY <1>5, AcceptTupleMInv
<1>6. CASE AddRow
  BY <1>6, AddRowMInv
<1>7. CASE FilterTuple
  BY <1>7, FilterTupleMInv
<1>8. CASE SwapTupleIds
  BY <1>8, SwapTupleIdsMInv
<1>9. CASE Finish
  BY <1>9, FinishMInv
<1>10. CASE UNCHANGED vars
  <2>1. /\ UNCHANGED <<inputVars, testcase_set, num_generated, countVars, positive_appearance,
                       queueVars>>
        /\ UNCHANGED <<pc, upperlimit, num_generated, testcase_set, num_tuple,
                       positive_uncovered, negative_uncovered, positive_appearance, pq,
                       selected_bitset>>
        /\ UNCHANGED <<clauses, already_t_wise, scan, num_tuple_all_exact, uncovered_tuples,
                       uncovered_possible_solutions, assumptions>>
        /\ UNCHANGED <<sampleVars, scanVars>>
        /\ UNCHANGED <<tupleids, row, asgn_fixed, clause_truecount, try, tmp_tupleids>>
    BY <1>10 DEF vars, sampleVars, inputVars, countVars, queueVars, scanVars, rowVars
  <2>2. UNCHANGED TypeOK /\ UNCHANGED SolutionsMatch
    BY <2>1 DEF TypeOK, SolutionsMatch
  <2>3. ScanInv'
    <3>1. /\ UNCHANGED ScanShape /\ UNCHANGED RowImpossible /\ UNCHANGED RowBegins
          /\ UNCHANGED CollectedOnce /\ UNCHANGED Collected /\ UNCHANGED Passed
      BY <2>1 DEF ScanShape, RowImpossible, RowBegins, CollectedOnce, Collected, Passed
    <3>. QED BY <2>1, <3>1 DEF MInv, ScanInv
  <2>4. SInv => SInv'
    BY <2>1, SInvNext
  <2>5. UNCHANGED ListInv /\ UNCHANGED RowInv /\ UNCHANGED LeftInv
    BY <2>1 DEF ListInv, TupleIds, RowInv, LeftInv, Left, Ahead
  <2>. QED BY <2>1, <2>2, <2>3, <2>4, <2>5 DEF MInv
<1>. QED BY <1>1, <1>2, <1>3, <1>4, <1>5, <1>6, <1>7, <1>8, <1>9, <1>10
         DEF Next, Step, Terminated

\* The invariant holds in every reachable state.
LEMMA SpecMInv == Spec => []MInv
BY MInvInit, MInvNext, PTL DEF Spec

\* Type correctness of the whole program with final strategies 3 and 4.
THEOREM ModifyingTypeCorrect == Spec => []ModifyingTypeOK
<1>1. MInv => ModifyingTypeOK
  <2>. SUFFICES ASSUME MInv PROVE ModifyingTypeOK
    OBVIOUS
  <2>1. ScanTypeOK
    <3>1. TypeOK /\ ScanInv
      BY DEF MInv
    <3>. QED BY <3>1, ScanParts DEF ScanInv, CollectedOnce, ScanTypeOK, Bit
  <2>2. ListInv
    BY DEF MInv
  <2>. QED BY <2>1, <2>2 DEF ListInv, TupleIds, ModifyingTypeOK
<1>. QED BY <1>1, SpecMInv, PTL

\* However much of it later tuples modify, and although its counts drift, a
\* row still covers the tuple it started from: each pass shortens the list.
THEOREM ModifyingRowCoversStart == Spec => []RowCoversStart
<1>1. MInv => RowCoversStart
  <2>. SUFFICES ASSUME MInv, pc = "modify"
                PROVE  Covers(row, LitsTuple(uncovered_tuples[tupleids[1]]))
    BY DEF RowCoversStart
  <2>1. \A a \in {1, 2} : Holds(row, uncovered_tuples[tupleids[1]][a])
    BY DEF MInv, RowInv
  <2>2. 1 \in 1 .. Len(tupleids)
    BY ModifyingFacts DEF MInv, RowInv, TupleIds
  <2>. QED BY <2>1, <2>2, ModifyingFacts, PairHolds
<1>. QED BY <1>1, SpecMInv, PTL

\* No valid tuple is lost by the repeated filtering of the list, and the log
\* reports the true number of them, for every system and every shuffle.
THEOREM ModifyingCoversAllValid == Spec => []CoversAllValid
<1>1. MInv => CoversAllValid
  <2>. SUFFICES ASSUME MInv, pc = "done" PROVE CoversAllValid
    BY DEF CoversAllValid
  <2>1. tupleids = <<>>
    BY DEF MInv, ListInv
  <2>2. \A t : ~Ahead(tupleids, 1, t)
    BY <2>1 DEF Ahead
  <2>. QED BY <2>2 DEF MInv, LeftInv, Left, Modifying, CoversAllValid
<1>. QED BY <1>1, SpecMInv, PTL

-----------------------------------------------------------------------------
(* Every step leaves less to do *)

\* The filter drops at least the first tuple, which the row just added covers.
FilterInv ==
  pc = "filter" =>
    /\ tupleids # <<>>
    /\ LitsTuple(uncovered_tuples[tupleids[1]]) \in already_t_wise
    /\ try <= Len(tupleids) + 1
    /\ Len(tmp_tupleids) <= IF try = 1 THEN 0 ELSE try - 2

\* The sampling phase and the scan.
LEMMA EarlyStep ==
  ASSUME MInv, SampleStep \/ ClearFinalStep \/ ScanStep
  PROVE  /\ pc \in BeforeScan \cup {"scan"} /\ pc' \in BeforeScan \cup {"scan"}
         /\ Fewer(EarlyWork', EarlyWork)
<1>1. pc \notin Modifying
  BY ZenonT(40) DEF SampleStep, Sample, SNext, GenerateInitTestcaseCDCL, CountTestcase, ClearPQ,
     UpdateSampleWeight, GenerateTestcase, ClearFinalStep, ClearFinal, ScanStep,
     FindUncoveredTuples, SkipRow, SkipValue, SkipCovered, SolvePossible, SolveImpossible,
     KeepUnsolved, AtTuple, Candidate, Modifying
<1>2. SInv /\ ScanInv
  BY <1>1 DEF MInv
<1>. QED BY <1>2, EarlyAdvances DEF SampleStep, ClearFinalStep, ScanStep

\* The row added covers the tuple it started from.
LEMMA AddRowFilterInv ==
  ASSUME MInv, AddRow
  PROVE  FilterInv'
<1>. DEFINE ls == uncovered_tuples[tupleids[1]]
<1>1. /\ UNCHANGED <<uncovered_tuples, tupleids>>
      /\ pc = "modify" /\ try' = 1 /\ tmp_tupleids' = <<>> /\ Update2TupleInfo(row)
  BY DEF AddRow, AddTestcase, scanVars
<1>2. tupleids # <<>> /\ \A a \in {1, 2} : Holds(row, ls[a])
  BY <1>1 DEF MInv, RowInv
<1>3. Len(tupleids) \in Nat /\ ls \in LitPair /\ LitsTuple(ls) \in Tuple
  <2>1. 1 \in 1 .. Len(tupleids)
    BY <1>2, ModifyingFacts DEF TupleIds
  <2>2. tupleids[1] \in DOMAIN uncovered_tuples
    BY <2>1, ModifyingFacts
  <2>. QED BY <2>1, <2>2, ModifyingFacts DEF MInv, ScanInv, CollectedOnce
<1>4. Covers(row, LitsTuple(ls))
  BY <1>2, <1>3, PairHolds
<1>5. already_t_wise' = already_t_wise \cup TuplesOf(row)
  BY <1>1, UpdateEffect DEF MInv, ListInv
<1>6. LitsTuple(ls) \in already_t_wise'
  BY <1>3, <1>4, <1>5 DEF TuplesOf
<1>. QED BY <1>1, <1>2, <1>3, <1>6 DEF FilterInv

LEMMA FilterTupleFilterInv ==
  ASSUME MInv, FilterInv, FilterTuple
  PROVE  FilterInv'
<1>1. /\ UNCHANGED <<already_t_wise, uncovered_tuples, tupleids>>
      /\ pc = "filter" /\ try' = try + 1 /\ try <= Len(tupleids)
      /\ tmp_tupleids' = IF LitsTuple(TriedLits) \in already_t_wise THEN tmp_tupleids
                         ELSE Append(tmp_tupleids, tupleids[try])
  BY DEF FilterTuple, sampleVars, scanVars, countVars
<1>2. /\ try \in Nat \ {0} /\ Len(tupleids) \in Nat /\ Len(tmp_tupleids) \in Nat
      /\ tmp_tupleids \in Seq(1 .. Len(uncovered_tuples))
      /\ try \in 1 .. Len(tupleids) /\ tupleids[try] \in 1 .. Len(uncovered_tuples)
  BY <1>1, ModifyingFacts DEF TupleIds
<1>3. /\ tupleids # <<>> /\ LitsTuple(uncovered_tuples[tupleids[1]]) \in already_t_wise
      /\ Len(tmp_tupleids) <= IF try = 1 THEN 0 ELSE try - 2
  BY <1>1 DEF FilterInv
<1>4. Len(tmp_tupleids') <= try - 1
  <2>1. CASE try = 1
    <3>1. tmp_tupleids' = tmp_tupleids
      BY <1>1, <1>3, <2>1 DEF TriedLits
    <3>. QED BY <1>3, <2>1, <3>1
  <2>2. CASE try # 1
    <3>1. Len(tmp_tupleids') <= Len(tmp_tupleids) + 1
      BY <1>1, <1>2, AppendProperties
    <3>2. Len(tmp_tupleids) + 1 <= try - 1
      BY <1>2, <1>3, <2>2
    <3>3. Len(tmp_tupleids') \in Nat
      BY <1>1, <1>2, AppendProperties
    <3>. QED BY <1>2, <3>1, <3>2, <3>3
  <2>. QED BY <2>1, <2>2
<1>5. try' <= Len(tupleids') + 1 /\ try' # 1 /\ try' - 2 = try - 1
  BY <1>1, <1>2
<1>. QED BY <1>1, <1>3, <1>4, <1>5 DEF FilterInv

LEMMA FilterInvNext ==
  ASSUME MInv, FilterInv, [Next]_vars
  PROVE  FilterInv'
<1>1. CASE SampleStep \/ ClearFinalStep \/ ScanStep
  BY <1>1, EarlyStep DEF FilterInv, BeforeScan
<1>2. CASE AddRow
  BY <1>2, AddRowFilterInv
<1>3. CASE FilterTuple
  BY <1>3, FilterTupleFilterInv
<1>4. CASE StartChoosing \/ StartRow \/ RejectTuple \/ AcceptTuple \/ SwapTupleIds \/ Finish
  <2>1. pc' # "filter"
    BY <1>4 DEF StartChoosing, StartRow, RejectTuple, AcceptTuple, Trying, SwapTupleIds, Finish,
                sampleVars
  <2>. QED BY <2>1 DEF FilterInv
<1>5. CASE UNCHANGED vars
  BY <1>5 DEF FilterInv, vars, sampleVars, countVars, scanVars, rowVars
<1>. QED BY <1>1, <1>2, <1>3, <1>4, <1>5 DEF Next, Step, Terminated

LEMMA SpecFilterInv == Spec => []FilterInv
<1>1. Init => FilterInv
  BY DEF Init, FInit, SInit, FilterInv
<1>2. MInv /\ FilterInv /\ [Next]_vars => FilterInv'
  BY FilterInvNext
<1>. QED BY <1>1, <1>2, SpecMInv, PTL DEF Spec

Rank == CASE pc = "choose" -> 2 [] pc = "modify" -> 1 [] OTHER -> 0

LEMMA StepAdvances ==
  ASSUME MInv, FilterInv, Step
  PROVE  Fewer(WorkLeft', WorkLeft)
<1>. DEFINE n == Len(tupleids)
<1>1. /\ pc \in Modifying \ {"done"} => WorkLeft = <<1, n, Rank, n + 1 - try, 0>>
      /\ pc' \in Modifying \ {"done"} => WorkLeft' = <<1, n', Rank', n' + 1 - try', 0>>
      /\ pc' = "done" => WorkLeft' = <<0, 0, 0, 0, 0>>
  BY DEF WorkLeft, Remaining, Stage, Modifying, Rank
<1>2. n \in Nat /\ try \in Nat /\ Len(tmp_tupleids) \in Nat
  BY ModifyingFacts
<1>. HIDE DEF n
<1>3. CASE SampleStep \/ ClearFinalStep \/ ScanStep
  <2>1. /\ pc \in BeforeScan \cup {"scan"} /\ pc' \in BeforeScan \cup {"scan"}
        /\ Fewer(EarlyWork', EarlyWork)
    BY <1>3, EarlyStep
  <2>2. WorkLeft = EarlyWork /\ WorkLeft' = EarlyWork'
    BY <2>1 DEF WorkLeft, EarlyWork, Remaining, Stage, BeforeScan
  <2>. QED BY <2>1, <2>2
<1>4. CASE StartChoosing
  <2>1. pc = "scan" /\ pc' = "choose"
    BY <1>4 DEF StartChoosing, ScanDone
  <2>2. WorkLeft = <<2, NumVar - scan[1], 1 - scan[2], NumVar - scan[3], 1 - scan[4]>>
    BY <2>1 DEF WorkLeft, Remaining, Stage
  <2>. QED BY <1>1, <2>1, <2>2, FewerNumbers DEF Modifying
<1>5. CASE StartRow \/ AddRow
  <2>1. /\ n' = n
        /\ \/ pc = "choose" /\ pc' = "modify"
           \/ pc = "modify" /\ pc' = "filter"
    BY <1>5 DEF StartRow, AddRow, n
  <2>2. Rank' \in Nat /\ Rank' < Rank
    BY <2>1 DEF Rank
  <2>. QED BY <1>1, <2>1, <2>2, FewerNumbers DEF Modifying
<1>6. CASE RejectTuple \/ AcceptTuple \/ FilterTuple
  <2>1. /\ n' = n /\ try <= n /\ try' = try + 1
        /\ pc \in {"modify", "filter"} /\ pc' = pc
    BY <1>6 DEF RejectTuple, AcceptTuple, FilterTuple, Trying, sampleVars, n
  <2>2. n' + 1 - try' \in Nat /\ n' + 1 - try' < n + 1 - try
    BY <1>2, <2>1
  <2>3. Rank' = Rank
    BY <2>1 DEF Rank
  <2>. QED BY <1>1, <2>1, <2>2, <2>3, FewerNumbers DEF Modifying
<1>7. CASE SwapTupleIds
  <2>1. pc = "filter" /\ pc' = "choose" /\ try > n /\ n' = Len(tmp_tupleids)
    BY <1>7 DEF SwapTupleIds, n
  <2>2. /\ n # 0 /\ try <= n + 1
        /\ Len(tmp_tupleids) <= IF try = 1 THEN 0 ELSE try - 2
    <3>1. tupleids # <<>> /\ tupleids \in TupleIds
      BY <2>1, ModifyingFacts DEF FilterInv
    <3>2. Len(tupleids) # 0
      BY <3>1 DEF TupleIds
    <3>. QED BY <2>1, <3>2 DEF FilterInv, n
  <2>3. n' \in Nat /\ n' < n
    BY <1>2, <2>1, <2>2
  <2>. QED BY <1>1, <2>1, <2>3, FewerNumbers DEF Modifying
<1>8. CASE Finish
  <2>1. pc = "choose" /\ pc' = "done"
    BY <1>8 DEF Finish
  <2>. QED BY <1>1, <2>1, FewerNumbers DEF Modifying
<1>. QED BY <1>3, <1>4, <1>5, <1>6, <1>7, <1>8 DEF Step

\* Strategies 3 and 4 go on for a bounded time: each row covers the tuple it
\* started from, however modified, so that each pass over the list shortens it.
THEOREM ModifyingAdvances == Spec => Advances
<1>1. MInv /\ FilterInv /\ [Next]_vars => [Fewer(WorkLeft', WorkLeft)]_vars
  BY StepAdvances DEF Next, Terminated
<1>. QED BY <1>1, SpecMInv, SpecFilterInv, PTL DEF Spec, Advances
=============================================================================
