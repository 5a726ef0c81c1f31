------------------------ MODULE FinalContiguousProofs ------------------------
(***************************************************************************)
(* Proofs about the whole program with final strategies 1 and 2, for every *)
(* system, every shuffle and every answer of the solver: the rows are      *)
(* valid and cover their run, the log reports full coverage, and unless    *)
(* assumptions were left in the solver the report is true.                 *)
(***************************************************************************)
EXTENDS FinalContiguous, SamplingProofs

-----------------------------------------------------------------------------
(* The tuples still ahead *)

\* The tuples collected that are not among the first n of the order o.
PendingOf(o, n) ==
  {LitsTuple(uncovered_tuples[k]) : k \in {x \in 1 .. Size : \A a \in 1 .. n : o[a] # x}}

Pending == PendingOf(order, first - 1)

TupleAt(o, k) == LitsTuple(uncovered_tuples[o[k]])

\* An order of some of the tuples, none of them twice.
Ordering(o) ==
  /\ o \in Seq(1 .. Size)
  /\ \A a, b \in DOMAIN o : o[a] = o[b] => a = b

\* Reading one more entry changes nothing that was read.
LEMMA OrderExtends ==
  ASSUME CollectedOnce, Ordering(order), NEW k \in 1 .. Size, k - 1 <= Len(order),
         NEW o \in OrdersTo(k)
  PROVE  /\ Ordering(o) /\ k \in DOMAIN o /\ Len(order) <= Len(o)
         /\ \A a \in DOMAIN order : o[a] = order[a]
<1>1. order \in Seq(1 .. Size) /\ Len(order) \in Nat /\ DOMAIN order = 1 .. Len(order)
      /\ Size \in Nat
  BY DEF Ordering, CollectedOnce, Size
<1>2. CASE k <= Len(order)
  BY <1>1, <1>2 DEF OrdersTo
<1>3. CASE ~(k <= Len(order))
  <2>1. PICK x \in 1 .. Size : o = Append(order, x) /\ \A a \in DOMAIN order : order[a] # x
    BY <1>3 DEF OrdersTo
  <2>2. /\ o \in Seq(1 .. Size) /\ Len(o) = Len(order) + 1 /\ DOMAIN o = 1 .. Len(order) + 1
        /\ \A a \in 1 .. Len(order) : o[a] = order[a]
        /\ o[Len(order) + 1] = x
    BY <1>1, <2>1, AppendProperties
  <2>3. \A a \in 1 .. Len(order) + 1 : a \in 1 .. Len(order) \/ a = Len(order) + 1
    BY <1>1
  <2>4. Ordering(o)
    BY <1>1, <2>1, <2>2, <2>3 DEF Ordering
  <2>. QED BY <1>1, <1>3, <2>2, <2>4
<1>. QED BY <1>2, <1>3

LEMMA PendingSame ==
  ASSUME NEW o, NEW p, NEW n, \A a \in 1 .. n : p[a] = o[a]
  PROVE  PendingOf(p, n) = PendingOf(o, n)
BY DEF PendingOf

\* The next tuple of the order is pending, once.
LEMMA PendingNext ==
  ASSUME CollectedOnce, NEW o, Ordering(o), NEW n \in Nat, n + 1 \in DOMAIN o
  PROVE  /\ PendingOf(o, n) = PendingOf(o, n + 1) \cup {TupleAt(o, n + 1)}
         /\ TupleAt(o, n + 1) \notin PendingOf(o, n + 1)
<1>. DEFINE K(m) == {x \in 1 .. Size : \A a \in 1 .. m : o[a] # x}
<1>1. /\ o[n + 1] \in 1 .. Size /\ DOMAIN o = 1 .. Len(o) /\ Len(o) \in Nat
      /\ DOMAIN uncovered_tuples = 1 .. Size
  BY DEF Ordering, CollectedOnce, Size
<1>2. \A a \in 1 .. n : a \in DOMAIN o /\ a # n + 1
  BY <1>1
<1>3. \A a \in 1 .. n + 1 : a \in 1 .. n \/ a = n + 1
  OBVIOUS
<1>4. n + 1 \in 1 .. n + 1 /\ \A a \in 1 .. n : a \in 1 .. n + 1
  OBVIOUS
<1>5. o[n + 1] \in K(n)
  BY <1>1, <1>2 DEF Ordering
<1>6. K(n) = K(n + 1) \cup {o[n + 1]} /\ o[n + 1] \notin K(n + 1)
  BY <1>1, <1>3, <1>4, <1>5
<1>7. \A m : PendingOf(o, m) = {LitsTuple(uncovered_tuples[k]) : k \in K(m)}
  BY DEF PendingOf
<1>8. \A x \in K(n + 1) : x \in DOMAIN uncovered_tuples
  BY <1>1
<1>. HIDE DEF K
<1>9. PendingOf(o, n) = PendingOf(o, n + 1) \cup {TupleAt(o, n + 1)}
  BY <1>6, <1>7 DEF TupleAt
<1>10. TupleAt(o, n + 1) \notin PendingOf(o, n + 1)
  BY <1>1, <1>6, <1>7, <1>8 DEF TupleAt, CollectedOnce
<1>. QED BY <1>9, <1>10

\* What is pending before a run is pending behind it or belongs to it.
LEMMA PendingRun ==
  ASSUME NEW o, NEW n \in Nat, NEW m \in Nat, n <= m
  PROVE  /\ PendingOf(o, m) \subseteq PendingOf(o, n)
         /\ \A t \in PendingOf(o, n) :
              t \in PendingOf(o, m) \/ \E a \in n + 1 .. m : t = TupleAt(o, a)
<1>1. \A a \in 1 .. n : a \in 1 .. m
  OBVIOUS
<1>2. \A a \in 1 .. m : a \in 1 .. n \/ a \in n + 1 .. m
  OBVIOUS
<1>3. PendingOf(o, m) \subseteq PendingOf(o, n)
  BY <1>1 DEF PendingOf
<1>4. ASSUME NEW t \in PendingOf(o, n), t \notin PendingOf(o, m)
      PROVE  \E a \in n + 1 .. m : t = TupleAt(o, a)
  <2>1. PICK x \in 1 .. Size : /\ t = LitsTuple(uncovered_tuples[x])
                               /\ \A a \in 1 .. n : o[a] # x
    BY DEF PendingOf
  <2>2. PICK a \in 1 .. m : o[a] = x
    BY <1>4, <2>1 DEF PendingOf
  <2>3. a \in n + 1 .. m
    BY <1>2, <2>1, <2>2
  <2>. QED BY <2>1, <2>2, <2>3 DEF TupleAt
<1>. QED BY <1>3, <1>4

\* Behind a whole order nothing is pending.
LEMMA PendingNone ==
  ASSUME CollectedOnce, NEW o, Ordering(o), Len(o) >= Size
  PROVE  PendingOf(o, Size) = {}
<1>1. /\ Size \in Nat /\ Len(o) \in Nat /\ DOMAIN o = 1 .. Len(o)
      /\ \A a \in 1 .. Size : a \in DOMAIN o /\ o[a] \in 1 .. Size
  BY DEF Ordering, CollectedOnce, Size
<1>. DEFINE S == 1 .. Size
            f == [a \in S |-> o[a]]
            T == {o[a] : a \in S}
<1>2. IsFiniteSet(S) /\ Cardinality(S) = Size
  BY <1>1, FS_Interval
<1>3. f \in [S -> T] /\ (\A a, b \in S : f[a] = f[b] => a = b) /\ (\A t \in T : \E a \in S : f[a] = t)
  BY <1>1 DEF Ordering
<1>. HIDE DEF f, T
<1>4. IsFiniteSet(T) /\ Cardinality(T) = Cardinality(S)
  BY <1>2, <1>3, BijectionCount
<1>5. T \subseteq S
  BY <1>1 DEF T
<1>6. T = S
  BY <1>2, <1>4, <1>5, FS_Subset
<1>7. \A x \in S : \E a \in S : o[a] = x
  BY <1>6 DEF T
<1>. QED BY <1>7 DEF PendingOf

LEMMA PendingInTuple ==
  ASSUME CollectedOnce, NEW o, NEW n
  PROVE  PendingOf(o, n) \subseteq Tuple
BY DEF PendingOf, CollectedOnce, Size

\* A row under which both literals of a tuple hold covers it.
LEMMA PairCovered ==
  ASSUME NEW ls \in LitPair, NEW tc, Holds(tc, ls[1]), Holds(tc, ls[2])
  PROVE  Covers(tc, LitsTuple(ls))
<1>1. ls[1] \in Literal /\ ls[2] \in Literal
  BY DEF LitPair
<1>2. \A l \in Literal : LitValue(l) = IF l < 0 THEN 0 ELSE 1
  BY NumVarAssumption DEF Literal, LitValue
<1>. QED BY <1>1, <1>2 DEF Covers, LitsTuple, Holds

-----------------------------------------------------------------------------
(* The inductive invariant *)

Choosing == {"choose", "solve", "settle", "done"}
InRun    == {"solve", "settle"}

OrderInv ==
  /\ pc \in BeforeScan \cup {"scan"} \cup Choosing
  /\ simplify \in BOOLEAN /\ last \in Nat \ {0} /\ model \in TestCase
  /\ Ordering(order)
  /\ first \in 1 .. Size + 1 /\ first - 1 <= Len(order)
  /\ pc \notin Choosing => order = <<>> /\ first = 1
  /\ pc = "done" => first = Size + 1

\* The run being built starts at a tuple nothing covers, and the last model
\* covers all of it.
RunInv ==
  pc \in InRun =>
    /\ first <= Size /\ first <= Len(order)
    /\ last \in first .. Size + 1 /\ last - 1 <= Len(order)
    /\ TupleAt(order, first) \notin already_t_wise
    /\ last # first =>
         /\ model \in Models(clauses)
         /\ \A k \in first .. last - 1 : Covers(model, TupleAt(order, k))

\* The solver's assumptions are either gone, or contradictory for good.
AssumptionsInv ==
  pc \in Choosing =>
    /\ assumptions = {} \/ ModelsUnder(assumptions) = {}
    /\ pc = "solve" => assumptions = {} \/ last = first
    /\ pc = "settle" /\ last = first => assumptions # {}

\* What has been passed is covered or taken off the total; and it is covered
\* if it is valid, as long as no contradictory assumption is left behind.
CountInv ==
  pc \in Choosing =>
    /\ num_tuple_all_exact = Cardinality(already_t_wise \cup Pending)
    /\ assumptions = {} \/ (pc = "settle" /\ last # first) =>
         Feasible(clauses) \subseteq already_t_wise \cup Pending

CInv == SInv /\ ScanInv /\ OrderInv /\ RunInv /\ AssumptionsInv /\ CountInv

-----------------------------------------------------------------------------
(* The steps *)

LEMMA CInvInit == Init => CInv
<1>. SUFFICES ASSUME Init PROVE CInv
  OBVIOUS
<1>1. SInv /\ ScanInv /\ pc = "init" /\ uncovered_tuples = <<>>
  BY ScanInvInit DEF Init, FInit, SInit
<1>2. model \in TestCase
  BY DEF Init, TestCase, Bit
<1>3. OrderInv
  BY <1>1, <1>2 DEF Init, OrderInv, Ordering, Size, BeforeScan, Choosing
<1>. QED BY <1>1, <1>3 DEF CInv, RunInv, AssumptionsInv, CountInv, InRun, Choosing

\* Before the strategy chooses.
LEMMA BeforeChoosingCInv ==
  ASSUME CInv, SampleStep \/ ClearFinalStep \/ ScanStep
  PROVE  CInv'
<1>1. SInv' /\ ScanInv'
  BY SampleScanInv, ClearFinalScanInv, FindScanInv
     DEF CInv, SampleStep, ClearFinalStep, ScanStep
<1>2. UNCHANGED runVars
  BY DEF SampleStep, ClearFinalStep, ScanStep
<1>3. pc \notin Choosing /\ pc' \notin Choosing /\ pc' \in BeforeScan \cup {"scan"}
  <2>1. CASE SampleStep
    BY <2>1, ZenonT(40) DEF SampleStep, Sample, SNext, GenerateInitTestcaseCDCL, CountTestcase, ClearPQ,
       UpdateSampleWeight, GenerateTestcase, Choosing, BeforeScan
  <2>2. CASE ClearFinalStep
    BY <2>2 DEF ClearFinalStep, ClearFinal, Choosing, BeforeScan
  <2>3. CASE ScanStep
    BY <2>3 DEF ScanStep, FindUncoveredTuples, SkipRow, SkipValue, SkipCovered, SolvePossible,
       SolveImpossible, KeepUnsolved, AtTuple, Candidate, scanFrame, Choosing, BeforeScan
  <2>. QED BY <2>1, <2>2, <2>3, SMTT(30)
<1>4. order = <<>> /\ first = 1 /\ UNCHANGED <<simplify, order, first, last, model>>
  BY <1>2, <1>3 DEF CInv, OrderInv, runVars
<1>5. Size' \in Nat
  BY <1>1 DEF ScanInv, CollectedOnce, Size
<1>6. OrderInv'
  <2>1. order' = <<>> /\ first' = 1 /\ pc' # "done"
    BY <1>3, <1>4 DEF Choosing
  <2>2. Ordering(order)'
    BY <2>1 DEF Ordering
  <2>3. first' \in 1 .. Size' + 1 /\ first' - 1 <= Len(order')
    <3>1. Len(order') = 0
      BY <2>1
    <3>2. first' = 1
      BY <2>1
    <3>3. Len(uncovered_tuples)' \in Nat
      BY <1>5 DEF Size
    <3>. QED BY <3>1, <3>2, <3>3 DEF Size
  <2>4. simplify' \in BOOLEAN /\ last' \in Nat \ {0} /\ model' \in TestCase
    BY <1>4 DEF CInv, OrderInv
  <2>. QED BY <1>3, <2>1, <2>2, <2>3, <2>4 DEF OrderInv
<1>. QED BY <1>1, <1>3, <1>6 DEF CInv, RunInv, AssumptionsInv, CountInv, InRun, Choosing

\* When the scan ends, all that was collected is pending.
LEMMA StartChoosingCInv ==
  ASSUME CInv, StartChoosing
  PROVE  CInv'
<1>1. /\ UNCHANGED <<clauses, already_t_wise, num_tuple_all_exact, uncovered_tuples, assumptions,
                     simplify, order, first, last, model>>
      /\ UNCHANGED scanVars /\ pc = "scan" /\ pc' = "choose" /\ ScanDone
  BY DEF StartChoosing, inputVars, countVars, scanVars, runVars, ScanDone
<1>2. SInv' /\ ScanInv'
  <2>1. pc \in InFinal /\ pc' \in InFinal \ {"scan"}
    BY <1>1 DEF InFinal
  <2>. QED BY <1>1, <2>1, FinalPhaseSInv, ScanInvStays DEF CInv, StartChoosing
<1>3. OrderInv'
  BY <1>1 DEF CInv, OrderInv, Ordering, Size, Choosing
<1>4. first = 1 /\ DOMAIN uncovered_tuples = 1 .. Size
  BY <1>1 DEF CInv, OrderInv, Choosing, ScanInv, CollectedOnce, Size
<1>5. Pending' = Collected
  BY <1>1, <1>4 DEF Pending, PendingOf, Collected, Size
<1>6. CountInv' /\ AssumptionsInv'
  BY <1>1, <1>5, ScanEnd DEF CInv, CountInv, AssumptionsInv
<1>. QED BY <1>1, <1>2, <1>3, <1>6 DEF CInv, RunInv, InRun

\* What the steps of the strategy have in common.
LEMMA ChoosingFacts ==
  ASSUME CInv, pc \in Choosing
  PROVE  /\ CollectedOnce /\ Ordering(order) /\ Size \in Nat /\ Len(order) \in Nat
         /\ DOMAIN order = 1 .. Len(order)
         /\ first \in 1 .. Size + 1 /\ first - 1 <= Len(order) /\ last \in Nat \ {0}
         /\ simplify \in BOOLEAN /\ model \in TestCase
         /\ num_tuple_all_exact = Cardinality(already_t_wise \cup Pending)
         /\ num_tuple_all_exact \in Int /\ assumptions \in SUBSET Literal
         /\ already_t_wise \subseteq Feasible(clauses)
         /\ Pending \subseteq Tuple
<1>1. CollectedOnce /\ Ordering(order)
  BY DEF CInv, ScanInv, OrderInv
<1>. QED BY <1>1, SInvFacts, PendingInTuple, SMTT(30)
         DEF CInv, ScanInv, OrderInv, CountInv, Ordering, CollectedOnce, Size, Pending

LEMMA PassCoveredCInv ==
  ASSUME CInv, PassCovered
  PROVE  CInv'
<1>1. /\ UNCHANGED <<clauses, pc, already_t_wise, num_tuple_all_exact, uncovered_tuples,
                     assumptions, simplify, last, model>>
      /\ UNCHANGED <<sampleVars, scanVars>>
      /\ pc = "choose" /\ first <= Size /\ first' = first + 1
  BY DEF PassCovered, sampleVars, inputVars, countVars, scanVars
<1>2. PICK o \in OrdersTo(first) : order' = o /\ TupleAt(o, first) \in already_t_wise
  BY DEF PassCovered, TupleAt
<1>3. /\ CollectedOnce /\ Ordering(order) /\ Size \in Nat /\ Len(order) \in Nat
      /\ DOMAIN order = 1 .. Len(order) /\ first \in 1 .. Size + 1 /\ first - 1 <= Len(order)
  BY <1>1, ChoosingFacts DEF Choosing
<1>4. first \in 1 .. Size /\ first - 1 \in Nat
  BY <1>1, <1>3
<1>5. /\ Ordering(o) /\ first \in DOMAIN o /\ Len(order) <= Len(o)
      /\ \A a \in DOMAIN order : o[a] = order[a]
  BY <1>3, <1>4, OrderExtends
<1>6. SInv' /\ ScanInv'
  BY <1>1, StutterScanInv DEF CInv
<1>7. OrderInv'
  <2>1. Ordering(order)'
    BY <1>1, <1>2, <1>5 DEF Ordering, Size
  <2>2. first' \in 1 .. Size' + 1 /\ first' - 1 <= Len(order')
    BY <1>1, <1>2, <1>3, <1>4, <1>5, SMTT(30) DEF Size, Ordering
  <2>. QED BY <1>1, <2>1, <2>2 DEF CInv, OrderInv, Choosing
<1>8. already_t_wise' \cup Pending' = already_t_wise \cup Pending
  <2>1. \A a \in 1 .. first - 1 : a \in DOMAIN order
    BY <1>3, <1>4
  <2>2. PendingOf(o, first - 1) = PendingOf(order, first - 1)
    BY <1>5, <2>1, PendingSame
  <2>3. first - 1 + 1 = first
    BY <1>4
  <2>4. PendingOf(o, first - 1) = PendingOf(o, first) \cup {TupleAt(o, first)}
    BY <1>3, <1>4, <1>5, <2>3, PendingNext
  <2>5. Pending' = PendingOf(o, first)
    <3>1. first' - 1 = first
      BY <1>1, <1>4
    <3>. QED BY <1>1, <1>2, <3>1 DEF Pending, PendingOf, Size
  <2>. QED BY <1>1, <1>2, <2>2, <2>4, <2>5 DEF Pending
<1>9. CountInv' /\ AssumptionsInv'
  BY <1>1, <1>8 DEF CInv, CountInv, AssumptionsInv, Choosing, ModelsUnder
<1>. QED BY <1>1, <1>6, <1>7, <1>9 DEF CInv, RunInv, InRun

\* A step that keeps the rows and at most reads one more entry of the order.
LEMMA RunStep ==
  ASSUME CInv, pc \in {"choose", "solve"}, pc' \in InRun,
         UNCHANGED <<inputVars, testcase_set, num_generated, countVars, positive_appearance,
                     queueVars, scan, num_tuple_all_exact, uncovered_tuples,
                     uncovered_possible_solutions, simplify, first>>,
         NEW k \in 1 .. Size, k - 1 <= Len(order), order' \in OrdersTo(k),
         last' \in Nat \ {0}, model' \in TestCase, assumptions' \in SUBSET Literal
  PROVE  /\ SInv' /\ ScanInv' /\ OrderInv' /\ Pending' = Pending
         /\ UNCHANGED <<clauses, already_t_wise, num_tuple_all_exact, uncovered_tuples, Size>>
         /\ Ordering(order') /\ k \in DOMAIN order' /\ Len(order) <= Len(order')
         /\ Len(order') \in Nat
         /\ \A a \in DOMAIN order : order'[a] = order[a] /\ TupleAt(order', a) = TupleAt(order, a)
<1>1. UNCHANGED <<clauses, already_t_wise, num_tuple_all_exact, uncovered_tuples, Size>>
  BY DEF inputVars, countVars, Size
<1>2. pc \in InFinal \cup {"clear_final"} /\ pc \in InFinal /\ pc' \in InFinal
      /\ pc' \in InFinal \ {"scan"}
  BY DEF InFinal, InRun
<1>3. /\ CollectedOnce /\ Ordering(order) /\ Size \in Nat /\ Len(order) \in Nat
      /\ DOMAIN order = 1 .. Len(order) /\ first \in 1 .. Size + 1 /\ first - 1 <= Len(order)
      /\ num_tuple_all_exact \in Int /\ simplify \in BOOLEAN
  BY ChoosingFacts DEF Choosing
<1>4. SInv'
  BY <1>2, FinalPhaseSInv DEF CInv
<1>5. ScanInv'
  BY <1>1, <1>2, <1>3, ScanInvFrame DEF CInv
<1>6. /\ Ordering(order') /\ k \in DOMAIN order' /\ Len(order) <= Len(order')
      /\ \A a \in DOMAIN order : order'[a] = order[a]
  BY <1>3, OrderExtends
<1>7. Len(order') \in Nat
  BY <1>6 DEF Ordering
<1>8. OrderInv'
  <2>1. Ordering(order)'
    BY <1>1, <1>6 DEF Ordering
  <2>. QED BY <1>1, <1>3, <1>6, <1>7, <2>1 DEF OrderInv, Choosing, InRun
<1>9. Pending' = Pending
  <2>1. \A a \in 1 .. first - 1 : a \in DOMAIN order
    BY <1>3
  <2>2. PendingOf(order', first - 1) = PendingOf(order, first - 1)
    BY <1>6, <2>1, PendingSame
  <2>3. Pending' = PendingOf(order', first - 1)
    BY <1>1 DEF Pending, PendingOf
  <2>. QED BY <2>2, <2>3 DEF Pending
<1>. QED BY <1>1, <1>4, <1>5, <1>6, <1>7, <1>8, <1>9 DEF TupleAt

LEMMA StartRunCInv ==
  ASSUME CInv, StartRun
  PROVE  CInv'
<1>1. /\ UNCHANGED <<inputVars, testcase_set, num_generated, countVars, positive_appearance,
                     queueVars, scan, num_tuple_all_exact, uncovered_tuples,
                     uncovered_possible_solutions, simplify, first>>
      /\ UNCHANGED <<assumptions, model>>
      /\ pc = "choose" /\ pc' = "solve" /\ first <= Size /\ last' = first
  BY DEF StartRun, scanVars
<1>2. PICK o \in OrdersTo(first) : order' = o /\ TupleAt(o, first) \notin already_t_wise
  BY DEF StartRun, TupleAt
<1>3. /\ Size \in Nat /\ first \in 1 .. Size + 1 /\ first - 1 <= Len(order)
      /\ model \in TestCase /\ assumptions \in SUBSET Literal
  BY <1>1, ChoosingFacts DEF Choosing
<1>4. first \in 1 .. Size /\ last' \in Nat \ {0}
  BY <1>1, <1>3
<1>5. /\ SInv' /\ ScanInv' /\ OrderInv' /\ Pending' = Pending
      /\ UNCHANGED <<clauses, already_t_wise, num_tuple_all_exact, uncovered_tuples, Size>>
      /\ Ordering(order') /\ first \in DOMAIN order' /\ Len(order') \in Nat
  BY <1>1, <1>2, <1>3, <1>4, RunStep DEF InRun
<1>6. first <= Len(order')
  BY <1>5 DEF Ordering
<1>7. RunInv'
  <2>1. TupleAt(order, first)' \notin already_t_wise'
    BY <1>1, <1>2, <1>5 DEF TupleAt
  <2>2. last' \in first .. Size' + 1 /\ last' - 1 <= Len(order') /\ first <= Size'
    BY <1>1, <1>3, <1>4, <1>5, <1>6 DEF Size
  <2>. QED BY <1>1, <1>6, <2>1, <2>2 DEF RunInv
<1>8. AssumptionsInv' /\ CountInv'
  BY <1>1, <1>5 DEF CInv, AssumptionsInv, CountInv, Choosing, ModelsUnder
<1>. QED BY <1>5, <1>7, <1>8 DEF CInv

\* What holds inside a run.
LEMMA RunFacts ==
  ASSUME CInv, pc \in InRun
  PROVE  /\ first \in 1 .. Size /\ first \in DOMAIN order /\ first <= Len(order)
         /\ last \in first .. Size + 1 /\ last - 1 <= Len(order) /\ last \in Nat \ {0}
         /\ \A k \in first .. last - 1 : k \in DOMAIN order
         /\ model \in TestCase /\ assumptions \in SUBSET Literal
         /\ Size \in Nat /\ Len(order) \in Nat
BY ChoosingFacts, SMTT(30) DEF CInv, RunInv, InRun, Choosing

\* A model of the run's literals covers every tuple of the run.
LEMMA RunModel ==
  ASSUME CollectedOnce, NEW o, Ordering(o), NEW tc \in ModelsUnder(Assumed(o)),
         NEW k \in first .. last, k \in DOMAIN o
  PROVE  Covers(tc, TupleAt(o, k))
<1>. DEFINE ls == uncovered_tuples[o[k]]
<1>1. ls \in LitPair
  BY DEF CollectedOnce, Ordering, Size
<1>2. ls[1] \in Assumed(o) /\ ls[2] \in Assumed(o)
  BY DEF Assumed
<1>3. Holds(tc, ls[1]) /\ Holds(tc, ls[2])
  BY <1>2 DEF ModelsUnder
<1>. QED BY <1>1, <1>3, PairCovered DEF TupleAt

LEMMA ExtendRunCInv ==
  ASSUME CInv, ExtendRun
  PROVE  CInv'
<1>1. /\ UNCHANGED <<inputVars, testcase_set, num_generated, countVars, positive_appearance,
                     queueVars, scan, num_tuple_all_exact, uncovered_tuples,
                     uncovered_possible_solutions, simplify, first>>
      /\ pc = "solve" /\ pc' = "solve" /\ last <= Size /\ last' = last + 1 /\ assumptions' = {}
  BY DEF ExtendRun, sampleVars
<1>2. PICK o \in OrdersTo(last) : order' = o /\ \E tc \in ModelsUnder(Assumed(o)) : model' = tc
  BY DEF ExtendRun
<1>3. model' \in ModelsUnder(Assumed(o)) /\ model' \in Models(clauses)
  BY <1>2 DEF ModelsUnder
<1>4. model' \in TestCase
  BY <1>3 DEF Models
<1>5. /\ first \in 1 .. Size /\ first \in DOMAIN order /\ first <= Len(order)
      /\ last \in first .. Size + 1 /\ last - 1 <= Len(order) /\ last \in Nat \ {0}
      /\ Size \in Nat /\ Len(order) \in Nat /\ CollectedOnce
  BY <1>1, RunFacts DEF InRun, CInv, ScanInv
<1>6. last \in 1 .. Size /\ last' \in Nat \ {0}
  BY <1>1, <1>5
<1>7. /\ SInv' /\ ScanInv' /\ OrderInv' /\ Pending' = Pending
      /\ UNCHANGED <<clauses, already_t_wise, num_tuple_all_exact, uncovered_tuples, Size>>
      /\ Ordering(order') /\ last \in DOMAIN order' /\ Len(order') \in Nat
      /\ Len(order) <= Len(order')
      /\ \A a \in DOMAIN order : TupleAt(order', a) = TupleAt(order, a)
  BY <1>1, <1>2, <1>4, <1>5, <1>6, RunStep DEF InRun
<1>8. DOMAIN order' = 1 .. Len(order') /\ last <= Len(order')
  BY <1>7 DEF Ordering
<1>9. RunInv'
  <2>1. TupleAt(order, first)' \notin already_t_wise'
    BY <1>1, <1>5, <1>7 DEF TupleAt, CInv, RunInv, InRun
  <2>2. /\ last' \in first .. Size' + 1 /\ last' - 1 <= Len(order')
        /\ first <= Size' /\ first <= Len(order')
    BY <1>1, <1>5, <1>7, <1>8 DEF Size
  <2>3. \A k \in first .. last : Covers(model', TupleAt(order', k))
    <3>. SUFFICES ASSUME NEW k \in first .. last PROVE Covers(model', TupleAt(order', k))
      OBVIOUS
    <3>1. k \in DOMAIN order'
      BY <1>5, <1>8
    <3>. QED BY <1>2, <1>3, <1>5, <1>7, <3>1, RunModel
  <2>4. \A k \in first .. last' - 1 : Covers(model', TupleAt(order, k)')
    BY <1>1, <1>5, <1>7, <2>3, SMTT(30) DEF TupleAt
  <2>. QED BY <1>1, <1>3, <1>7, <2>1, <2>2, <2>4 DEF RunInv
<1>10. assumptions = {}
  <2>1. model' \in ModelsUnder(assumptions)
    BY <1>3 DEF ModelsUnder, Assumed
  <2>. QED BY <1>1, <2>1 DEF CInv, AssumptionsInv, Choosing
<1>11. AssumptionsInv' /\ CountInv'
  BY <1>1, <1>7, <1>10 DEF CInv, AssumptionsInv, CountInv, Choosing
<1>. QED BY <1>7, <1>9, <1>11 DEF CInv

\* The branch that leaves the assumptions in the solver.
LEMMA BreakRunCInv ==
  ASSUME CInv, BreakRun
  PROVE  CInv'
<1>1. /\ UNCHANGED <<inputVars, testcase_set, num_generated, countVars, positive_appearance,
                     queueVars, scan, num_tuple_all_exact, uncovered_tuples,
                     uncovered_possible_solutions, simplify, first>>
      /\ UNCHANGED <<last, model>>
      /\ pc = "solve" /\ pc' = "settle" /\ last <= Size
  BY DEF BreakRun
<1>2. PICK o \in OrdersTo(last) : /\ order' = o /\ ModelsUnder(Assumed(o)) = {}
                                  /\ assumptions' = Assumed(o)
  BY DEF BreakRun
<1>3. /\ first \in 1 .. Size /\ first \in DOMAIN order /\ first <= Len(order)
      /\ last \in first .. Size + 1 /\ last - 1 <= Len(order) /\ last \in Nat \ {0}
      /\ \A k \in first .. last - 1 : k \in DOMAIN order
      /\ model \in TestCase /\ assumptions \in SUBSET Literal
      /\ Size \in Nat /\ Len(order) \in Nat /\ CollectedOnce /\ Ordering(order)
  BY <1>1, RunFacts, ChoosingFacts DEF InRun, Choosing
<1>4. last \in 1 .. Size
  BY <1>1, <1>3
<1>5. Ordering(o) /\ last \in DOMAIN o
  BY <1>3, <1>4, OrderExtends
<1>6. assumptions' \in SUBSET Literal
  <2>1. \A k \in first .. last : uncovered_tuples[o[k]] \in LitPair
    BY <1>3, <1>5, SMTT(30) DEF CollectedOnce, Ordering, Size
  <2>2. \A k \in first .. last :
          uncovered_tuples[o[k]][1] \in Literal /\ uncovered_tuples[o[k]][2] \in Literal
    BY <2>1 DEF LitPair
  <2>. QED BY <1>2, <1>3, <2>2 DEF Assumed
<1>7. assumptions' # {}
  <2>1. first \in first .. last
    BY <1>3
  <2>2. uncovered_tuples[o[first]][1] \in Assumed(o)
    BY <2>1 DEF Assumed
  <2>. QED BY <1>2, <2>2
<1>8. /\ SInv' /\ ScanInv' /\ OrderInv' /\ Pending' = Pending
      /\ UNCHANGED <<clauses, already_t_wise, num_tuple_all_exact, uncovered_tuples, Size>>
      /\ Len(order') \in Nat /\ Len(order) <= Len(order')
      /\ \A a \in DOMAIN order : TupleAt(order', a) = TupleAt(order, a)
  BY <1>1, <1>2, <1>3, <1>4, <1>6, RunStep DEF InRun
<1>9. RunInv'
  <2>1. \A a \in DOMAIN order : TupleAt(order, a)' = TupleAt(order, a)
    BY <1>8 DEF TupleAt
  <2>2. /\ last' \in first .. Size' + 1 /\ last' - 1 <= Len(order')
        /\ first <= Size' /\ first <= Len(order')
    BY <1>1, <1>3, <1>8 DEF Size
  <2>3. /\ TupleAt(order, first) \notin already_t_wise
        /\ last # first => /\ model \in Models(clauses)
                           /\ \A k \in first .. last - 1 : Covers(model, TupleAt(order, k))
    BY <1>1 DEF CInv, RunInv, InRun
  <2>4. TupleAt(order, first)' \notin already_t_wise'
    BY <1>1, <1>3, <1>8, <2>3 DEF TupleAt
  <2>5. last # first => \A k \in first .. last - 1 : Covers(model, TupleAt(order, k)')
    BY <1>3, <2>1, <2>3
  <2>. QED BY <1>1, <1>8, <2>2, <2>3, <2>4, <2>5 DEF RunInv
<1>10. AssumptionsInv'
  BY <1>1, <1>2, <1>7, <1>8 DEF AssumptionsInv, ModelsUnder
<1>11. CountInv'
  BY <1>1, <1>7, <1>8 DEF CInv, AssumptionsInv, CountInv, Choosing
<1>. QED BY <1>8, <1>9, <1>10, <1>11 DEF CInv

\* The run reaches the end of the tuples.
LEMMA RunToEndCInv ==
  ASSUME CInv, RunToEnd
  PROVE  CInv'
<1>1. /\ UNCHANGED <<inputVars, testcase_set, num_generated, countVars, positive_appearance,
                     queueVars, scan, num_tuple_all_exact, uncovered_tuples,
                     uncovered_possible_solutions, simplify, first>>
      /\ UNCHANGED <<order, last, model, assumptions>>
      /\ pc = "solve" /\ pc' = "settle" /\ last > Size
  BY DEF RunToEnd, scanVars, runVars
<1>2. /\ first \in 1 .. Size /\ first - 1 <= Len(order) /\ first <= Len(order)
      /\ last \in first .. Size + 1 /\ last \in Nat \ {0}
      /\ model \in TestCase /\ assumptions \in SUBSET Literal
      /\ Size \in Nat /\ Len(order) \in Nat
  BY <1>1, RunFacts DEF InRun
<1>3. last # first
  BY <1>1, <1>2
<1>4. order' \in OrdersTo(first)
  BY <1>1, <1>2 DEF OrdersTo
<1>5. /\ SInv' /\ ScanInv' /\ OrderInv' /\ Pending' = Pending
      /\ UNCHANGED <<clauses, already_t_wise, num_tuple_all_exact, uncovered_tuples, Size>>
  BY <1>1, <1>2, <1>4, RunStep DEF InRun
<1>6. RunInv'
  <2>1. RunInv
    BY DEF CInv
  <2>. QED BY <1>1, <1>5, <2>1 DEF RunInv, InRun, TupleAt, Size
<1>7. assumptions = {}
  BY <1>1, <1>3 DEF CInv, AssumptionsInv, Choosing
<1>8. AssumptionsInv' /\ CountInv'
  BY <1>1, <1>3, <1>5, <1>7 DEF CInv, AssumptionsInv, CountInv, Choosing
<1>. QED BY <1>5, <1>6, <1>8 DEF CInv

\* A step that goes on with the tuple after the run.
LEMMA NextRun ==
  ASSUME CInv, pc \in {"choose", "settle"}, pc' \in {"choose", "done"},
         UNCHANGED <<uncovered_tuples, simplify, order, last, model>>,
         first' \in 1 .. Size + 1, first' - 1 <= Len(order),
         pc' = "done" => first' = Size + 1
  PROVE  OrderInv'
BY DEF CInv, OrderInv, Ordering, Choosing, Size

LEMMA DeclareImpossibleCInv ==
  ASSUME CInv, DeclareImpossible
  PROVE  CInv'
<1>. DEFINE t == TupleAt(order, first)
<1>1. /\ UNCHANGED <<inputVars, testcase_set, num_generated, countVars, positive_appearance,
                     queueVars>>
      /\ UNCHANGED <<clauses, already_t_wise, scan, uncovered_tuples,
                     uncovered_possible_solutions, assumptions, simplify, order, last, model>>
      /\ pc = "settle" /\ pc' = "choose" /\ last = first /\ first' = first + 1
      /\ num_tuple_all_exact' = num_tuple_all_exact - 1
  BY DEF DeclareImpossible, inputVars, countVars
<1>2. /\ first \in 1 .. Size /\ first \in DOMAIN order /\ first <= Len(order)
      /\ Size \in Nat /\ Len(order) \in Nat
  BY <1>1, RunFacts DEF InRun
<1>3. /\ CollectedOnce /\ Ordering(order) /\ num_tuple_all_exact \in Int
      /\ assumptions \in SUBSET Literal
      /\ num_tuple_all_exact = Cardinality(already_t_wise \cup Pending)
      /\ already_t_wise \subseteq Feasible(clauses)
  BY <1>1, ChoosingFacts DEF Choosing
<1>4. SInv' /\ ScanInv'
  <2>1. /\ pc \in InFinal \cup {"clear_final"} /\ pc \in InFinal /\ pc' \in InFinal
        /\ pc' \in InFinal \ {"scan"}
    BY <1>1 DEF InFinal
  <2>2. SInv'
    BY <1>1, <2>1, FinalPhaseSInv DEF CInv
  <2>3. ScanInv'
    BY <1>1, <1>3, <2>1, ScanInvFrame DEF CInv
  <2>. QED BY <2>2, <2>3
<1>5. OrderInv'
  BY <1>1, <1>2, NextRun
<1>6. num_tuple_all_exact' = Cardinality(already_t_wise \cup Pending)'
  <2>. DEFINE R == already_t_wise \cup PendingOf(order, first)
  <2>1. t \notin already_t_wise
    BY <1>1 DEF CInv, RunInv, InRun
  <2>2. first - 1 \in Nat /\ first - 1 + 1 = first
    BY <1>2
  <2>3. PendingOf(order, first - 1) = PendingOf(order, first) \cup {t}
        /\ t \notin PendingOf(order, first)
    BY <1>2, <1>3, <2>2, PendingNext
  <2>4. already_t_wise \cup Pending = R \cup {t} /\ t \notin R
    BY <2>1, <2>3 DEF Pending
  <2>5. IsFiniteSet(R)
    BY <1>3, PendingInTuple, TuplesInTuple, TupleFinite, FS_Subset
  <2>. HIDE DEF R, t
  <2>6. Cardinality(R \cup {t}) = Cardinality(R) + 1 /\ Cardinality(R) \in Nat
    BY <2>4, <2>5, FS_AddElement, FS_CardinalityType
  <2>7. Pending' = PendingOf(order, first)
    <3>1. first' - 1 = first
      BY <1>1, <1>2
    <3>. QED BY <1>1, <3>1 DEF Pending, PendingOf, Size
  <2>8. (already_t_wise \cup Pending)' = R
    BY <1>1, <2>7 DEF R
  <2>9. num_tuple_all_exact = Cardinality(R) + 1
    BY <1>3, <2>4, <2>6
  <2>10. num_tuple_all_exact' = Cardinality(R)
    BY ONLY <1>1, <2>6, <2>9
  <2>. QED BY <2>8, <2>10
<1>7. AssumptionsInv' /\ CountInv'
  BY <1>1, <1>6 DEF CInv, AssumptionsInv, CountInv, Choosing, ModelsUnder
<1>. QED BY <1>1, <1>4, <1>5, <1>7 DEF CInv, RunInv, InRun

\* A run that covered something adds its model: what it covers beyond the
\* run was covered or pending, and the run is no longer ahead.
LEMMA AddRunCInv ==
  ASSUME CInv, AddRun
  PROVE  CInv'
<1>1. /\ UNCHANGED <<clauses, upperlimit, positive_appearance, pq, selected_bitset>>
      /\ UNCHANGED <<num_tuple_all_exact, uncovered_tuples, assumptions, simplify, order,
                     last, model>>
      /\ UNCHANGED scanVars
      /\ pc = "settle" /\ pc' = "choose" /\ last # first /\ first' = last
      /\ AddTestcase(model)
  BY DEF AddRun, inputVars, queueVars, scanVars
<1>2. /\ first \in 1 .. Size /\ first \in DOMAIN order /\ first <= Len(order)
      /\ last \in first .. Size + 1 /\ last - 1 <= Len(order)
      /\ \A k \in first .. last - 1 : k \in DOMAIN order
      /\ Size \in Nat /\ Len(order) \in Nat /\ CollectedOnce /\ Ordering(order)
      /\ already_t_wise \subseteq Feasible(clauses)
  BY <1>1, RunFacts, ChoosingFacts DEF InRun, Choosing
<1>3. /\ model \in Models(clauses) /\ TupleAt(order, first) \notin already_t_wise
      /\ \A k \in first .. last - 1 : Covers(model, TupleAt(order, k))
  BY <1>1 DEF CInv, RunInv, InRun
<1>4. \A k \in first .. last - 1 : TupleAt(order, k) \in TuplesOf(model)
  BY <1>2, <1>3 DEF TupleAt, TuplesOf, CollectedOnce, Ordering, Size
<1>5. pc \in InFinal /\ pc' \in InFinal /\ pc' \in InFinal \ {"scan"}
  BY <1>1 DEF InFinal
<1>6. /\ SInv' /\ already_t_wise' = already_t_wise \cup TuplesOf(model)
  <2>1. ~(TuplesOf(model) \subseteq already_t_wise)
    <3>1. first \in first .. last - 1
      BY <1>1, <1>2
    <3>. QED BY <1>3, <1>4, <3>1
  <2>. QED BY <1>1, <1>3, <1>5, <2>1, AddTestcaseSInv DEF CInv
<1>7. ScanInv'
  BY <1>1, <1>5, ScanInvStays DEF CInv
<1>8. OrderInv'
  BY <1>1, <1>2, NextRun
<1>9. already_t_wise' \cup Pending' = already_t_wise \cup Pending
      /\ Feasible(clauses) \subseteq already_t_wise \cup Pending
  <2>1. Feasible(clauses) \subseteq already_t_wise \cup Pending
    BY <1>1 DEF CInv, CountInv, Choosing
  <2>2. TuplesOf(model) \subseteq Feasible(clauses)
    BY <1>3, ModelTuplesFeasible
  <2>3. Pending' = PendingOf(order, last - 1)
    BY <1>1 DEF Pending, PendingOf, Size
  <2>4. /\ first - 1 \in Nat /\ last - 1 \in Nat /\ first - 1 <= last - 1
        /\ first - 1 + 1 = first
    BY <1>2
  <2>5. /\ PendingOf(order, last - 1) \subseteq Pending
        /\ \A t \in Pending : \/ t \in PendingOf(order, last - 1)
                              \/ \E a \in first .. last - 1 : t = TupleAt(order, a)
    BY <2>4, PendingRun DEF Pending
  <2>6. \A t \in Pending : t \in Pending' \/ t \in TuplesOf(model)
    BY <1>4, <2>3, <2>5
  <2>. QED BY <1>6, <2>1, <2>2, <2>3, <2>5, <2>6
<1>10. CountInv' /\ AssumptionsInv'
  BY <1>1, <1>9 DEF CInv, CountInv, AssumptionsInv, Choosing, ModelsUnder
<1>. QED BY <1>1, <1>6, <1>7, <1>8, <1>10 DEF CInv, RunInv, InRun

LEMMA FinishCInv ==
  ASSUME CInv, Finish
  PROVE  CInv'
<1>1. /\ UNCHANGED <<inputVars, testcase_set, num_generated, countVars, positive_appearance,
                     queueVars>>
      /\ UNCHANGED <<clauses, already_t_wise, num_tuple_all_exact, uncovered_tuples,
                     assumptions, simplify, order, first, last, model>>
      /\ UNCHANGED scanVars
      /\ pc = "choose" /\ pc' = "done" /\ first > Size
  BY DEF Finish, inputVars, countVars, scanVars, runVars
<1>2. SInv' /\ ScanInv'
  <2>1. /\ pc \in InFinal \cup {"clear_final"} /\ pc \in InFinal /\ pc' \in InFinal
        /\ pc' \in InFinal \ {"scan"}
    BY <1>1 DEF InFinal
  <2>. QED BY <1>1, <2>1, FinalPhaseSInv, ScanInvStays DEF CInv
<1>3. Size \in Nat /\ first \in 1 .. Size + 1 /\ first - 1 <= Len(order)
  BY <1>1, ChoosingFacts DEF Choosing
<1>4. OrderInv'
  <2>1. first' = Size + 1
    BY <1>1, <1>3
  <2>. QED BY <1>1, <1>3, <2>1, NextRun
<1>5. CountInv' /\ AssumptionsInv'
  BY <1>1 DEF CInv, CountInv, AssumptionsInv, Choosing, ModelsUnder, Pending, PendingOf, Size
<1>. QED BY <1>1, <1>2, <1>4, <1>5 DEF CInv, RunInv, InRun

-----------------------------------------------------------------------------
(* The theorems *)

\* Every step of the program keeps the invariant.
LEMMA CInvNext ==
  ASSUME CInv, [Next]_vars
  PROVE  CInv'
<1>1. CASE SampleStep \/ ClearFinalStep \/ ScanStep
  BY <1>1, BeforeChoosingCInv
<1>2. CASE StartChoosing
  BY <1>2, StartChoosingCInv
<1>3. CASE PassCovered
  BY <1>3, PassCoveredCInv
<1>4. CASE StartRun
  BY <1>4, StartRunCInv
<1>5. CASE ExtendRun
  BY <1>5, ExtendRunCInv
<1>6. CASE BreakRun
  BY <1>6, BreakRunCInv
<1>7. CASE RunToEnd
  BY <1>7, RunToEndCInv
<1>8. CASE DeclareImpossible
  BY <1>8, DeclareImpossibleCInv
<1>9. CASE AddRun
  BY <1>9, AddRunCInv
<1>10. CASE Finish
  BY <1>10, FinishCInv
<1>11. CASE UNCHANGED vars
  <2>1. SInv' /\ ScanInv'
    BY <1>11, StutterScanInv DEF CInv, vars
  <2>2. UNCHANGED <<clauses, pc, already_t_wise, num_tuple_all_exact, uncovered_tuples,
                    assumptions, simplify, order, first, last, model>>
    BY <1>11 DEF vars, sampleVars, inputVars, countVars, scanVars, runVars
  <2>3. UNCHANGED OrderInv /\ UNCHANGED RunInv /\ UNCHANGED AssumptionsInv /\ UNCHANGED CountInv
    BY <2>2 DEF OrderInv, RunInv, AssumptionsInv, CountInv, Ordering, Size, TupleAt,
       ModelsUnder, Pending, PendingOf
  <2>. QED BY <2>1, <2>3 DEF CInv
<1>. QED BY <1>1, <1>2, <1>3, <1>4, <1>5, <1>6, <1>7, <1>8, <1>9, <1>10, <1>11
         DEF Next, Step, Terminated

\* The invariant holds in every reachable state.
LEMMA SpecCInv == Spec => []CInv
BY CInvInit, CInvNext, PTL DEF Spec

\* Type correctness of the whole program with final strategies 1 and 2.
THEOREM ContiguousTypeCorrect == Spec => []ContiguousTypeOK
<1>1. CInv => ContiguousTypeOK
  <2>. SUFFICES ASSUME CInv PROVE ContiguousTypeOK
    OBVIOUS
  <2>1. ScanTypeOK
    BY ScanParts DEF CInv, SInv, ScanInv, CollectedOnce, ScanTypeOK, Bit
  <2>2. Size \in Nat
    BY DEF CInv, ScanInv, CollectedOnce, Size
  <2>. QED BY <2>1, <2>2 DEF CInv, OrderInv, Ordering, ContiguousTypeOK
<1>. QED BY <1>1, SpecCInv, PTL

\* Every row, the models of the runs among them, is a valid configuration.
THEOREM ContiguousRowsValid == Spec => []RowsValid
<1>1. CInv => RowsValid
  BY DEF CInv, SInv
<1>. QED BY <1>1, SpecCInv, PTL

\* The row a run adds covers every tuple of the run, although the model was
\* found before the last, unsatisfiable, call.
THEOREM ContiguousRunCovered == Spec => []RunCovered
<1>1. CInv => RunCovered
  BY DEF CInv, RunInv, RunCovered, InRun, TupleAt
<1>. QED BY <1>1, SpecCInv, PTL

\* At the end nothing is pending.
LEMMA DonePending ==
  ASSUME CInv, pc = "done"
  PROVE  /\ num_tuple_all_exact = Cardinality(already_t_wise)
         /\ assumptions = {} => Feasible(clauses) \subseteq already_t_wise
         /\ num_tuple = Cardinality(already_t_wise)
<1>1. /\ CollectedOnce /\ Ordering(order) /\ Size \in Nat
      /\ first = Size + 1 /\ first - 1 <= Len(order)
      /\ num_tuple_all_exact = Cardinality(already_t_wise \cup Pending)
  BY ChoosingFacts DEF Choosing, CInv, OrderInv
<1>2. first - 1 = Size /\ Len(order) >= Size
  <2>1. Len(order) \in Nat
    BY <1>1 DEF Ordering
  <2>. QED BY <1>1, <2>1
<1>3. Pending = {}
  BY <1>1, <1>2, PendingNone DEF Pending
<1>4. num_tuple = Cardinality(already_t_wise)
  BY DEF CInv, SInv, RowsInv
<1>. QED BY <1>1, <1>3, <1>4 DEF CInv, CountInv, Choosing

\* The log of strategies 1 and 2 always reports full coverage, for every
\* system and every shuffle, whatever was missed.
THEOREM ContiguousReportsFullCoverage == Spec => []ReportsFullCoverage
<1>1. CInv => ReportsFullCoverage
  BY DonePending DEF ReportsFullCoverage
<1>. QED BY <1>1, SpecCInv, PTL

\* The only way to miss a valid tuple is the branch that leaves assumptions
\* in the solver: without any left at the end, every valid tuple is covered.
THEOREM ContiguousCoversUnlessStuck ==
  Spec => [](pc = "done" /\ assumptions = {} => already_t_wise = Feasible(clauses))
<1>1. CInv => (pc = "done" /\ assumptions = {} => already_t_wise = Feasible(clauses))
  BY DonePending, SInvFacts DEF CInv
<1>. QED BY <1>1, SpecCInv, PTL

-----------------------------------------------------------------------------
(* Every step leaves less to do *)

Rank == CASE pc = "choose" -> 2 [] pc = "solve" -> 1 [] OTHER -> 0

LEMMA StepAdvances ==
  ASSUME CInv, Step
  PROVE  Fewer(WorkLeft', WorkLeft)
<1>1. /\ pc \in Choosing \ {"done"} =>
           WorkLeft = <<1, Size + 1 - first, Rank, Size + 1 - last, 0>>
      /\ pc' \in Choosing \ {"done"} =>
           WorkLeft' = <<1, Size' + 1 - first', Rank', Size' + 1 - last', 0>>
      /\ pc' = "done" => WorkLeft' = <<0, 0, 0, 0, 0>>
  BY DEF WorkLeft, Remaining, Stage, Choosing, Rank
<1>2. CASE SampleStep \/ ClearFinalStep \/ ScanStep
  <2>1. /\ pc \in BeforeScan \cup {"scan"} /\ pc' \in BeforeScan \cup {"scan"}
        /\ Fewer(EarlyWork', EarlyWork)
    BY <1>2, EarlyAdvances DEF CInv, SampleStep, ClearFinalStep, ScanStep
  <2>2. WorkLeft = EarlyWork /\ WorkLeft' = EarlyWork'
    BY <2>1 DEF WorkLeft, EarlyWork, Remaining, Stage, BeforeScan
  <2>. QED BY <2>1, <2>2
<1>3. CASE StartChoosing
  <2>1. pc = "scan" /\ pc' = "choose"
    BY <1>3 DEF StartChoosing, ScanDone
  <2>2. WorkLeft = <<2, NumVar - scan[1], 1 - scan[2], NumVar - scan[3], 1 - scan[4]>>
    BY <2>1 DEF WorkLeft, Remaining, Stage
  <2>. QED BY <1>1, <2>1, <2>2, FewerNumbers DEF Choosing
<1>4. ASSUME pc \in Choosing PROVE Size \in Nat /\ first \in 1 .. Size + 1
  BY <1>4, ChoosingFacts
<1>5. ASSUME pc \in Choosing, pc' \in Choosing \ {"done"}, Size' = Size,
             \/ first' \in first + 1 .. Size + 1
             \/ first' = first /\ Rank' \in Nat /\ Rank' < Rank
             \/ first' = first /\ Rank' = Rank /\ last' = last + 1 /\ last \in 1 .. Size
      PROVE  pc # "done" => Fewer(WorkLeft', WorkLeft)
  <2>1. CASE first' \in first + 1 .. Size + 1
    <3>1. Size' + 1 - first' \in Nat /\ Size' + 1 - first' < Size + 1 - first
      BY <1>4, <1>5, <2>1
    <3>. QED BY <1>1, <1>5, <3>1, FewerNumbers
  <2>2. CASE first' = first /\ Rank' \in Nat /\ Rank' < Rank
    BY <1>1, <1>5, <2>2, FewerNumbers
  <2>3. CASE first' = first /\ Rank' = Rank /\ last' = last + 1 /\ last \in 1 .. Size
    <3>1. Size' + 1 - last' \in Nat /\ Size' + 1 - last' < Size + 1 - last
      BY <1>4, <1>5, <2>3
    <3>. QED BY <1>1, <1>5, <2>3, <3>1, FewerNumbers
  <2>. QED BY <1>5, <2>1, <2>2, <2>3
<1>6. CASE PassCovered
  <2>1. /\ pc = "choose" /\ pc' = "choose" /\ Size' = Size
        /\ first <= Size /\ first' = first + 1
    BY <1>6 DEF PassCovered, sampleVars, scanVars, Size
  <2>. QED BY <1>4, <1>5, <2>1 DEF Choosing
<1>7. CASE StartRun \/ BreakRun \/ RunToEnd
  <2>1. /\ Size' = Size /\ first' = first
        /\ \/ pc = "choose" /\ pc' = "solve"
           \/ pc = "solve" /\ pc' = "settle"
    BY <1>7 DEF StartRun, BreakRun, RunToEnd, scanVars, runVars, Size
  <2>2. Rank' \in Nat /\ Rank' < Rank
    BY <2>1 DEF Rank
  <2>. QED BY <1>5, <2>1, <2>2 DEF Choosing
<1>8. CASE ExtendRun
  <2>1. /\ pc = "solve" /\ pc' = "solve" /\ Size' = Size /\ first' = first
        /\ last <= Size /\ last' = last + 1
    BY <1>8 DEF ExtendRun, sampleVars, Size
  <2>2. last \in 1 .. Size /\ Rank' = Rank
    BY <1>4, <2>1, RunFacts DEF Rank, Choosing, InRun
  <2>. QED BY <1>5, <2>1, <2>2 DEF Choosing
<1>9. CASE DeclareImpossible \/ AddRun
  <2>1. /\ pc = "settle" /\ pc' = "choose" /\ Size' = Size
        /\ first' = IF last = first THEN first + 1 ELSE last
    BY <1>9 DEF DeclareImpossible, AddRun, scanVars, Size
  <2>2. Size \in Nat /\ first \in 1 .. Size /\ last \in first .. Size + 1
    BY <2>1, RunFacts DEF InRun
  <2>3. first' \in first + 1 .. Size + 1
    BY <2>1, <2>2
  <2>. QED BY <1>5, <2>1, <2>3 DEF Choosing
<1>10. CASE Finish
  <2>1. pc = "choose" /\ pc' = "done"
    BY <1>10 DEF Finish
  <2>. QED BY <1>1, <2>1, FewerNumbers DEF Choosing
<1>. QED BY <1>2, <1>3, <1>6, <1>7, <1>8, <1>9, <1>10 DEF Step

\* Strategies 1 and 2 go on for a bounded time: every run, also one that the
\* solver's assumptions spoil, leaves fewer tuples to go through.
THEOREM ContiguousAdvances == Spec => Advances
<1>1. CInv /\ [Next]_vars => [Fewer(WorkLeft', WorkLeft)]_vars
  BY StepAdvances DEF Next, Terminated
<1>. QED BY <1>1, SpecCInv, PTL DEF Spec, Advances
=============================================================================
