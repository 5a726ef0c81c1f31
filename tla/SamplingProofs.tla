--------------------------- MODULE SamplingProofs ---------------------------
(***************************************************************************)
(* Proofs about the sampling phase, for every number of options, every set *)
(* of satisfiable formulas, every candidate set size and every limit; then *)
(* about the scan over all tuples that every final strategy begins with,   *)
(* with and without simplify: what it has found when it ends, and what     *)
(* adding a row does.                                                      *)
(***************************************************************************)
EXTENDS FinalScan, CNFProofs

-----------------------------------------------------------------------------
(* The inductive invariant *)

\* The bit set is what the counted rows cover, and num_tuple_ its size.
RowsInv ==
  /\ pc = "init" <=> num_generated = 0
  /\ already_t_wise =
       CoveredUpTo(testcase_set, IF Uncounted THEN num_generated - 1 ELSE num_generated)
  /\ num_tuple = Cardinality(already_t_wise)

\* RowsContribute with the covered set spelled out.
FreshInv ==
  \A k \in DOMAIN testcase_set :
    ~(TuplesOf(testcase_set[k]) \subseteq CoveredUpTo(testcase_set, k - 1))

\* A queued gain is exact, except that the newest row has yet to be taken
\* off: selected_bitset is what that row added.
QueueInv ==
  /\ \A a \in DOMAIN pq : pq[a].tc \in Models(clauses)
  /\ pc \in {"init", "update"} /\ num_generated <= 1 => pq = <<>>
  /\ pc \in {"update", "weight", "generate"} =>
       \A a \in DOMAIN pq : pq[a].gain = Gain(pq[a].tc)
  /\ pc = "update" /\ num_generated > 1 =>
       selected_bitset = Gain(testcase_set[num_generated])
  /\ pc = "clear_pq" =>
       \A a \in DOMAIN pq : pq[a].gain \ selected_bitset = Gain(pq[a].tc)
  /\ pc \in {"weight", "generate"} =>
       Len(pq) <= CandidateSetSize /\ \A a \in DOMAIN pq : pq[a].gain # {}

SInv == TypeOK /\ RowsValid /\ RowsInv /\ FreshInv /\ QueueInv

\* What Update2TupleInfo does to the bit set, and that the counters stay
\* numbers.
LEMMA UpdateEffect ==
  ASSUME TypeOK, NEW tc \in TestCase, Update2TupleInfo(tc)
  PROVE  /\ already_t_wise' = already_t_wise \cup TuplesOf(tc)
         /\ already_t_wise' \in SUBSET Tuple
         /\ num_tuple' \in Int
         /\ num_tuple = Cardinality(already_t_wise) =>
              num_tuple' = Cardinality(already_t_wise')
         /\ positive_uncovered' \in [Var -> Int]
         /\ negative_uncovered' \in [Var -> Int]
<1>. DEFINE fresh == TuplesOf(tc) \ already_t_wise
            touched(v) == Cardinality({t \in fresh : t[1] = v \/ t[3] = v})
<1>1. \A T \in SUBSET Tuple : Cardinality(T) \in Nat
  BY TupleFinite, FS_Subset, FS_CardinalityType
<1>2. fresh \in SUBSET Tuple
  BY TuplesInTuple
<1>3. Cardinality(fresh) \in Nat
  BY <1>1, <1>2
<1>4. ASSUME NEW v \in Var PROVE touched(v) \in Nat
  BY <1>1, <1>2
<1>5. /\ positive_uncovered \in [Var -> Int]
      /\ negative_uncovered \in [Var -> Int]
      /\ num_tuple \in Int
      /\ already_t_wise \in SUBSET Tuple
  BY DEF TypeOK
<1>6. /\ positive_uncovered' = [v \in Var |-> positive_uncovered[v]
                                  - (IF tc[v] = 1 THEN touched(v) ELSE 0)]
      /\ negative_uncovered' = [v \in Var |-> negative_uncovered[v]
                                  - (IF tc[v] = 1 THEN 0 ELSE touched(v))]
      /\ num_tuple' = num_tuple + Cardinality(fresh)
      /\ already_t_wise' = already_t_wise \cup fresh
  BY DEF Update2TupleInfo
<1>. HIDE DEF fresh, touched
<1>7. positive_uncovered' \in [Var -> Int] /\ negative_uncovered' \in [Var -> Int]
  BY <1>4, <1>5, <1>6
<1>8. num_tuple' \in Int
  BY <1>3, <1>5, <1>6
<1>9. Cardinality(already_t_wise \cup fresh)
        = Cardinality(already_t_wise) + Cardinality(fresh)
  <2>1. IsFiniteSet(already_t_wise) /\ IsFiniteSet(fresh)
    BY <1>2, <1>5, TupleFinite, FS_Subset
  <2>2. already_t_wise \cap fresh = {}
    BY DEF fresh
  <2>3. Cardinality(already_t_wise \cup fresh)
          = Cardinality(already_t_wise) + Cardinality(fresh)
              - Cardinality(already_t_wise \cap fresh)
    BY <2>1, FS_Union
  <2>4. Cardinality(already_t_wise \cap fresh) = 0
    BY <2>2, FS_EmptySet
  <2>. QED BY <1>1, <1>2, <1>5, <2>3, <2>4
<1>. QED BY <1>2, <1>5, <1>6, <1>7, <1>8, <1>9 DEF fresh

LEMMA SInvInit == SInit => SInv
<1>. SUFFICES ASSUME SInit PROVE SInv
  OBVIOUS
<1>1. TypeOK
  BY NumVarAssumption DEF SInit, TypeOK, Var
<1>2. RowsValid
  BY DEF SInit, RowsValid
<1>3. RowsInv /\ FreshInv
  BY FS_EmptySet DEF SInit, RowsInv, FreshInv, Uncounted, CoveredUpTo
<1>4. QueueInv
  BY DEF SInit, QueueInv
<1>. QED BY <1>1, <1>2, <1>3, <1>4 DEF SInv

LEMMA InitTestcaseSInv ==
  ASSUME SInv, GenerateInitTestcaseCDCL
  PROVE  SInv'
<1>. USE DEF GenerateInitTestcaseCDCL, inputVars, countVars, queueVars
<1>1. PICK tc \in Models(clauses) : testcase_set' = Append(testcase_set, tc)
  OBVIOUS
<1>2. /\ num_generated = 0 /\ testcase_set = <<>> /\ pq = <<>>
      /\ already_t_wise = {}
  <2>1. num_generated = 0 /\ Len(testcase_set) = 0 /\ testcase_set \in Seq(TestCase)
    BY DEF SInv, RowsInv, RowsValid, TypeOK
  <2>2. testcase_set = <<>>
    BY <2>1
  <2>3. pq = <<>>
    BY <2>1 DEF SInv, QueueInv
  <2>4. already_t_wise = {}
    BY <2>1 DEF SInv, RowsInv, Uncounted, CoveredUpTo
  <2>. QED BY <2>1, <2>2, <2>3, <2>4
<1>3. tc \in TestCase
  BY DEF Models
<1>4. testcase_set' = <<tc>>
  BY <1>1, <1>2
<1>5. TypeOK'
  BY <1>3, <1>4 DEF SInv, TypeOK
<1>6. RowsValid'
  BY <1>4 DEF RowsValid
<1>7. RowsInv' /\ FreshInv'
  <2>1. RowsInv'
    BY <1>2 DEF SInv, RowsInv, Uncounted, CoveredUpTo
  <2>2. FreshInv'
    BY <1>3, <1>4, TuplesNonempty DEF FreshInv, CoveredUpTo
  <2>. QED BY <2>1, <2>2
<1>8. QueueInv'
  BY <1>2 DEF QueueInv
<1>. QED BY <1>5, <1>6, <1>7, <1>8 DEF SInv

LEMMA CountTestcaseSInv ==
  ASSUME SInv, CountTestcase
  PROVE  SInv'
<1>. USE DEF CountTestcase, inputVars, queueVars
<1>. DEFINE tc == testcase_set[num_generated]
<1>1. /\ TypeOK
      /\ num_generated \in Nat \ {0}
      /\ num_generated = Len(testcase_set)
      /\ testcase_set \in Seq(TestCase)
  BY DEF SInv, TypeOK, RowsValid, RowsInv
<1>2. tc \in TestCase
  BY <1>1
<1>3. /\ already_t_wise' = already_t_wise \cup TuplesOf(tc)
      /\ already_t_wise' \in SUBSET Tuple
      /\ num_tuple' \in Int
      /\ positive_uncovered' \in [Var -> Int]
      /\ negative_uncovered' \in [Var -> Int]
  BY <1>1, <1>2, UpdateEffect
<1>4. TypeOK'
  BY <1>1, <1>3 DEF TypeOK
<1>5. RowsValid' /\ FreshInv'
  BY DEF SInv, RowsValid, FreshInv
<1>6. pc' \in {"clear_final", "clear_pq", "weight"}
  OBVIOUS
<1>7. RowsInv'
  <2>1. already_t_wise = CoveredUpTo(testcase_set, num_generated - 1)
    BY DEF SInv, RowsInv, Uncounted
  <2>2. already_t_wise' = CoveredUpTo(testcase_set, num_generated)
    <3>1. num_generated - 1 \in Nat /\ (num_generated - 1) + 1 = num_generated
      BY <1>1
    <3>2. CoveredUpTo(testcase_set, (num_generated - 1) + 1)
            = CoveredUpTo(testcase_set, num_generated - 1)
                \cup TuplesOf(testcase_set[(num_generated - 1) + 1])
      BY <3>1, CoveredUpToNext
    <3>. QED BY <1>3, <2>1, <3>1, <3>2
  <2>3. num_tuple' = Cardinality(already_t_wise')
    BY <1>1, <1>2, UpdateEffect DEF SInv, RowsInv
  <2>. QED BY <1>1, <1>6, <2>2, <2>3 DEF RowsInv, Uncounted
<1>8. QueueInv'
  <2>1. \A a \in DOMAIN pq : /\ pq[a].gain = TuplesOf(pq[a].tc) \ already_t_wise
                             /\ pq[a].tc \in Models(clauses)
    BY DEF SInv, QueueInv, Gain
  <2>2. CASE num_generated > 1
    <3>1. selected_bitset = TuplesOf(tc) \ already_t_wise
      BY <2>2 DEF SInv, QueueInv, Gain
    <3>2. \A a \in DOMAIN pq :
            pq[a].gain \ selected_bitset = TuplesOf(pq[a].tc) \ already_t_wise'
      BY <2>1, <3>1, <1>3
    <3>3. pc' \in {"clear_pq", "clear_final"}
      BY <2>2
    <3>. QED BY <2>1, <2>2, <3>2, <3>3 DEF QueueInv, Gain
  <2>3. CASE ~(num_generated > 1)
    <3>1. pq = <<>>
      BY <1>1, <2>3 DEF SInv, QueueInv
    <3>2. pc' \in {"weight", "clear_final"}
      BY <2>3
    <3>. QED BY <3>1, <3>2, SamplingAssumption DEF QueueInv
  <2>. QED BY <2>2, <2>3
<1>. QED BY <1>4, <1>5, <1>7, <1>8 DEF SInv

\* The pops at the back keep a prefix of the sorted queue.
LEMMA KeptSizeBound ==
  ASSUME NEW s \in Seq(Entry)
  PROVE  /\ KeptSize(s) \in 0 .. Len(s)
         /\ KeptSize(s) <= CandidateSetSize
<1>. DEFINE K == {a \in DOMAIN s : a <= CandidateSetSize /\ s[a].gain # {}}
<1>1. Len(s) \in Nat /\ DOMAIN s = 1 .. Len(s) /\ CandidateSetSize \in Nat
  BY SamplingAssumption
<1>2. ASSUME NEW n \in Nat
      PROVE  IsFiniteSet(1 .. n) /\ Cardinality(1 .. n) = n
  BY FS_Interval, 1 \in Int, n \in Int
<1>3. K \in SUBSET (1 .. Len(s)) /\ K \in SUBSET (1 .. CandidateSetSize)
  BY <1>1
<1>. HIDE DEF K
<1>4. IsFiniteSet(K) /\ Cardinality(K) <= Len(s) /\ Cardinality(K) <= CandidateSetSize
  <2>1. IsFiniteSet(K) /\ Cardinality(K) <= Cardinality(1 .. Len(s))
    BY <1>1, <1>2, <1>3, FS_Subset
  <2>2. Cardinality(K) <= Cardinality(1 .. CandidateSetSize)
    BY <1>1, <1>2, <1>3, FS_Subset
  <2>. QED BY <1>1, <1>2, <2>1, <2>2
<1>5. Cardinality(K) \in Nat
  BY <1>4, FS_CardinalityType
<1>. QED BY <1>1, <1>4, <1>5 DEF KeptSize, K

\* In a queue sorted by decreasing gain the entries kept are useful ones.
LEMMA KeptUseful ==
  ASSUME NEW s \in Seq(Entry),
         \A a, b \in DOMAIN s :
           a < b => Cardinality(s[a].gain) >= Cardinality(s[b].gain),
         NEW b \in 1 .. KeptSize(s)
  PROVE  s[b].gain # {}
<1>. SUFFICES ASSUME s[b].gain = {} PROVE FALSE
  OBVIOUS
<1>. DEFINE K == {a \in DOMAIN s : a <= CandidateSetSize /\ s[a].gain # {}}
<1>1. /\ Len(s) \in Nat /\ DOMAIN s = 1 .. Len(s)
      /\ KeptSize(s) \in 0 .. Len(s) /\ b \in DOMAIN s
  BY KeptSizeBound
<1>2. \A T \in SUBSET Tuple : Cardinality(T) = 0 <=> T = {}
  BY TupleFinite, FS_Subset, FS_EmptySet
<1>3. \A T \in SUBSET Tuple : Cardinality(T) \in Nat
  BY TupleFinite, FS_Subset, FS_CardinalityType
<1>4. \A a \in DOMAIN s : s[a].gain \in SUBSET Tuple
  <2>1. \A a \in DOMAIN s : s[a] \in Entry
    BY <1>1
  <2>. QED BY <2>1 DEF Entry
<1>5. \A a \in DOMAIN s : a > b => s[a].gain = {}
  <2>. SUFFICES ASSUME NEW a \in DOMAIN s, a > b PROVE s[a].gain = {}
    OBVIOUS
  <2>1. Cardinality(s[b].gain) >= Cardinality(s[a].gain)
    BY <1>1
  <2>2. Cardinality(s[b].gain) = 0
    BY <1>1, <1>2, <1>4
  <2>3. Cardinality(s[a].gain) = 0
    BY <1>3, <1>4, <2>1, <2>2
  <2>. QED BY <1>2, <1>4, <2>3
<1>6. K \in SUBSET (1 .. b - 1)
  <2>. SUFFICES ASSUME NEW a \in K PROVE a \in 1 .. b - 1
    OBVIOUS
  <2>1. a \in 1 .. Len(s) /\ s[a].gain # {}
    BY <1>1
  <2>2. ~(a > b) /\ a # b
    BY <1>1, <1>5, <2>1
  <2>. QED BY <1>1, <2>1, <2>2
<1>. HIDE DEF K
<1>7. Cardinality(K) <= b - 1
  <2>1. b - 1 \in Nat
    BY <1>1
  <2>2. IsFiniteSet(1 .. b - 1) /\ Cardinality(1 .. b - 1) = b - 1
    BY FS_Interval, 1 \in Int, b - 1 \in Int, <2>1
  <2>. QED BY <1>6, <2>2, FS_Subset
<1>8. KeptSize(s) = Cardinality(K)
  BY DEF KeptSize, K
<1>. QED BY <1>1, <1>7, <1>8

LEMMA ClearPQSInv ==
  ASSUME SInv, ClearPQ
  PROVE  SInv'
<1>. USE DEF inputVars, countVars
<1>. DEFINE cut == [a \in DOMAIN pq |-> [pq[a] EXCEPT !.gain = @ \ selected_bitset]]
<1>1. PICK p \in [DOMAIN pq -> DOMAIN pq] :
        /\ \A a, b \in DOMAIN pq :
             a < b => Cardinality(cut[p[a]].gain) >= Cardinality(cut[p[b]].gain)
        /\ pq' = SubSeq([a \in DOMAIN pq |-> cut[p[a]]], 1,
                     KeptSize([a \in DOMAIN pq |-> cut[p[a]]]))
  BY DEF ClearPQ
<1>. DEFINE s == [a \in DOMAIN pq |-> cut[p[a]]]
<1>2. /\ pq \in Seq(Entry) /\ selected_bitset \in SUBSET Tuple /\ TypeOK
      /\ pc = "clear_pq"
      /\ \A a \in DOMAIN pq : /\ pq[a].gain \ selected_bitset = Gain(pq[a].tc)
                              /\ pq[a].tc \in Models(clauses)
  BY DEF SInv, TypeOK, QueueInv, ClearPQ
<1>3. \A a \in DOMAIN pq : /\ cut[a] \in Entry
                           /\ cut[a].gain = Gain(cut[a].tc)
                           /\ cut[a].tc \in Models(clauses)
  <2>. SUFFICES ASSUME NEW a \in DOMAIN pq
                PROVE  /\ cut[a] \in Entry
                       /\ cut[a].gain = Gain(cut[a].tc)
                       /\ cut[a].tc \in Models(clauses)
    OBVIOUS
  <2>1. pq[a] \in Entry
    BY <1>2
  <2>2. cut[a] = [tc |-> pq[a].tc, gain |-> pq[a].gain \ selected_bitset]
    BY <2>1 DEF Entry
  <2>. QED BY <1>2, <2>1, <2>2 DEF Entry
<1>4. /\ s \in Seq(Entry)
      /\ \A a \in DOMAIN s : s[a].gain = Gain(s[a].tc) /\ s[a].tc \in Models(clauses)
      /\ \A a, b \in DOMAIN s :
           a < b => Cardinality(s[a].gain) >= Cardinality(s[b].gain)
  <2>. HIDE DEF cut
  <2>1. DOMAIN s = 1 .. Len(pq) /\ Len(pq) \in Nat /\ DOMAIN s = DOMAIN pq
    BY <1>2
  <2>2. \A a \in DOMAIN s : /\ s[a] \in Entry /\ s[a].gain = Gain(s[a].tc)
                             /\ s[a].tc \in Models(clauses)
    BY <1>3
  <2>3. \A a, b \in DOMAIN s :
          a < b => Cardinality(s[a].gain) >= Cardinality(s[b].gain)
    BY <1>1
  <2>. QED BY <2>1, <2>2, <2>3
<1>. HIDE DEF s
<1>5. KeptSize(s) \in 0 .. Len(s) /\ KeptSize(s) <= CandidateSetSize
  BY <1>4, KeptSizeBound
<1>6. /\ pq' \in Seq(Entry)
      /\ Len(pq') <= CandidateSetSize
      /\ \A a \in DOMAIN pq' : /\ pq'[a].gain = Gain(pq'[a].tc)
                               /\ pq'[a].gain # {}
                               /\ pq'[a].tc \in Models(clauses)
  <2>1. pq' = SubSeq(s, 1, KeptSize(s))
    BY <1>1 DEF s
  <2>2. \A a \in 1 .. KeptSize(s) : /\ s[a] \in Entry /\ s[a].gain = Gain(s[a].tc)
                                    /\ s[a].tc \in Models(clauses)
    BY <1>4, <1>5
  <2>3. \A a \in 1 .. KeptSize(s) : s[a].gain # {}
    BY <1>4, KeptUseful
  <2>4. /\ pq' \in Seq(Entry)
        /\ Len(pq') = KeptSize(s)
        /\ DOMAIN pq' = 1 .. KeptSize(s)
        /\ \A a \in 1 .. KeptSize(s) : pq'[a] = s[a]
    BY <2>1, <2>2, <1>4, <1>5, SubSeqProperties, SMTT(30)
  <2>. QED BY <1>5, <2>2, <2>3, <2>4
<1>7. TypeOK'
  BY <1>2, <1>6 DEF TypeOK, ClearPQ
<1>8. RowsValid' /\ RowsInv' /\ FreshInv'
  BY <1>2 DEF SInv, RowsValid, RowsInv, FreshInv, Uncounted, ClearPQ
<1>9. QueueInv'
  <2>1. already_t_wise' = already_t_wise /\ pc' = "weight" /\ clauses' = clauses
    BY DEF ClearPQ
  <2>. QED BY <1>6, <2>1 DEF QueueInv, Gain
<1>. QED BY <1>7, <1>8, <1>9 DEF SInv

LEMMA UpdateSampleWeightSInv ==
  ASSUME SInv, UpdateSampleWeight
  PROVE  SInv'
<1>. USE DEF UpdateSampleWeight, inputVars, countVars, queueVars
<1>1. TypeOK'
  <2>1. num_generated \in DOMAIN testcase_set
    BY DEF SInv, TypeOK, RowsValid, RowsInv
  <2>2. \A v \in Var : testcase_set[num_generated][v] \in Nat
    <3>1. testcase_set[num_generated] \in TestCase
      BY <2>1 DEF SInv, TypeOK
    <3>. QED BY <3>1 DEF TestCase, Bit
  <2>3. positive_appearance' \in [Var -> Nat]
    BY <2>2, SMTT(30) DEF SInv, TypeOK
  <2>. QED BY <2>3 DEF SInv, TypeOK
<1>2. RowsValid' /\ RowsInv' /\ FreshInv'
  BY DEF SInv, RowsValid, RowsInv, FreshInv, Uncounted
<1>3. QueueInv'
  BY DEF SInv, QueueInv, Gain
<1>. QED BY <1>1, <1>2, <1>3 DEF SInv

\* The queue with the fresh candidates: every gain is exact, and the entry
\* taken is one of the best.
LEMMA DrawnExact ==
  ASSUME SInv, GenerateTestcase
  PROVE  /\ pq' \in Seq(Entry)
         /\ \A a \in DOMAIN pq' :
              pq'[a].gain = Gain(pq'[a].tc) /\ pq'[a].tc \in Models(clauses)
         /\ \E s \in DOMAIN pq' :
              /\ BestEntry(pq', s)
              /\ selected_bitset' = pq'[s].gain
              /\ IF pq'[s].gain = {}
                 THEN /\ pc' = "clear_final"
                      /\ UNCHANGED <<testcase_set, num_generated>>
                 ELSE /\ pc' = "update"
                      /\ testcase_set' = Append(testcase_set, pq'[s].tc)
                      /\ num_generated' = num_generated + 1
<1>. DEFINE fresh(candidates) ==
              [a \in 1 .. CandidateSetSize |->
                 [tc |-> candidates[a], gain |-> Gain(candidates[a])]]
            q(candidates) == pq \o fresh(candidates)
<1>1. PICK candidates \in [1 .. CandidateSetSize -> Models(clauses)] :
        \E s \in DOMAIN q(candidates) :
          /\ BestEntry(q(candidates), s)
          /\ pq' = q(candidates)
          /\ selected_bitset' = q(candidates)[s].gain
          /\ IF q(candidates)[s].gain = {}
             THEN /\ pc' = "clear_final"
                  /\ UNCHANGED <<testcase_set, num_generated>>
             ELSE /\ pc' = "update"
                  /\ testcase_set' = Append(testcase_set, q(candidates)[s].tc)
                  /\ num_generated' = num_generated + 1
  BY DEF GenerateTestcase
<1>2. pq' = q(candidates)
  BY <1>1
<1>3. /\ TypeOK
      /\ \A a \in DOMAIN pq : pq[a].gain = Gain(pq[a].tc) /\ pq[a].tc \in Models(clauses)
  BY DEF SInv, QueueInv, GenerateTestcase
<1>4. CandidateSetSize \in Nat
  BY SamplingAssumption
<1>5. /\ fresh(candidates) \in Seq(Entry)
      /\ \A a \in DOMAIN fresh(candidates) :
           /\ fresh(candidates)[a].gain = Gain(fresh(candidates)[a].tc)
           /\ fresh(candidates)[a].tc \in Models(clauses)
  <2>1. ASSUME NEW tc \in Models(clauses)
        PROVE  [tc |-> tc, gain |-> Gain(tc)] \in Entry
    BY TuplesInTuple DEF Entry, Models, Gain
  <2>. QED BY <1>4, <2>1
<1>6. /\ q(candidates) \in Seq(Entry)
      /\ \A a \in DOMAIN q(candidates) :
           /\ q(candidates)[a].gain = Gain(q(candidates)[a].tc)
           /\ q(candidates)[a].tc \in Models(clauses)
  <2>1. pq \in Seq(Entry)
    BY <1>3 DEF TypeOK
  <2>2. q(candidates) \in Seq(Entry)
    BY <1>5, <2>1, ConcatProperties
  <2>3. ASSUME NEW a \in DOMAIN q(candidates)
        PROVE  \/ a \in DOMAIN pq /\ q(candidates)[a] = pq[a]
               \/ \E b \in DOMAIN fresh(candidates) :
                     q(candidates)[a] = fresh(candidates)[b]
    <3>. HIDE DEF fresh
    <3>1. a \in 1 .. Len(pq) + Len(fresh(candidates))
      BY <1>5, <2>1, ConcatProperties
    <3>2. q(candidates)[a] = IF a <= Len(pq) THEN pq[a] ELSE fresh(candidates)[a - Len(pq)]
      BY <1>5, <2>1, <3>1, ConcatProperties
    <3>3. Len(pq) \in Nat /\ DOMAIN pq = 1 .. Len(pq)
      BY <2>1
    <3>4. /\ Len(fresh(candidates)) \in Nat
          /\ DOMAIN fresh(candidates) = 1 .. Len(fresh(candidates))
      BY <1>5
    <3>. QED BY <3>1, <3>2, <3>3, <3>4
  <2>. HIDE DEF q
  <2>. QED BY <1>3, <1>5, <2>2, <2>3
<1>. HIDE DEF q
<1>. QED BY <1>1, <1>2, <1>6

LEMMA GenerateTestcaseSInv ==
  ASSUME SInv, GenerateTestcase
  PROVE  SInv'
<1>1. UNCHANGED <<clauses, upperlimit, already_t_wise, num_tuple, positive_uncovered,
                  negative_uncovered, positive_appearance>>
  BY DEF GenerateTestcase, inputVars, countVars
<1>2. /\ TypeOK /\ RowsValid /\ pc = "generate" /\ num_generated \in Nat \ {0}
      /\ already_t_wise = CoveredUpTo(testcase_set, num_generated)
  BY DEF SInv, TypeOK, RowsInv, Uncounted, GenerateTestcase
<1>3. PICK s \in DOMAIN pq' :
        /\ selected_bitset' = pq'[s].gain
        /\ IF pq'[s].gain = {}
           THEN /\ pc' = "clear_final"
                /\ UNCHANGED <<testcase_set, num_generated>>
           ELSE /\ pc' = "update"
                /\ testcase_set' = Append(testcase_set, pq'[s].tc)
                /\ num_generated' = num_generated + 1
  BY DrawnExact
<1>. DEFINE e == pq'[s]
<1>4. e \in Entry /\ e.tc \in Models(clauses) /\ e.tc \in TestCase
  BY DrawnExact DEF Models
<1>5. e.gain = TuplesOf(e.tc) \ already_t_wise
  BY DrawnExact DEF Gain
<1>6. pq' \in Seq(Entry) /\ selected_bitset' \in SUBSET Tuple
  BY <1>3, <1>4, DrawnExact DEF Entry
<1>7. \A a \in DOMAIN pq' : /\ pq'[a].gain = TuplesOf(pq'[a].tc) \ already_t_wise
                            /\ pq'[a].tc \in Models(clauses)
  BY DrawnExact DEF Gain
<1>8. CASE e.gain = {}
  <2>1. UNCHANGED <<testcase_set, num_generated>> /\ pc' = "clear_final"
    BY <1>3, <1>8
  <2>2. TypeOK'
    BY <1>1, <1>2, <1>6, <2>1 DEF TypeOK
  <2>3. RowsValid' /\ RowsInv' /\ FreshInv'
    BY <1>1, <1>2, <2>1 DEF SInv, RowsValid, RowsInv, FreshInv, Uncounted
  <2>4. QueueInv'
    BY <1>1, <1>2, <1>7, <2>1 DEF QueueInv
  <2>. QED BY <2>2, <2>3, <2>4 DEF SInv
<1>9. CASE e.gain # {}
  <2>1. /\ testcase_set' = Append(testcase_set, e.tc)
        /\ num_generated' = num_generated + 1
        /\ pc' = "update"
        /\ selected_bitset' = e.gain
    BY <1>3, <1>9
  <2>2. /\ num_generated = Len(testcase_set)
        /\ testcase_set \in Seq(TestCase)
    BY <1>2 DEF RowsValid, TypeOK
  <2>3. /\ testcase_set' \in Seq(TestCase)
        /\ Len(testcase_set') = num_generated + 1
        /\ DOMAIN testcase_set' = 1 .. num_generated + 1
        /\ \A k \in 1 .. num_generated : testcase_set'[k] = testcase_set[k]
        /\ testcase_set'[num_generated + 1] = e.tc
    BY <1>4, <2>1, <2>2, AppendProperties
  <2>4. TypeOK'
    BY <1>1, <1>2, <1>6, <2>1, <2>3 DEF TypeOK
  <2>5. RowsValid'
    BY <1>1, <1>2, <1>4, <2>1, <2>2, <2>3 DEF RowsValid
  <2>6. \A n \in 0 .. num_generated :
          CoveredUpTo(testcase_set', n) = CoveredUpTo(testcase_set, n)
    BY <1>4, <2>1, <2>2, CoveredUpToAppend
  <2>7. RowsInv'
    <3>1. num_generated \in Nat /\ (num_generated + 1) - 1 = num_generated
      BY <1>2
    <3>2. already_t_wise' = CoveredUpTo(testcase_set', num_generated' - 1)
      BY <1>1, <1>2, <2>1, <2>6, <3>1
    <3>. QED BY <1>1, <1>2, <2>1, <3>2 DEF SInv, RowsInv, Uncounted
  <2>8. FreshInv'
    <3>. SUFFICES ASSUME NEW k \in 1 .. num_generated + 1
                  PROVE  ~(TuplesOf(testcase_set'[k]) \subseteq CoveredUpTo(testcase_set', k - 1))
      BY <2>3 DEF FreshInv
    <3>1. k - 1 \in 0 .. num_generated
      BY <1>2
    <3>2. CoveredUpTo(testcase_set', k - 1) = CoveredUpTo(testcase_set, k - 1)
      BY <2>6, <3>1
    <3>3. CASE k = num_generated + 1
      <4>1. CoveredUpTo(testcase_set, k - 1) = already_t_wise
        BY <1>2, <3>3
      <4>. QED BY <1>5, <1>9, <2>3, <3>2, <3>3, <4>1
    <3>4. CASE k \in 1 .. num_generated
      BY <2>2, <2>3, <3>2, <3>4 DEF SInv, FreshInv
    <3>. QED BY <1>2, <3>3, <3>4
  <2>9. QueueInv'
    <3>1. ~(num_generated' <= 1)
      BY <1>2, <2>1
    <3>2. selected_bitset' = TuplesOf(testcase_set'[num_generated']) \ already_t_wise
      BY <1>5, <2>1, <2>3
    <3>. QED BY <1>1, <1>7, <2>1, <3>1, <3>2 DEF QueueInv, Gain
  <2>. QED BY <2>4, <2>5, <2>7, <2>8, <2>9 DEF SInv
<1>. QED BY <1>8, <1>9

-----------------------------------------------------------------------------
(* The counters of single options *)

\* The tuples with v = b that are still missing.
Missing(v, b) == {t \in Tuple \ already_t_wise : Mentions(t, v, b)}

LEMMA MissingFinite ==
  ASSUME NEW v, NEW b
  PROVE  IsFiniteSet(Missing(v, b)) /\ Cardinality(Missing(v, b)) \in Nat
<1>1. Missing(v, b) \subseteq Tuple
  BY DEF Missing
<1>. QED BY <1>1, TupleFinite, FS_Subset, FS_CardinalityType

\* Each value of each option is in two tuples for every other option: what
\* Init2TupleInfo starts the counters with.
LEMMA MentionCount ==
  ASSUME NEW v \in Var, NEW b \in Bit
  PROVE  Cardinality({t \in Tuple : Mentions(t, v, b)}) = 2 * (NumVar - 1)
<1>. DEFINE M == {t \in Tuple : Mentions(t, v, b)}
            P == (Var \ {v}) \X Bit
            f == [p \in P |-> IF p[1] < v THEN <<p[1], p[2], v, b>> ELSE <<v, b, p[1], p[2]>>]
<1>1. v \in Int /\ \A p \in P : p[1] \in Var /\ p[1] \in Int /\ p[2] \in Bit /\ p[1] # v
  BY DEF Var
<1>2. \A p \in P : f[p] \in M
  <2>. SUFFICES ASSUME NEW p \in P PROVE f[p] \in M
    OBVIOUS
  <2>1. CASE p[1] < v
    BY <1>1, <2>1 DEF Tuple, Mentions
  <2>2. CASE ~(p[1] < v)
    BY <1>1, <2>2 DEF Tuple, Mentions
  <2>. QED BY <2>1, <2>2
<1>3. f \in [P -> M]
  BY <1>2
<1>4. \A p, q \in P : f[p] = f[q] => p = q
  <2>. SUFFICES ASSUME NEW p \in P, NEW q \in P, f[p] = f[q] PROVE p = q
    OBVIOUS
  <2>1. p = <<p[1], p[2]>> /\ q = <<q[1], q[2]>>
    OBVIOUS
  <2>2. p[1] = q[1] /\ p[2] = q[2]
    BY <1>1
  <2>. QED BY <2>1, <2>2
<1>5. \A t \in M : \E p \in P : f[p] = t
  <2>. SUFFICES ASSUME NEW t \in M PROVE \E p \in P : f[p] = t
    OBVIOUS
  <2>1. /\ t = <<t[1], t[2], t[3], t[4]>> /\ t[1] < t[3]
        /\ t[1] \in Var /\ t[2] \in Bit /\ t[3] \in Var /\ t[4] \in Bit
    BY DEF Tuple
  <2>2. t[1] \in Int /\ t[3] \in Int
    BY <2>1 DEF Var
  <2>3. CASE t[1] = v /\ t[2] = b
    <3>1. <<t[3], t[4]>> \in P /\ ~(t[3] < v)
      BY <2>1, <2>2, <2>3
    <3>. QED BY <2>1, <2>3, <3>1
  <2>4. CASE t[3] = v /\ t[4] = b
    <3>1. <<t[1], t[2]>> \in P /\ t[1] < v
      BY <2>1, <2>2, <2>4
    <3>. QED BY <2>1, <2>4, <3>1
  <2>. QED BY <2>3, <2>4 DEF Mentions
<1>6. IsFiniteSet(P) /\ Cardinality(P) = 2 * (NumVar - 1)
  <2>1. IsFiniteSet(Var \ {v}) /\ Cardinality(Var \ {v}) = NumVar - 1
    BY VarCount, FS_RemoveElement
  <2>2. IsFiniteSet(P) /\ Cardinality(P) = Cardinality(Var \ {v}) * Cardinality(Bit)
    BY <2>1, BitCount, FS_Product
  <2>3. NumVar - 1 \in Int
    BY NumVarAssumption
  <2>. QED BY <2>1, <2>2, <2>3, BitCount
<1>. HIDE DEF f, P, M
<1>7. Cardinality(M) = Cardinality(P)
  BY <1>3, <1>4, <1>5, <1>6, BijectionCount
<1>. QED BY <1>6, <1>7 DEF M

\* What Update2TupleInfo does to the counters of one option: those of the
\* value the row has fall by the tuples newly covered, the others stay.
LEMMA CountersStep ==
  ASSUME TypeOK, CountersExact, NEW tc \in TestCase, Update2TupleInfo(tc)
  PROVE  CountersExact'
<1>. DEFINE fresh == TuplesOf(tc) \ already_t_wise
            touched(v) == Cardinality({t \in fresh : t[1] = v \/ t[3] = v})
<1>1. /\ positive_uncovered' = [v \in Var |-> positive_uncovered[v]
                                  - (IF tc[v] = 1 THEN touched(v) ELSE 0)]
      /\ negative_uncovered' = [v \in Var |-> negative_uncovered[v]
                                  - (IF tc[v] = 1 THEN 0 ELSE touched(v))]
      /\ already_t_wise' = already_t_wise \cup fresh
  BY DEF Update2TupleInfo
<1>2. ASSUME NEW v \in Var, NEW b \in Bit
      PROVE  Cardinality(Missing(v, b)') = Cardinality(Missing(v, b))
                                             - (IF tc[v] = b THEN touched(v) ELSE 0)
  <2>. DEFINE T == {t \in fresh : Mentions(t, v, b)}
  <2>1. T \subseteq Missing(v, b) /\ Missing(v, b)' = Missing(v, b) \ T
    BY <1>1 DEF Missing, TuplesOf
  <2>2. tc[v] = b => T = {t \in fresh : t[1] = v \/ t[3] = v}
    BY DEF Mentions, TuplesOf, Covers
  <2>3. tc[v] # b => T = {}
    BY DEF Mentions, TuplesOf, Covers
  <2>4. Missing(v, b) \cap T = T
    BY <2>1
  <2>5. Cardinality(Missing(v, b) \ T) = Cardinality(Missing(v, b)) - Cardinality(T)
    BY <2>4, MissingFinite, FS_Difference, ZenonT(40)
  <2>6. tc[v] # b => Cardinality(T) = 0
    BY <2>3, FS_EmptySet
  <2>7. Cardinality(Missing(v, b)) \in Nat
    BY MissingFinite
  <2>. HIDE DEF T, fresh
  <2>8. CASE tc[v] = b
    BY <2>1, <2>2, <2>5, <2>8
  <2>9. CASE tc[v] # b
    BY <2>1, <2>5, <2>6, <2>7, <2>9
  <2>. QED BY <2>8, <2>9
<1>. HIDE DEF touched
<1>3. \A v \in Var : tc[v] = 0 \/ tc[v] = 1
  BY DEF TestCase, Bit
<1>4. ASSUME NEW v \in Var
      PROVE  /\ positive_uncovered'[v] = Cardinality(Missing(v, 1)')
             /\ negative_uncovered'[v] = Cardinality(Missing(v, 0)')
  <2>1. /\ positive_uncovered[v] = Cardinality(Missing(v, 1))
        /\ negative_uncovered[v] = Cardinality(Missing(v, 0))
    BY DEF CountersExact, Missing
  <2>2. 0 \in Bit /\ 1 \in Bit
    BY DEF Bit
  <2>3. Cardinality(Missing(v, 1)') = positive_uncovered'[v]
    BY <1>1, <1>2, <2>1, <2>2
  <2>4. Cardinality(Missing(v, 0)') = negative_uncovered'[v]
    BY <1>1, <1>2, <1>3, <2>1, <2>2
  <2>. QED BY <2>3, <2>4
<1>. QED BY <1>4 DEF CountersExact, Missing

LEMMA CountersInit == SInit => CountersExact
<1>. SUFFICES ASSUME SInit, NEW v \in Var
              PROVE  /\ positive_uncovered[v] = Cardinality(Missing(v, 1))
                     /\ negative_uncovered[v] = Cardinality(Missing(v, 0))
  BY DEF CountersExact, Missing
<1>1. \A b : Missing(v, b) = {t \in Tuple : Mentions(t, v, b)}
  BY DEF SInit, Missing
<1>2. 0 \in Bit /\ 1 \in Bit
  BY DEF Bit
<1>. QED BY <1>1, <1>2, MentionCount DEF SInit

LEMMA CountersNext == SInv /\ CountersExact /\ [SNext]_sampleVars => CountersExact'
<1>. SUFFICES ASSUME SInv, CountersExact, [SNext]_sampleVars PROVE CountersExact'
  OBVIOUS
<1>1. CASE CountTestcase
  <2>1. TypeOK /\ num_generated \in DOMAIN testcase_set
    BY <1>1 DEF CountTestcase, SInv, TypeOK, RowsValid, RowsInv
  <2>2. testcase_set[num_generated] \in TestCase
    BY <2>1 DEF TypeOK
  <2>. QED BY <1>1, <2>1, <2>2, CountersStep DEF CountTestcase
<1>2. CASE ~CountTestcase
  <2>1. UNCHANGED countVars
    BY <1>2 DEF SNext, sampleVars, GenerateInitTestcaseCDCL, ClearPQ, UpdateSampleWeight,
                GenerateTestcase
  <2>. QED BY <2>1, SMTT(30) DEF countVars, CountersExact
<1>. QED BY <1>1, <1>2

-----------------------------------------------------------------------------
(* The sampling probabilities and the end of the phase *)

\* The rows among the first n with v = 1.
OnesUpTo(v, n) == {k \in 1 .. n : testcase_set[k][v] = 1}

\* The appearance counts lag one row behind from the moment a row is added
\* until UpdateSampleWeightByAppearance.
AppearanceInv ==
  /\ pc = "init" => \A v \in Var : positive_appearance[v] = 0
  /\ pc \in {"update", "clear_pq", "weight"} =>
       \A v \in Var : positive_appearance[v] = Cardinality(OnesUpTo(v, num_generated - 1))
  /\ pc = "generate" =>
       \A v \in Var : positive_appearance[v] = Cardinality(OnesUpTo(v, num_generated))

LEMMA OnesFinite ==
  ASSUME NEW v, NEW n \in Nat
  PROVE  IsFiniteSet(OnesUpTo(v, n)) /\ Cardinality(OnesUpTo(v, n)) \in Nat
<1>1. OnesUpTo(v, n) \subseteq 1 .. n
  BY DEF OnesUpTo
<1>2. IsFiniteSet(1 .. n)
  BY FS_Interval, 1 \in Int, n \in Int
<1>. QED BY <1>1, <1>2, FS_Subset, FS_CardinalityType

LEMMA OnesNext ==
  ASSUME NEW v, NEW n \in Nat, testcase_set[n + 1][v] \in Bit
  PROVE  Cardinality(OnesUpTo(v, n + 1)) = Cardinality(OnesUpTo(v, n)) + testcase_set[n + 1][v]
<1>1. n + 1 \notin OnesUpTo(v, n) /\ 1 .. n + 1 = (1 .. n) \cup {n + 1}
  BY DEF OnesUpTo
<1>2. CASE testcase_set[n + 1][v] = 1
  <2>1. OnesUpTo(v, n + 1) = OnesUpTo(v, n) \cup {n + 1}
    BY <1>1, <1>2 DEF OnesUpTo
  <2>. QED BY <1>1, <1>2, <2>1, OnesFinite, FS_AddElement
<1>3. CASE testcase_set[n + 1][v] = 0
  <2>1. OnesUpTo(v, n + 1) = OnesUpTo(v, n)
    BY <1>1, <1>3 DEF OnesUpTo
  <2>. QED BY <1>3, <2>1, OnesFinite
<1>. QED BY <1>2, <1>3 DEF Bit

LEMMA AppearanceInit == SInit => AppearanceInv
BY DEF SInit, AppearanceInv

LEMMA AppearanceNext == SInv /\ AppearanceInv /\ [SNext]_sampleVars => AppearanceInv'
<1>. SUFFICES ASSUME SInv, AppearanceInv, [SNext]_sampleVars PROVE AppearanceInv'
  OBVIOUS
<1>1. /\ testcase_set \in Seq(TestCase) /\ num_generated = Len(testcase_set)
      /\ num_generated \in Nat /\ (pc = "init" <=> num_generated = 0)
  BY DEF SInv, TypeOK, RowsValid, RowsInv
<1>2. CASE GenerateInitTestcaseCDCL
  <2>1. num_generated' = 1 /\ pc' = "update" /\ UNCHANGED positive_appearance /\ pc = "init"
    BY <1>2 DEF GenerateInitTestcaseCDCL
  <2>2. \A v \in Var : OnesUpTo(v, 0)' = {}
    BY DEF OnesUpTo
  <2>3. \A v \in Var : Cardinality(OnesUpTo(v, num_generated - 1)') = 0
    BY <2>1, <2>2, FS_EmptySet DEF OnesUpTo
  <2>. QED BY <2>1, <2>3 DEF AppearanceInv
<1>3. CASE CountTestcase \/ ClearPQ
  <2>1. /\ UNCHANGED <<positive_appearance, testcase_set, num_generated>>
        /\ pc \in {"update", "clear_pq"} /\ pc' \in {"clear_final", "clear_pq", "weight"}
    BY <1>3 DEF CountTestcase, ClearPQ, queueVars
  <2>. QED BY <2>1 DEF AppearanceInv, OnesUpTo
<1>4. CASE UpdateSampleWeight
  <2>. DEFINE m == num_generated - 1
  <2>1. /\ pc = "weight" /\ pc' = "generate" /\ UNCHANGED <<testcase_set, num_generated>>
        /\ positive_appearance' =
             [v \in Var |-> positive_appearance[v] + testcase_set[num_generated][v]]
    BY <1>4 DEF UpdateSampleWeight
  <2>2. m \in Nat /\ m + 1 = num_generated /\ num_generated \in DOMAIN testcase_set
    BY <1>1, <2>1
  <2>3. \A v \in Var : testcase_set[num_generated][v] \in Bit
    BY <1>1, <2>2 DEF TestCase
  <2>4. \A v \in Var : Cardinality(OnesUpTo(v, num_generated))
                         = Cardinality(OnesUpTo(v, m)) + testcase_set[num_generated][v]
    BY <2>2, <2>3, OnesNext
  <2>5. \A v \in Var : positive_appearance'[v] = Cardinality(OnesUpTo(v, num_generated))
    BY <2>1, <2>4 DEF AppearanceInv
  <2>. QED BY <2>1, <2>5 DEF AppearanceInv, OnesUpTo
<1>5. CASE GenerateTestcase
  <2>1. pc = "generate" /\ UNCHANGED positive_appearance
    BY <1>5 DEF GenerateTestcase
  <2>2. \/ pc' = "clear_final"
        \/ /\ pc' = "update" /\ num_generated' = num_generated + 1
           /\ \E tc : testcase_set' = Append(testcase_set, tc)
    BY <1>5 DEF GenerateTestcase
  <2>3. CASE pc' = "clear_final"
    BY <2>3 DEF AppearanceInv
  <2>4. CASE /\ pc' = "update" /\ num_generated' = num_generated + 1
             /\ \E tc : testcase_set' = Append(testcase_set, tc)
    <3>1. \A k \in 1 .. num_generated : testcase_set'[k] = testcase_set[k]
      BY <1>1, <2>4
    <3>2. num_generated' - 1 = num_generated
      BY <1>1, <2>4
    <3>3. \A v \in Var : OnesUpTo(v, num_generated - 1)' = OnesUpTo(v, num_generated)
      BY <3>1, <3>2 DEF OnesUpTo
    <3>. QED BY <2>1, <2>4, <3>3 DEF AppearanceInv
  <2>. QED BY <2>2, <2>3, <2>4
<1>6. CASE UNCHANGED sampleVars
  BY <1>6 DEF sampleVars, AppearanceInv, OnesUpTo
<1>. QED BY <1>2, <1>3, <1>4, <1>5, <1>6 DEF SNext

\* When the best of all remembered candidates has no gain, none has any.
LEMMA BestIsUseless ==
  ASSUME NEW q \in Seq(Entry), NEW s \in DOMAIN q, BestEntry(q, s), q[s].gain = {},
         NEW a \in DOMAIN q
  PROVE  q[a].gain = {}
<1>1. q[a] \in Entry
  OBVIOUS
<1>2. q[a].gain \in SUBSET Tuple
  BY <1>1 DEF Entry
<1>3. IsFiniteSet(q[a].gain) /\ Cardinality(q[a].gain) \in Nat
  BY <1>2, TupleFinite, FS_Subset, FS_CardinalityType
<1>4. Cardinality(q[s].gain) = 0
  BY FS_EmptySet
<1>5. Cardinality(q[a].gain) <= 0
  BY <1>4 DEF BestEntry
<1>. QED BY <1>3, <1>5, FS_EmptySet

LEMMA ExhaustedInit == SInit => EndsExhausted
BY DEF SInit, EndsExhausted

LEMMA ExhaustedNext == SInv /\ EndsExhausted /\ [SNext]_sampleVars => EndsExhausted'
<1>. SUFFICES ASSUME SInv, EndsExhausted, [SNext]_sampleVars PROVE EndsExhausted'
  OBVIOUS
<1>1. CASE CountTestcase
  BY <1>1 DEF CountTestcase, inputVars, EndsExhausted
<1>2. CASE GenerateTestcase
  <2>. SUFFICES ASSUME pc' = "clear_final", NEW a \in DOMAIN pq'
                PROVE  TuplesOf(pq'[a].tc) \subseteq already_t_wise'
    BY DEF EndsExhausted
  <2>1. already_t_wise' = already_t_wise
    BY <1>2 DEF GenerateTestcase, countVars
  <2>2. PICK s \in DOMAIN pq' : BestEntry(pq', s) /\ pq'[s].gain = {}
    BY <1>2, DrawnExact
  <2>3. pq' \in Seq(Entry)
    BY <1>2, DrawnExact
  <2>4. pq'[a].gain = {}
    BY <2>2, <2>3, BestIsUseless
  <2>5. pq'[a].gain = TuplesOf(pq'[a].tc) \ already_t_wise'
    BY <1>2, <2>1, DrawnExact DEF Gain
  <2>. QED BY <2>4, <2>5
<1>3. CASE UNCHANGED sampleVars
  BY <1>3 DEF sampleVars, inputVars, countVars, queueVars, EndsExhausted
<1>4. CASE GenerateInitTestcaseCDCL \/ ClearPQ \/ UpdateSampleWeight
  BY <1>4 DEF GenerateInitTestcaseCDCL, ClearPQ, UpdateSampleWeight, EndsExhausted
<1>. QED BY <1>1, <1>2, <1>3, <1>4 DEF SNext

-----------------------------------------------------------------------------
(* The theorems *)

\* Every step of the sampling phase keeps the invariant.
LEMMA SInvNext ==
  ASSUME SInv, [SNext]_sampleVars
  PROVE  SInv'
<1>1. CASE GenerateInitTestcaseCDCL
  BY <1>1, InitTestcaseSInv
<1>2. CASE CountTestcase
  BY <1>2, CountTestcaseSInv
<1>3. CASE ClearPQ
  BY <1>3, ClearPQSInv
<1>4. CASE UpdateSampleWeight
  BY <1>4, UpdateSampleWeightSInv
<1>5. CASE GenerateTestcase
  BY <1>5, GenerateTestcaseSInv
<1>6. CASE UNCHANGED sampleVars
  BY <1>6 DEF sampleVars, inputVars, countVars, queueVars, SInv, TypeOK, RowsValid,
              RowsInv, FreshInv, QueueInv, Uncounted, Gain
<1>. QED BY <1>1, <1>2, <1>3, <1>4, <1>5, <1>6 DEF SNext

\* The invariant says what the runs check, in the words of the specification.
LEMMA SInvImplies ==
  ASSUME SInv
  PROVE  TypeOK /\ RowsValid /\ CoverageExact /\ QueueFresh /\ RowsContribute
<1>. USE DEF SInv
<1>1. /\ testcase_set \in Seq(TestCase) /\ num_generated \in Nat
      /\ num_generated = Len(testcase_set)
  BY DEF TypeOK, RowsValid
<1>2. CoverageExact
  <2>. DEFINE n == IF Uncounted THEN num_generated - 1 ELSE num_generated
  <2>1. n \in 0 .. Len(testcase_set)
    BY <1>1 DEF RowsInv, Uncounted
  <2>2. CoveredBy(SubSeq(testcase_set, 1, n)) = CoveredUpTo(testcase_set, n)
    BY <1>1, <2>1, CoveredBySubSeq
  <2>. QED BY <2>2 DEF CoverageExact, Counted, RowsInv
<1>3. QueueFresh
  BY DEF QueueInv, QueueFresh
<1>4. RowsContribute
  <2>. SUFFICES ASSUME NEW k \in DOMAIN testcase_set
                PROVE  ~(TuplesOf(testcase_set[k])
                           \subseteq CoveredBy(SubSeq(testcase_set, 1, k - 1)))
    BY DEF RowsContribute
  <2>1. k - 1 \in 0 .. Len(testcase_set)
    BY <1>1
  <2>2. CoveredBy(SubSeq(testcase_set, 1, k - 1)) = CoveredUpTo(testcase_set, k - 1)
    BY <1>1, <2>1, CoveredBySubSeq
  <2>. QED BY <2>2 DEF FreshInv
<1>. QED BY <1>2, <1>3, <1>4

\* Type correctness of the sampling phase: the counters never leave the
\* integers, the queue holds candidates with sets of tuples.
THEOREM SamplingTypeCorrect == SamplingSpec => []TypeOK
<1>1. SInv => TypeOK
  BY DEF SInv
<1>. QED BY <1>1, SInvInit, SInvNext, PTL DEF SamplingSpec

\* Every row is a valid configuration, and num_generated_testcase_ counts them.
THEOREM SamplingRowsValid == SamplingSpec => []RowsValid
<1>1. SInv => RowsValid
  BY SInvImplies
<1>. QED BY <1>1, SInvInit, SInvNext, PTL DEF SamplingSpec

\* No row of the phase is useless: each covers a tuple no earlier row covers.
THEOREM SamplingRowsContribute == SamplingSpec => []RowsContribute
<1>1. SInv => RowsContribute
  BY SInvImplies
<1>. QED BY <1>1, SInvInit, SInvNext, PTL DEF SamplingSpec

\* The bit set and num_tuple_ say exactly what the counted rows cover.
THEOREM SamplingCoverageExact == SamplingSpec => []CoverageExact
<1>1. SInv => CoverageExact
  BY SInvImplies
<1>. QED BY <1>1, SInvInit, SInvNext, PTL DEF SamplingSpec

\* The trimmed gains in the queue are the true gains, none is empty, and the
\* queue is no longer than CandidateSetSize, whenever candidates are drawn.
THEOREM SamplingQueueFresh == SamplingSpec => []QueueFresh
<1>1. SInv => QueueFresh
  BY SInvImplies
<1>. QED BY <1>1, SInvInit, SInvNext, PTL DEF SamplingSpec

\* The per-option counters are the numbers of missing tuples with v = 1 and
\* with v = 0, although they only follow the newly set bits of each row.
THEOREM SamplingCountersExact == SamplingSpec => []CountersExact
BY CountersInit, CountersNext, SInvInit, SInvNext, PTL DEF SamplingSpec

\* The pair the sampler is given for an option counts the rows with each
\* value: the counts are those of all rows whenever candidates are drawn.
THEOREM SamplingSampleCountsExact == SamplingSpec => []SampleCountsExact
<1>1. SInv /\ AppearanceInv => SampleCountsExact
  <2>. SUFFICES ASSUME SInv, AppearanceInv, pc = "generate", NEW v \in Var
                PROVE  positive_appearance[v]
                         = Cardinality({k \in DOMAIN testcase_set : testcase_set[k][v] = 1})
    BY DEF SampleCountsExact
  <2>1. DOMAIN testcase_set = 1 .. num_generated
    BY DEF SInv, TypeOK, RowsValid
  <2>. QED BY <2>1 DEF AppearanceInv, OnesUpTo
<1>. QED
  BY <1>1, AppearanceInit, AppearanceNext, SInvInit, SInvNext, PTL DEF SamplingSpec

\* Unless the limit was hit, the phase hands over only when no candidate it
\* still remembers would add a tuple.
THEOREM SamplingEndsExhausted == SamplingSpec => []EndsExhausted
BY ExhaustedInit, ExhaustedNext, SInvInit, SInvNext, PTL DEF SamplingSpec

-----------------------------------------------------------------------------
(* Literals, tuples and the backbone *)

\* The conversion of a tuple to literals and back loses nothing.
LEMMA TupleLitsInverse ==
  ASSUME NEW t \in Tuple
  PROVE  TupleLits(t) \in LitPair /\ LitsTuple(TupleLits(t)) = t
<1>1. /\ t[1] \in 0 .. NumVar - 1 /\ t[2] \in {0, 1}
      /\ t[3] \in 0 .. NumVar - 1 /\ t[4] \in {0, 1}
      /\ t = <<t[1], t[2], t[3], t[4]>>
  BY DEF Tuple, Var, Bit
<1>2. ASSUME NEW v \in 0 .. NumVar - 1, NEW b \in {0, 1}
      PROVE  /\ ToLit(v, b) \in Literal
             /\ LitVar(ToLit(v, b)) = v
             /\ (IF ToLit(v, b) < 0 THEN 0 ELSE 1) = b
  BY NumVarAssumption DEF ToLit, LitVar, Literal
<1>. QED BY <1>1, <1>2 DEF TupleLits, LitsTuple, LitPair

\* Assuming both literals of a tuple asks for a model that covers it.
LEMMA ModelsUnderTuple ==
  ASSUME NEW t \in Tuple
  PROVE  ModelsUnder({} \cup {ToLit(t[1], t[2]), ToLit(t[3], t[4])})
           = {tc \in Models(clauses) : Covers(tc, t)}
<1>1. /\ t[1] \in 0 .. NumVar - 1 /\ t[2] \in {0, 1}
      /\ t[3] \in 0 .. NumVar - 1 /\ t[4] \in {0, 1}
  BY DEF Tuple, Var, Bit
<1>2. ASSUME NEW tc, NEW v \in 0 .. NumVar - 1, NEW b \in {0, 1}
      PROVE  Holds(tc, ToLit(v, b)) <=> tc[v] = b
  BY NumVarAssumption DEF ToLit, Holds, LitVar, LitValue
<1>. QED BY <1>1, <1>2 DEF ModelsUnder, Covers

\* The last unit clause on v, if there is one, exists.
LEMMA LastUnitClause ==
  ASSUME NEW F \in Formula, NEW v \in Var, UnitClauses(F, v) # {}
  PROVE  \E c \in UnitClauses(F, v) : \A d \in UnitClauses(F, v) : d <= c
<1>. DEFINE U == UnitClauses(F, v)
            T == {Len(F) - c : c \in U}
<1>1. Len(F) \in Nat /\ U \subseteq 1 .. Len(F)
  BY DEF UnitClauses, Formula
<1>2. T \subseteq Nat /\ T # {}
  BY <1>1
<1>3. PICK m \in T : \A k \in T : m <= k
  BY <1>2, NatMinimum
<1>4. PICK c \in U : m = Len(F) - c
  OBVIOUS
<1>5. ASSUME NEW d \in U PROVE d <= c
  <2>1. Len(F) - d \in T
    OBVIOUS
  <2>2. m <= Len(F) - d
    BY <1>3, <2>1
  <2>3. c \in Int /\ d \in Int /\ m = Len(F) - c
    BY <1>1, <1>4
  <2>. QED BY <1>1, <2>2, <2>3
<1>. QED BY <1>5

\* The backbone entry of v is a value every valid configuration gives v.
LEMMA BackboneSound ==
  ASSUME NEW F \in Formula, NEW v \in Var, AsBackbone(F)[v] # -1,
         NEW tc \in Models(F)
  PROVE  tc[v] = AsBackbone(F)[v]
<1>. DEFINE U == UnitClauses(F, v)
            c == CHOOSE c \in U : \A d \in U : d <= c
<1>1. U # {} /\ AsBackbone(F)[v] = LitValue(F[c][1])
  BY DEF AsBackbone
<1>2. c \in U
  BY <1>1, LastUnitClause
<1>3. /\ c \in DOMAIN F /\ Len(F[c]) = 1 /\ LitVar(F[c][1]) = v
      /\ F[c] \in Seq(Literal)
  BY <1>2 DEF UnitClauses, Formula, Clause
<1>4. DOMAIN F[c] = {1}
  BY <1>3
<1>5. SatClause(tc, F[c])
  BY <1>3 DEF Models, Satisfies
<1>6. Holds(tc, F[c][1])
  BY <1>4, <1>5 DEF SatClause
<1>. QED BY <1>1, <1>3, <1>6 DEF Holds

-----------------------------------------------------------------------------
(* The order of the scan *)

\* A position of the loops: a tuple until the outermost loop is over.
ScanShape ==
  /\ scan[1] \in 0 .. NumVar - 1 /\ scan[2] \in Bit
  /\ scan[3] \in 1 .. NumVar     /\ scan[4] \in Bit
  /\ scan = <<scan[1], scan[2], scan[3], scan[4]>>
  /\ scan[1] < scan[3]
  /\ scan[1] < NumVar - 1 => scan \in Tuple

\* The parts of a tuple, and of a position, as numbers.
LEMMA TupleParts ==
  \A t \in Tuple : /\ t[1] \in 0 .. NumVar - 1 /\ t[2] \in {0, 1}
                   /\ t[3] \in 0 .. NumVar - 1 /\ t[4] \in {0, 1}
                   /\ t[1] < t[3]
                   /\ t = <<t[1], t[2], t[3], t[4]>>
BY DEF Tuple, Var, Bit

LEMMA ScanParts ==
  ASSUME ScanShape
  PROVE  /\ NumVar \in Nat
         /\ scan[1] \in 0 .. NumVar - 1 /\ scan[2] \in {0, 1}
         /\ scan[3] \in 1 .. NumVar     /\ scan[4] \in {0, 1}
         /\ scan[1] < scan[3]
         /\ scan = <<scan[1], scan[2], scan[3], scan[4]>>
         /\ scan[1] < NumVar - 1 => scan[3] <= NumVar - 1
BY NumVarAssumption, TupleParts DEF ScanShape, Bit

\* The next row, and what lies before it: the row skipped, which is new if
\* the scan stands at its start.
LEMMA NextRowOrder ==
  ASSUME ScanShape, scan[1] < NumVar - 1, scan' = NextRow
  PROVE  /\ ScanShape'
         /\ \A t \in Tuple : Before(t, scan') <=>
                               Before(t, scan) \/ t \in RowOf(scan[1], scan[2])
         /\ scan'[3] = scan'[1] + 1 /\ scan'[4] = 0
         /\ scan[3] = scan[1] + 1 /\ scan[4] = 0 =>
              \A t \in RowOf(scan[1], scan[2]) : ~Before(t, scan)
<1>. DEFINE i == scan[1]
<1>1. /\ NumVar \in Nat /\ i \in 0 .. NumVar - 2 /\ scan[2] \in {0, 1}
      /\ scan[3] \in 1 .. NumVar - 1 /\ scan[4] \in {0, 1} /\ i < scan[3]
      /\ scan = <<i, scan[2], scan[3], scan[4]>>
  BY ScanParts
<1>2. scan' = IF scan[2] = 0 THEN <<i, 1, i + 1, 0>> ELSE <<i + 1, 0, i + 2, 0>>
  BY DEF NextRow
<1>3. ScanShape'
  BY <1>1, <1>2 DEF ScanShape, Bit, Tuple, Var
<1>4. ASSUME NEW t \in Tuple
      PROVE  Before(t, scan') <=> Before(t, scan) \/ (t[1] = i /\ t[2] = scan[2])
  <2>1. /\ t[1] \in 0 .. NumVar - 1 /\ t[2] \in {0, 1}
        /\ t[3] \in 0 .. NumVar - 1 /\ t[4] \in {0, 1} /\ t[1] < t[3]
    BY TupleParts
  <2>2. CASE scan[2] = 0
    BY <1>1, <1>2, <2>1, <2>2 DEF Before
  <2>3. CASE scan[2] = 1
    BY <1>1, <1>2, <2>1, <2>3 DEF Before
  <2>. QED BY <1>1, <2>2, <2>3
<1>5. scan'[3] = scan'[1] + 1 /\ scan'[4] = 0
  BY <1>1, <1>2
<1>6. ASSUME scan[3] = i + 1, scan[4] = 0, NEW t \in RowOf(i, scan[2])
      PROVE  ~Before(t, scan)
  <2>1. /\ t[1] \in 0 .. NumVar - 1 /\ t[2] \in {0, 1}
        /\ t[3] \in 0 .. NumVar - 1 /\ t[4] \in {0, 1} /\ t[1] < t[3]
        /\ t[1] = i /\ t[2] = scan[2]
    BY TupleParts DEF RowOf
  <2>. QED BY <1>1, <1>6, <2>1 DEF Before
<1>. QED BY <1>3, <1>4, <1>5, <1>6 DEF RowOf

\* The next position: only the tuple the scan stood at has been passed, and
\* unless a row begins the scan stays in the row.
LEMMA NextTupleOrder ==
  ASSUME ScanShape, scan[1] < NumVar - 1, scan' = NextTuple
  PROVE  /\ ScanShape'
         /\ \A t \in Tuple : Before(t, scan') <=> Before(t, scan) \/ t = scan
         /\ ~Before(scan, scan)
         /\ \/ scan'[1] = scan[1] /\ scan'[2] = scan[2]
            \/ scan'[3] = scan'[1] + 1 /\ scan'[4] = 0
<1>1. /\ NumVar \in Nat /\ scan[1] \in 0 .. NumVar - 2 /\ scan[2] \in {0, 1}
      /\ scan[3] \in 1 .. NumVar - 1 /\ scan[4] \in {0, 1} /\ scan[1] < scan[3]
      /\ scan = <<scan[1], scan[2], scan[3], scan[4]>>
  BY ScanParts
<1>2. ~Before(scan, scan)
  BY <1>1 DEF Before
<1>3. CASE scan[4] = 0
  <2>1. scan' = <<scan[1], scan[2], scan[3], 1>>
    BY <1>1, <1>3 DEF NextTuple
  <2>2. ScanShape'
    BY <1>1, <2>1 DEF ScanShape, Bit, Tuple, Var
  <2>3. ASSUME NEW t \in Tuple
        PROVE  Before(t, scan') <=> Before(t, scan) \/ t = scan
    BY <1>1, <1>3, <2>1, TupleParts DEF Before
  <2>. QED BY <1>2, <2>1, <2>2, <2>3
<1>4. CASE scan[4] = 1 /\ scan[3] < NumVar - 1
  <2>1. scan' = <<scan[1], scan[2], scan[3] + 1, 0>>
    BY <1>1, <1>4 DEF NextTuple
  <2>2. ScanShape'
    BY <1>1, <1>4, <2>1 DEF ScanShape, Bit, Tuple, Var
  <2>3. ASSUME NEW t \in Tuple
        PROVE  Before(t, scan') <=> Before(t, scan) \/ t = scan
    BY <1>1, <1>4, <2>1, TupleParts DEF Before
  <2>. QED BY <1>2, <2>1, <2>2, <2>3
<1>5. CASE scan[4] = 1 /\ scan[3] = NumVar - 1
  <2>1. scan' = NextRow
    BY <1>1, <1>5 DEF NextTuple
  <2>2. ASSUME NEW t \in Tuple
        PROVE  Before(t, scan) \/ (t[1] = scan[1] /\ t[2] = scan[2])
                 <=> Before(t, scan) \/ t = scan
    BY <1>1, <1>5, TupleParts DEF Before
  <2>. QED BY <1>2, <2>1, <2>2, NextRowOrder DEF RowOf
<1>. QED BY <1>1, <1>3, <1>4, <1>5

-----------------------------------------------------------------------------
(* The invariant of the scan *)

\* SkipRow is only ever taken at the first tuple of a row, which is why it
\* may subtract the whole row.
RowBegins == scan[3] = scan[1] + 1 /\ scan[4] = 0

\* The tuples passed that are neither covered nor collected: what
\* num_tuple_all_exact_ is short of.
Passed == {t \in Tuple : Before(t, scan) /\ t \notin already_t_wise \cup Collected}

BeforeScan == {"init", "update", "clear_pq", "weight", "generate", "clear_final"}
InFinal    == {"scan", "choose", "solve", "settle", "modify", "filter", "done"}

\* The tuples collected, each once.
CollectedOnce ==
  /\ uncovered_tuples \in Seq(LitPair)
  /\ \A k \in DOMAIN uncovered_tuples : LitsTuple(uncovered_tuples[k]) \in Tuple
  /\ \A k, m \in DOMAIN uncovered_tuples :
       LitsTuple(uncovered_tuples[k]) = LitsTuple(uncovered_tuples[m]) => k = m

\* The position of the loops, and what the scan has found so far.
ScanInv ==
  /\ pc \in BeforeScan \cup InFinal
  /\ ScanShape
  /\ scan[1] < NumVar - 1 /\ RowImpossible => RowBegins
  /\ num_tuple_all_exact \in Int
  /\ assumptions \in SUBSET Literal
  /\ CollectedOnce
  /\ uncovered_possible_solutions \in Seq(TestCase)
  /\ pc \in BeforeScan =>
       scan = <<0, 0, 1, 0>> /\ uncovered_tuples = <<>> /\ assumptions = {}
  /\ pc = "scan" =>
       /\ assumptions = {}
       /\ Collected \cap already_t_wise = {}
       /\ \A t \in Collected : Before(t, scan)
       /\ num_tuple_all_exact = NumTupleAllPossible - Cardinality(Passed)
       /\ Passed \cap Feasible(clauses) = {}

\* What SInv says of the formula and of the tuples covered.
LEMMA SInvFacts ==
  ASSUME SInv
  PROVE  /\ clauses \in Formula
         /\ testcase_set \in Seq(TestCase)
         /\ num_generated \in Nat /\ num_generated = Len(testcase_set)
         /\ already_t_wise \subseteq Feasible(clauses)
<1>1. /\ clauses \in Formula
      /\ testcase_set \in Seq(TestCase)
      /\ num_generated \in Nat /\ num_generated = Len(testcase_set)
  BY SamplingAssumption DEF SInv, TypeOK, RowsValid
<1>2. \A k \in DOMAIN testcase_set : TuplesOf(testcase_set[k]) \subseteq Feasible(clauses)
  BY ModelTuplesFeasible DEF SInv, RowsValid
<1>3. ASSUME NEW n \in 0 .. Len(testcase_set)
      PROVE  CoveredUpTo(testcase_set, n) \subseteq Feasible(clauses)
  <2>1. 1 .. n \subseteq DOMAIN testcase_set
    BY <1>1
  <2>. QED BY <1>2, <2>1 DEF CoveredUpTo
<1>4. (IF Uncounted THEN num_generated - 1 ELSE num_generated) \in 0 .. Len(testcase_set)
  BY <1>1 DEF SInv, RowsInv, Uncounted
<1>. QED BY <1>1, <1>3, <1>4 DEF SInv, RowsInv

\* Tuples and impossible tuples can be counted.
LEMMA FeasibleFinite ==
  \A F : /\ IsFiniteSet(Feasible(F)) /\ Cardinality(Feasible(F)) \in Nat
         /\ \A T \in SUBSET (Tuple \ Feasible(F)) :
              IsFiniteSet(T) /\ Cardinality(T) \in Nat
<1>. SUFFICES ASSUME NEW F
              PROVE  /\ IsFiniteSet(Feasible(F)) /\ Cardinality(Feasible(F)) \in Nat
                     /\ \A T \in SUBSET (Tuple \ Feasible(F)) :
                          IsFiniteSet(T) /\ Cardinality(T) \in Nat
  OBVIOUS
<1>1. \A T \in SUBSET Tuple : IsFiniteSet(T) /\ Cardinality(T) \in Nat
  BY TupleFinite, FS_Subset, FS_CardinalityType
<1>. QED BY <1>1, TuplesInTuple

-----------------------------------------------------------------------------
(* The steps up to the end of the scan *)

LEMMA ScanInvInit == FInit => SInv /\ ScanInv /\ SolutionsMatch
<1>. SUFFICES ASSUME FInit PROVE SInv /\ ScanInv /\ SolutionsMatch
  OBVIOUS
<1>. USE DEF FInit
<1>1. SInv
  BY SInvInit
<1>2. /\ pc = "init" /\ scan = <<0, 0, 1, 0>> /\ uncovered_tuples = <<>>
      /\ uncovered_possible_solutions = <<>>
  BY DEF SInit
<1>3. ScanShape
  BY <1>2, NumVarAssumption DEF ScanShape, Bit, Tuple, Var
<1>4. CollectedOnce /\ SolutionsMatch
  BY <1>2 DEF CollectedOnce, SolutionsMatch
<1>5. ScanInv
  BY <1>2, <1>3, <1>4 DEF ScanInv, RowBegins, BeforeScan
<1>. QED BY <1>1, <1>4, <1>5

\* A step that leaves the scan's variables and the formula alone, outside the
\* scan.
LEMMA ScanInvFrame ==
  ASSUME ScanInv, UNCHANGED <<clauses, scan, uncovered_tuples, uncovered_possible_solutions>>,
         num_tuple_all_exact' \in Int, assumptions' \in SUBSET Literal,
         \/ pc \in BeforeScan /\ pc' \in BeforeScan /\ UNCHANGED assumptions
         \/ pc \in InFinal /\ pc' \in InFinal \ {"scan"}
  PROVE  ScanInv'
<1>1. /\ UNCHANGED ScanShape /\ UNCHANGED RowImpossible /\ UNCHANGED RowBegins
      /\ UNCHANGED CollectedOnce
  BY DEF ScanShape, RowImpossible, RowBegins, CollectedOnce
<1>2. pc' # "scan" /\ (pc' \in BeforeScan => pc \in BeforeScan /\ UNCHANGED assumptions)
  BY DEF BeforeScan, InFinal
<1>. QED BY <1>1, <1>2 DEF ScanInv

\* While a strategy works on what the scan found.
LEMMA ScanInvStays ==
  ASSUME ScanInv, UNCHANGED clauses, UNCHANGED scanVars,
         pc \in InFinal, pc' \in InFinal \ {"scan"}
  PROVE  ScanInv' /\ (SolutionsMatch => SolutionsMatch')
<1>1. /\ UNCHANGED <<clauses, scan, uncovered_tuples, uncovered_possible_solutions>>
      /\ num_tuple_all_exact' \in Int /\ assumptions' \in SUBSET Literal
  BY DEF scanVars, ScanInv
<1>. QED BY <1>1, ScanInvFrame DEF SolutionsMatch

LEMMA SampleScanInv ==
  ASSUME SInv, ScanInv, Sample
  PROVE  SInv' /\ ScanInv'
<1>1. SInv'
  BY SInvNext, SMTT(30) DEF Sample
<1>2. /\ pc \in BeforeScan /\ pc' \in BeforeScan /\ UNCHANGED clauses
  BY DEF Sample, SNext, GenerateInitTestcaseCDCL, CountTestcase, ClearPQ, UpdateSampleWeight,
         GenerateTestcase, inputVars, BeforeScan
<1>3. UNCHANGED <<scan, num_tuple_all_exact, uncovered_tuples, uncovered_possible_solutions,
                  assumptions>>
      /\ num_tuple_all_exact \in Int /\ assumptions \in SUBSET Literal
  BY DEF Sample, scanVars, ScanInv
<1>. QED BY <1>1, <1>2, <1>3, ScanInvFrame

\* Only pc moves on, within the final phase.
LEMMA FinalPhaseSInv ==
  ASSUME SInv, UNCHANGED <<inputVars, testcase_set, num_generated, countVars,
                           positive_appearance, queueVars>>,
         pc \in InFinal \cup {"clear_final"}, pc' \in InFinal
  PROVE  SInv'
BY DEF SInv, TypeOK, RowsValid, RowsInv, FreshInv, QueueInv, Uncounted, Gain,
       inputVars, countVars, queueVars, InFinal

LEMMA ClearFinalScanInv ==
  ASSUME SInv, ScanInv, ClearFinal
  PROVE  SInv' /\ ScanInv'
<1>. USE DEF ClearFinal
<1>1. SInv'
  BY FinalPhaseSInv DEF InFinal
<1>2. /\ UNCHANGED <<clauses, scan, uncovered_tuples, uncovered_possible_solutions>>
      /\ pc' = "scan" /\ scan = <<0, 0, 1, 0>> /\ uncovered_tuples = <<>>
      /\ assumptions' = {} /\ num_tuple_all_exact' = NumTupleAllPossible
  BY DEF ScanInv, inputVars, BeforeScan
<1>3. NumTupleAllPossible \in Nat
  BY TupleCount, TupleFinite, FS_CardinalityType
<1>4. \A t \in Tuple : ~Before(t, scan)
  BY <1>2, TupleParts DEF Before
<1>5. Passed' = {} /\ Collected' = {}
  BY <1>2, <1>4 DEF Passed, Collected
<1>6. Cardinality(Passed') = 0
  BY <1>5, FS_EmptySet
<1>7. /\ UNCHANGED ScanShape /\ UNCHANGED RowImpossible /\ UNCHANGED RowBegins
      /\ UNCHANGED CollectedOnce
  BY <1>2 DEF ScanShape, RowImpossible, RowBegins, CollectedOnce
<1>8. ScanInv'
  BY <1>2, <1>3, <1>5, <1>6, <1>7 DEF ScanInv, BeforeScan, InFinal
<1>. QED BY <1>1, <1>8

LEMMA StutterScanInv ==
  ASSUME SInv, ScanInv, UNCHANGED <<sampleVars, scanVars>>
  PROVE  SInv' /\ ScanInv'
<1>1. SInv'
  BY SInvNext
<1>2. UNCHANGED <<clauses, pc, already_t_wise, scan, num_tuple_all_exact, uncovered_tuples,
                  uncovered_possible_solutions, assumptions>>
  BY DEF sampleVars, inputVars, countVars, scanVars
<1>3. /\ UNCHANGED ScanShape /\ UNCHANGED RowImpossible /\ UNCHANGED RowBegins
      /\ UNCHANGED CollectedOnce /\ UNCHANGED Collected /\ UNCHANGED Passed
  BY <1>2 DEF ScanShape, RowImpossible, RowBegins, CollectedOnce, Collected, Passed
<1>4. ScanInv'
  BY <1>2, <1>3 DEF ScanInv
<1>. QED BY <1>1, <1>4

\* What the steps of the scan have in common.
LEMMA ScanFrame ==
  ASSUME SInv, ScanInv, AtTuple, UNCHANGED scanFrame
  PROVE  /\ SInv'
         /\ UNCHANGED <<clauses, pc, already_t_wise>> /\ pc = "scan" /\ pc' = "scan"
         /\ clauses \in Formula /\ already_t_wise \subseteq Feasible(clauses)
         /\ scan \in Tuple /\ ScanShape /\ scan[1] < NumVar - 1
         /\ scan[1] \in Var /\ scan[2] \in Bit
         /\ assumptions = {} /\ num_tuple_all_exact \in Int
<1>1. UNCHANGED sampleVars
  BY DEF scanFrame, sampleVars
<1>2. SInv'
  BY <1>1, SInvNext
<1>3. UNCHANGED <<clauses, pc, already_t_wise>> /\ pc = "scan" /\ pc' = "scan"
  BY DEF scanFrame, inputVars, countVars, AtTuple
<1>4. scan \in Tuple /\ ScanShape /\ scan[1] < NumVar - 1
      /\ scan[1] \in Var /\ scan[2] \in Bit
  BY DEF ScanInv, AtTuple, ScanShape, Var
<1>. QED BY <1>2, <1>3, <1>4, SInvFacts DEF ScanInv

\* The number of tuples passed, neither covered nor collected.
LEMMA PassedFinite == IsFiniteSet(Passed) /\ Cardinality(Passed) \in Nat
<1>1. Passed \subseteq Tuple
  BY DEF Passed
<1>. QED BY <1>1, TupleFinite, FS_Subset, FS_CardinalityType

\* ScanInv is kept when as much is subtracted as is passed.
LEMMA PassedExact ==
  ASSUME SInv, ScanInv, AtTuple, UNCHANGED scanFrame, assumptions' = {},
         ScanShape', scan'[1] < NumVar - 1 /\ RowImpossible' => RowBegins',
         CollectedOnce', uncovered_possible_solutions' \in Seq(TestCase),
         Collected' \cap already_t_wise = {},
         \A t \in Collected' : Before(t, scan'),
         NEW d \in Int,
         num_tuple_all_exact' = num_tuple_all_exact - d,
         Cardinality(Passed') = Cardinality(Passed) + d,
         Passed' \cap Feasible(clauses) = {}
  PROVE  SInv' /\ ScanInv'
<1>1. /\ SInv' /\ UNCHANGED <<clauses, pc, already_t_wise>> /\ pc = "scan" /\ pc' = "scan"
      /\ num_tuple_all_exact \in Int
  BY ScanFrame
<1>2. num_tuple_all_exact = NumTupleAllPossible - Cardinality(Passed)
  BY <1>1 DEF ScanInv
<1>3. NumTupleAllPossible \in Nat /\ Cardinality(Passed) \in Nat
  BY TupleCount, TupleFinite, FS_CardinalityType, PassedFinite
<1>4. /\ num_tuple_all_exact' = NumTupleAllPossible - Cardinality(Passed')
      /\ num_tuple_all_exact' \in Int
  BY <1>1, <1>2, <1>3
<1>. QED BY <1>1, <1>4 DEF ScanInv, BeforeScan, InFinal

\* v_i contradicts the backbone: all tuples of the row are impossible and
\* none of them had been passed.
LEMMA SkipRowScanInv ==
  ASSUME SInv, ScanInv, SkipRow
  PROVE  SInv' /\ ScanInv'
<1>. USE DEF SkipRow
<1>. DEFINE R == RowOf(scan[1], scan[2])
            d == 2 * (NumVar - scan[1] - 1)
<1>1. /\ UNCHANGED <<clauses, pc, already_t_wise>> /\ clauses \in Formula /\ pc = "scan"
      /\ already_t_wise \subseteq Feasible(clauses)
      /\ scan \in Tuple /\ ScanShape /\ scan[1] < NumVar - 1
      /\ scan[1] \in Var /\ scan[2] \in Bit /\ assumptions = {}
  BY ScanFrame
<1>2. /\ ScanShape' /\ RowBegins'
      /\ \A t \in Tuple : Before(t, scan') <=> Before(t, scan) \/ t \in R
      /\ \A t \in R : ~Before(t, scan)
  BY <1>1, NextRowOrder DEF RowBegins, ScanInv
<1>3. R \cap Feasible(clauses) = {}
  <2>. SUFFICES ASSUME NEW t \in R, NEW tc \in Models(clauses), Covers(tc, t) PROVE FALSE
    BY DEF Feasible
  <2>1. tc[scan[1]] = scan[2]
    BY DEF RowOf, Covers
  <2>2. tc[scan[1]] = AsBackbone(clauses)[scan[1]] /\ AsBackbone(clauses)[scan[1]] # scan[2]
    BY <1>1, BackboneSound DEF RowImpossible
  <2>. QED BY <2>1, <2>2
<1>4. IsFiniteSet(R) /\ Cardinality(R) = d
  BY <1>1, RowCount
<1>5. /\ UNCHANGED CollectedOnce /\ UNCHANGED Collected /\ CollectedOnce
      /\ Collected \cap already_t_wise = {} /\ Collected \subseteq Tuple
      /\ \A t \in Collected : Before(t, scan)
  BY <1>1 DEF CollectedOnce, Collected, ScanInv
<1>6. R \cap (already_t_wise \cup Collected) = {} /\ R \subseteq Tuple
  BY <1>1, <1>2, <1>3, <1>5 DEF RowOf
<1>. HIDE DEF R
<1>7. Passed \cap R = {} /\ Passed' = Passed \cup R
  BY <1>1, <1>2, <1>5, <1>6 DEF Passed
<1>8. Cardinality(Passed') = Cardinality(Passed) + d
  BY <1>4, <1>7, PassedFinite, DisjointCount
<1>9. Passed' \cap Feasible(clauses) = {}
  BY <1>1, <1>3, <1>7 DEF ScanInv
<1>10. d \in Int
  BY <1>1, NumVarAssumption DEF Var
<1>11. \A t \in Collected' : Before(t, scan')
  BY <1>2, <1>5
<1>12. uncovered_possible_solutions' \in Seq(TestCase)
  BY DEF ScanInv
<1>. HIDE DEF d
<1>13. num_tuple_all_exact' = num_tuple_all_exact - d
  BY DEF d
<1>14. assumptions' = {} /\ CollectedOnce' /\ Collected' \cap already_t_wise = {}
  BY <1>1, <1>5
<1>. QED BY <1>2, <1>8, <1>9, <1>10, <1>11, <1>12, <1>13, <1>14, PassedExact

\* The place of the loops after one tuple.
LEMMA PassTuple ==
  ASSUME SInv, ScanInv, AtTuple, ~RowImpossible, UNCHANGED scanFrame, scan' = NextTuple
  PROVE  /\ ScanShape'
         /\ scan'[1] < NumVar - 1 /\ RowImpossible' => RowBegins'
         /\ \A t \in Tuple : Before(t, scan') <=> Before(t, scan) \/ t = scan
         /\ scan \in Tuple /\ ~Before(scan, scan) /\ scan \notin Collected
         /\ \A t \in Collected : t \in Tuple /\ Before(t, scan)
<1>1. /\ scan \in Tuple /\ ScanShape /\ scan[1] < NumVar - 1 /\ UNCHANGED clauses /\ pc = "scan"
  BY ScanFrame
<1>2. /\ ScanShape'
      /\ \A t \in Tuple : Before(t, scan') <=> Before(t, scan) \/ t = scan
      /\ ~Before(scan, scan)
      /\ \/ scan'[1] = scan[1] /\ scan'[2] = scan[2]
         \/ scan'[3] = scan'[1] + 1 /\ scan'[4] = 0
  BY <1>1, NextTupleOrder
<1>3. scan'[1] < NumVar - 1 /\ RowImpossible' => RowBegins'
  BY <1>1, <1>2 DEF RowImpossible, RowBegins
<1>4. \A t \in Collected : t \in Tuple /\ Before(t, scan)
  BY <1>1 DEF ScanInv, CollectedOnce, Collected
<1>. QED BY <1>1, <1>2, <1>3, <1>4

\* A step that passes one tuple without collecting it.
LEMMA SkipTuple ==
  ASSUME SInv, ScanInv, AtTuple, ~RowImpossible, scan' = NextTuple,
         UNCHANGED <<scanFrame, uncovered_tuples, uncovered_possible_solutions>>,
         assumptions' = {},
         num_tuple_all_exact' = num_tuple_all_exact - (IF scan \in already_t_wise THEN 0 ELSE 1),
         scan \in already_t_wise \/ scan \notin Feasible(clauses)
  PROVE  SInv' /\ ScanInv'
<1>. DEFINE d == IF scan \in already_t_wise THEN 0 ELSE 1
<1>1. UNCHANGED <<clauses, pc, already_t_wise>> /\ pc = "scan"
  BY ScanFrame
<1>2. /\ ScanShape'
      /\ scan'[1] < NumVar - 1 /\ RowImpossible' => RowBegins'
      /\ \A t \in Tuple : Before(t, scan') <=> Before(t, scan) \/ t = scan
      /\ scan \in Tuple /\ ~Before(scan, scan) /\ scan \notin Collected
      /\ \A t \in Collected : t \in Tuple /\ Before(t, scan)
  BY PassTuple
<1>3. Collected' = Collected /\ CollectedOnce'
      /\ Collected' \cap already_t_wise = {} /\ uncovered_possible_solutions' \in Seq(TestCase)
  BY <1>1 DEF Collected, CollectedOnce, ScanInv
<1>4. Passed' = IF scan \in already_t_wise THEN Passed ELSE Passed \cup {scan}
  BY <1>1, <1>2, <1>3 DEF Passed
<1>5. scan \notin Passed /\ IsFiniteSet(Passed) /\ Cardinality(Passed) \in Nat
  BY <1>2, PassedFinite DEF Passed
<1>6. Cardinality(Passed \cup {scan}) = Cardinality(Passed) + 1
  BY <1>5, FS_AddElement
<1>7. Cardinality(Passed') = Cardinality(Passed) + d
  BY <1>4, <1>5, <1>6
<1>8. Passed' \cap Feasible(clauses) = {}
  BY <1>1, <1>4 DEF ScanInv
<1>9. \A t \in Collected' : Before(t, scan')
  BY <1>2, <1>3
<1>10. d \in Int /\ num_tuple_all_exact' = num_tuple_all_exact - d
  OBVIOUS
<1>. HIDE DEF d
<1>. QED BY <1>2, <1>3, <1>7, <1>8, <1>9, <1>10, PassedExact

\* A step that collects the tuple it passes.
LEMMA CollectTuple ==
  ASSUME SInv, ScanInv, AtTuple, ~RowImpossible, scan' = NextTuple, scan \notin already_t_wise,
         UNCHANGED <<scanFrame, num_tuple_all_exact>>, assumptions' = {},
         uncovered_tuples' = Append(uncovered_tuples, TupleLits(scan)),
         uncovered_possible_solutions' \in Seq(TestCase)
  PROVE  SInv' /\ ScanInv'
<1>. DEFINE u == uncovered_tuples
            n == Len(uncovered_tuples)
<1>1. UNCHANGED <<clauses, pc, already_t_wise>> /\ pc = "scan" /\ num_tuple_all_exact \in Int
  BY ScanFrame
<1>2. /\ ScanShape'
      /\ scan'[1] < NumVar - 1 /\ RowImpossible' => RowBegins'
      /\ \A t \in Tuple : Before(t, scan') <=> Before(t, scan) \/ t = scan
      /\ scan \in Tuple /\ ~Before(scan, scan) /\ scan \notin Collected
      /\ \A t \in Collected : t \in Tuple /\ Before(t, scan)
  BY PassTuple
<1>3. TupleLits(scan) \in LitPair /\ LitsTuple(TupleLits(scan)) = scan
  BY <1>2, TupleLitsInverse
<1>4. u \in Seq(LitPair) /\ n \in Nat /\ DOMAIN u = 1 .. n
  BY DEF ScanInv, CollectedOnce
<1>5. /\ u' \in Seq(LitPair) /\ DOMAIN u' = 1 .. n + 1
      /\ \A k \in 1 .. n : u'[k] = u[k]
      /\ u'[n + 1] = TupleLits(scan)
  BY <1>3, <1>4, AppendProperties
<1>6. \A k \in 1 .. n + 1 : k \in 1 .. n \/ k = n + 1
  BY <1>4
<1>7. \A k \in 1 .. n : LitsTuple(u[k]) \in Collected
  BY <1>4 DEF Collected
<1>8. CollectedOnce'
  <2>1. ASSUME NEW k \in 1 .. n + 1 PROVE LitsTuple(u'[k]) \in Tuple
    BY <1>2, <1>3, <1>5, <1>6, <1>7
  <2>2. ASSUME NEW k \in 1 .. n + 1, NEW m \in 1 .. n + 1,
               LitsTuple(u'[k]) = LitsTuple(u'[m])
        PROVE  k = m
    <3>1. CASE k \in 1 .. n /\ m \in 1 .. n
      BY <1>4, <1>5, <2>2, <3>1 DEF ScanInv, CollectedOnce
    <3>2. CASE k = n + 1 \/ m = n + 1
      BY <1>2, <1>3, <1>5, <1>6, <1>7, <2>2, <3>2
    <3>. QED BY <1>6, <3>1, <3>2
  <2>. QED BY <1>5, <2>1, <2>2 DEF CollectedOnce
<1>9. Collected' = Collected \cup {scan}
  BY <1>3, <1>4, <1>5, <1>6 DEF Collected
<1>10. Passed' = Passed
  BY <1>1, <1>2, <1>9 DEF Passed
<1>11. Cardinality(Passed') = Cardinality(Passed) + 0
  BY <1>10, PassedFinite
<1>12. /\ Collected' \cap already_t_wise = {}
       /\ \A t \in Collected' : Before(t, scan')
       /\ Passed' \cap Feasible(clauses) = {}
  BY <1>1, <1>2, <1>9, <1>10 DEF ScanInv
<1>13. num_tuple_all_exact' = num_tuple_all_exact - 0
  BY <1>1
<1>. QED BY <1>2, <1>8, <1>11, <1>12, <1>13, PassedExact

\* With both literals of the tuple assumed the solver answers for it.
LEMMA SolverAnswers ==
  ASSUME SInv, ScanInv, AtTuple
  PROVE  /\ scan \in Tuple
         /\ ModelsUnder(assumptions \cup {ToLit(scan[1], scan[2]), ToLit(scan[3], scan[4])})
              = {tc \in Models(clauses) : Covers(tc, scan)}
<1>1. scan \in Tuple /\ assumptions = {}
  BY DEF ScanInv, ScanShape, AtTuple
<1>. QED BY <1>1, ModelsUnderTuple

\* v_j contradicts the backbone: the tuple is impossible.
LEMMA ValueImpossibleSound ==
  ASSUME SInv, ScanInv, AtTuple, ValueImpossible
  PROVE  scan \notin Feasible(clauses)
<1>1. scan \in Tuple /\ clauses \in Formula
  BY SolverAnswers, SInvFacts
<1>. SUFFICES ASSUME NEW tc \in Models(clauses), Covers(tc, scan) PROVE FALSE
  BY DEF Feasible
<1>2. tc[scan[3]] = scan[4] /\ scan[3] \in Var
  BY <1>1 DEF Covers, Tuple
<1>. QED BY <1>1, <1>2, BackboneSound DEF ValueImpossible

\* Every step of the scan, with and without simplify.
LEMMA FindScanInv ==
  ASSUME SInv, ScanInv, NEW s, FindUncoveredTuples(s)
  PROVE  SInv' /\ ScanInv'
<1>. USE DEF Candidate
<1>1. CASE SkipRow
  BY <1>1, SkipRowScanInv
<1>2. CASE SkipValue
  <2>1. scan \notin Feasible(clauses) /\ already_t_wise \subseteq Feasible(clauses)
        /\ assumptions = {}
    BY <1>2, ValueImpossibleSound, SInvFacts DEF SkipValue, ScanInv, AtTuple
  <2>. QED BY <1>2, <2>1, SkipTuple DEF SkipValue
<1>3. CASE SkipCovered
  <2>1. assumptions = {} /\ num_tuple_all_exact' = num_tuple_all_exact - 0
    BY <1>3 DEF SkipCovered, ScanInv, AtTuple
  <2>. QED BY <1>3, <2>1, SkipTuple DEF SkipCovered
<1>4. CASE SolvePossible
  <2>1. uncovered_possible_solutions' \in Seq(TestCase)
    BY <1>4, AppendProperties DEF SolvePossible, ScanInv, ModelsUnder, Models
  <2>. QED BY <1>4, <2>1, CollectTuple DEF SolvePossible
<1>5. CASE SolveImpossible
  <2>1. scan \notin Feasible(clauses)
    BY <1>5, SolverAnswers DEF SolveImpossible, Feasible
  <2>. QED BY <1>5, <2>1, SkipTuple DEF SolveImpossible
<1>6. CASE KeepUnsolved
  <2>1. assumptions = {} /\ uncovered_possible_solutions \in Seq(TestCase)
    BY <1>6 DEF KeepUnsolved, ScanInv, AtTuple
  <2>. QED BY <1>6, <2>1, CollectTuple DEF KeepUnsolved
<1>. QED BY <1>1, <1>2, <1>3, <1>4, <1>5, <1>6 DEF FindUncoveredTuples

\* With simplify every tuple is stored beside a solution that covers it.
LEMMA FindMatches ==
  ASSUME SInv, ScanInv, SolutionsMatch, FindUncoveredTuples(TRUE)
  PROVE  SolutionsMatch'
<1>1. CASE SolvePossible
  <2>. DEFINE u == uncovered_tuples
              w == uncovered_possible_solutions
              n == Len(uncovered_tuples)
  <2>1. /\ scan \in Tuple /\ UNCHANGED clauses
        /\ \E tc \in Models(clauses) : Covers(tc, scan) /\ w' = Append(w, tc)
        /\ u' = Append(u, TupleLits(scan))
    BY <1>1, SolverAnswers, ScanFrame DEF SolvePossible, Candidate
  <2>2. PICK tc \in Models(clauses) : Covers(tc, scan) /\ w' = Append(w, tc)
    BY <2>1
  <2>3. /\ u \in Seq(LitPair) /\ w \in Seq(TestCase) /\ Len(w) = n /\ n \in Nat
        /\ DOMAIN u = 1 .. n
        /\ \A k \in 1 .. n : w[k] \in Models(clauses) /\ Covers(w[k], LitsTuple(u[k]))
    BY DEF ScanInv, CollectedOnce, SolutionsMatch
  <2>4. TupleLits(scan) \in LitPair /\ LitsTuple(TupleLits(scan)) = scan
    BY <2>1, TupleLitsInverse
  <2>5. /\ Len(u') = n + 1 /\ DOMAIN u' = 1 .. n + 1
        /\ \A k \in 1 .. n : u'[k] = u[k]
        /\ u'[n + 1] = TupleLits(scan)
    BY <2>1, <2>3, <2>4, AppendProperties
  <2>6. /\ Len(w') = n + 1
        /\ \A k \in 1 .. n : w'[k] = w[k]
        /\ w'[n + 1] = tc
    BY <2>2, <2>3, AppendProperties DEF Models
  <2>7. \A k \in 1 .. n + 1 : k \in 1 .. n \/ k = n + 1
    BY <2>3
  <2>. HIDE DEF n
  <2>. QED BY <2>1, <2>2, <2>3, <2>4, <2>5, <2>6, <2>7 DEF SolutionsMatch
<1>2. CASE ~SolvePossible
  <2>1. UNCHANGED <<clauses, uncovered_tuples, uncovered_possible_solutions>>
    BY <1>2 DEF FindUncoveredTuples, SkipRow, SkipValue, SkipCovered, SolveImpossible, scanFrame,
                inputVars
  <2>. QED BY <2>1 DEF SolutionsMatch
<1>. QED BY <1>1, <1>2

-----------------------------------------------------------------------------
(* What the scan has found *)

\* With simplify exactly the impossible tuples passed have been subtracted.
LEMMA ScanInvExact ==
  ASSUME SInv, ScanInv, SolutionsMatch
  PROVE  ScanExact
<1>. SUFFICES ASSUME pc = "scan" PROVE ScanExact
  BY DEF ScanExact
<1>1. Collected \subseteq Feasible(clauses)
  BY DEF ScanInv, CollectedOnce, Collected, SolutionsMatch, Feasible
<1>2. already_t_wise \subseteq Feasible(clauses)
  BY SInvFacts
<1>3. Passed = {t \in Tuple \ Feasible(clauses) : Before(t, scan)}
  BY <1>1, <1>2 DEF ScanInv, Passed
<1>4. ASSUME NEW t \in Feasible(clauses), Before(t, scan)
      PROVE  t \in already_t_wise \cup Collected
  BY <1>4, TuplesInTuple DEF ScanInv, Passed
<1>. QED BY <1>3, <1>4 DEF ScanInv, ScanExact

\* At its end every tuple has been passed: num_tuple_all_exact_ counts the
\* tuples that are covered or collected, and no valid tuple is missing there.
LEMMA ScanEnd ==
  ASSUME SInv, ScanInv, ScanDone
  PROVE  /\ num_tuple_all_exact = Cardinality(already_t_wise \cup Collected)
         /\ Feasible(clauses) \subseteq already_t_wise \cup Collected
         /\ Collected \cap already_t_wise = {} /\ Collected \subseteq Tuple
         /\ assumptions = {}
<1>. DEFINE K == already_t_wise \cup Collected
<1>1. \A t \in Tuple : Before(t, scan)
  BY TupleParts, ScanParts DEF ScanInv, ScanDone, Before
<1>2. Collected \subseteq Tuple /\ already_t_wise \subseteq Tuple
  BY SInvFacts, TuplesInTuple DEF ScanInv, CollectedOnce, Collected
<1>3. Passed = Tuple \ K
  BY <1>1 DEF Passed
<1>4. IsFiniteSet(K) /\ Cardinality(K) \in Nat
  BY <1>2, TupleFinite, FS_Subset, FS_CardinalityType
<1>5. Cardinality(K \cup Passed) = Cardinality(K) + Cardinality(Passed)
  BY <1>3, <1>4, PassedFinite, DisjointCount
<1>6. K \cup Passed = Tuple
  BY <1>2, <1>3
<1>7. Cardinality(Tuple) = Cardinality(K) + Cardinality(Passed)
  BY <1>5, <1>6
<1>8. num_tuple_all_exact = Cardinality(Tuple) - Cardinality(Passed)
  BY TupleCount DEF ScanInv, ScanDone
<1>9. num_tuple_all_exact = Cardinality(K)
  BY <1>4, <1>7, <1>8, PassedFinite
<1>10. Feasible(clauses) \subseteq K
  BY <1>1, <1>3, TuplesInTuple DEF ScanInv, ScanDone
<1>. QED BY <1>2, <1>9, <1>10 DEF ScanInv, ScanDone

-----------------------------------------------------------------------------
(* Adding a row *)

\* A strategy adds a valid row that covers something new.
LEMMA AddTestcaseSInv ==
  ASSUME SInv, pc \in InFinal, pc' \in InFinal,
         UNCHANGED <<clauses, upperlimit, positive_appearance, pq, selected_bitset>>,
         NEW tc \in Models(clauses), AddTestcase(tc),
         ~(TuplesOf(tc) \subseteq already_t_wise)
  PROVE  /\ SInv'
         /\ already_t_wise' = already_t_wise \cup TuplesOf(tc)
<1>. USE DEF AddTestcase
<1>. DEFINE n == num_generated
<1>. USE DEF InFinal
<1>1. /\ TypeOK /\ n \in Nat /\ n = Len(testcase_set) /\ testcase_set \in Seq(TestCase)
      /\ n # 0
      /\ already_t_wise = CoveredUpTo(testcase_set, n)
      /\ num_tuple = Cardinality(already_t_wise)
      /\ tc \in TestCase
  BY DEF SInv, TypeOK, RowsValid, RowsInv, Uncounted, Models
<1>2. /\ already_t_wise' = already_t_wise \cup TuplesOf(tc)
      /\ already_t_wise' \in SUBSET Tuple
      /\ num_tuple' \in Int
      /\ num_tuple' = Cardinality(already_t_wise')
      /\ positive_uncovered' \in [Var -> Int]
      /\ negative_uncovered' \in [Var -> Int]
  BY <1>1, UpdateEffect
<1>3. /\ testcase_set' \in Seq(TestCase)
      /\ Len(testcase_set') = n + 1 /\ num_generated' = n + 1
      /\ DOMAIN testcase_set' = 1 .. n + 1
      /\ \A k \in 1 .. n : testcase_set'[k] = testcase_set[k]
      /\ testcase_set'[n + 1] = tc
  BY <1>1, AppendProperties
<1>. HIDE DEF AddTestcase
<1>4. TypeOK'
  BY <1>1, <1>2, <1>3 DEF TypeOK
<1>5. \A k \in 1 .. n + 1 : k \in 1 .. n \/ k = n + 1
  BY <1>1
<1>6. RowsValid'
  BY <1>1, <1>3, <1>5 DEF SInv, RowsValid
<1>7. \A m \in 0 .. n : CoveredUpTo(testcase_set', m) = CoveredUpTo(testcase_set, m)
  BY <1>1, CoveredUpToAppend DEF AddTestcase
<1>8. RowsInv'
  <2>1. CoveredUpTo(testcase_set', n + 1) = CoveredUpTo(testcase_set', n) \cup TuplesOf(tc)
    BY <1>1, <1>3, CoveredUpToNext
  <2>2. CoveredUpTo(testcase_set', n) = already_t_wise
    BY <1>1, <1>7
  <2>. QED BY <1>1, <1>2, <1>3, <2>1, <2>2 DEF RowsInv, Uncounted
<1>9. FreshInv'
  <2>. SUFFICES ASSUME NEW k \in 1 .. n + 1
                PROVE  ~(TuplesOf(testcase_set'[k]) \subseteq CoveredUpTo(testcase_set', k - 1))
    BY <1>3 DEF FreshInv
  <2>1. k - 1 \in 0 .. n /\ CoveredUpTo(testcase_set', k - 1) = CoveredUpTo(testcase_set, k - 1)
    BY <1>1, <1>7
  <2>2. CASE k = n + 1
    <3>1. k - 1 = n
      BY <1>1, <2>2
    <3>. QED BY <1>1, <1>3, <2>1, <2>2, <3>1
  <2>3. CASE k \in 1 .. n
    BY <1>1, <1>3, <2>1, <2>3 DEF SInv, FreshInv
  <2>. QED BY <1>5, <2>2, <2>3
<1>10. QueueInv'
  BY DEF SInv, QueueInv
<1>. QED BY <1>2, <1>4, <1>6, <1>8, <1>9, <1>10 DEF SInv

-----------------------------------------------------------------------------
(* Every step leaves less to do *)

LEMMA FewerNumbers ==
  ASSUME NEW a1, NEW a2, NEW a3, NEW a4, NEW a5, NEW b1, NEW b2, NEW b3, NEW b4, NEW b5,
         \/ a1 \in Nat /\ a1 < b1
         \/ a1 = b1 /\ a2 \in Nat /\ a2 < b2
         \/ a1 = b1 /\ a2 = b2 /\ a3 \in Nat /\ a3 < b3
         \/ a1 = b1 /\ a2 = b2 /\ a3 = b3 /\ a4 \in Nat /\ a4 < b4
         \/ a1 = b1 /\ a2 = b2 /\ a3 = b3 /\ a4 = b4 /\ a5 \in Nat /\ a5 < b5
  PROVE  Fewer(<<a1, a2, a3, a4, a5>>, <<b1, b2, b3, b4, b5>>)
<1>. DEFINE m == <<a1, a2, a3, a4, a5>>
            n == <<b1, b2, b3, b4, b5>>
            Less(k) == m[k] \in Nat /\ m[k] < n[k] /\ \A j \in 1 .. k - 1 : m[j] = n[j]
<1>1. DOMAIN m = 1 .. 5
  OBVIOUS
<1>2. /\ m[1] = a1 /\ m[2] = a2 /\ m[3] = a3 /\ m[4] = a4 /\ m[5] = a5
      /\ n[1] = b1 /\ n[2] = b2 /\ n[3] = b3 /\ n[4] = b4 /\ n[5] = b5
  OBVIOUS
<1>. HIDE DEF m, n
<1>3. \E k \in 1 .. 5 : Less(k)
  <2>1. CASE a1 \in Nat /\ a1 < b1
    BY <1>2, <2>1
  <2>2. CASE a1 = b1 /\ a2 \in Nat /\ a2 < b2
    <3>1. Less(2)
      BY <1>2, <2>2
    <3>. QED BY <3>1
  <2>3. CASE a1 = b1 /\ a2 = b2 /\ a3 \in Nat /\ a3 < b3
    <3>1. \A j \in 1 .. 3 - 1 : j = 1 \/ j = 2
      OBVIOUS
    <3>2. Less(3)
      BY <1>2, <2>3, <3>1
    <3>. QED BY <3>2
  <2>4. CASE a1 = b1 /\ a2 = b2 /\ a3 = b3 /\ a4 \in Nat /\ a4 < b4
    <3>1. \A j \in 1 .. 4 - 1 : j = 1 \/ j = 2 \/ j = 3
      OBVIOUS
    <3>2. Less(4)
      BY <1>2, <2>4, <3>1
    <3>. QED BY <3>2
  <2>5. CASE a1 = b1 /\ a2 = b2 /\ a3 = b3 /\ a4 = b4 /\ a5 \in Nat /\ a5 < b5
    <3>1. \A j \in 1 .. 5 - 1 : j = 1 \/ j = 2 \/ j = 3 \/ j = 4
      OBVIOUS
    <3>2. Less(5)
      BY <1>2, <2>5, <3>1
    <3>. QED BY <3>2
  <2>. QED BY <2>1, <2>2, <2>3, <2>4, <2>5
<1>. QED BY <1>1, <1>3 DEF Fewer, m, n

LEMMA UncoveredLess ==
  ASSUME NEW A \in SUBSET Tuple, NEW B \in SUBSET Tuple, A \subseteq B, ~(B \subseteq A)
  PROVE  /\ Cardinality(Tuple \ A) \in Nat /\ Cardinality(Tuple \ B) \in Nat
         /\ Cardinality(Tuple \ B) < Cardinality(Tuple \ A)
<1>1. IsFiniteSet(Tuple \ A) /\ IsFiniteSet(Tuple \ B)
  BY TupleFinite, FS_Subset
<1>2. Tuple \ B \subseteq Tuple \ A /\ Tuple \ B # Tuple \ A
  OBVIOUS
<1>. QED BY <1>1, <1>2, FS_Subset, FS_CardinalityType

\* A round: CountTestcase covers something new, the other steps go on to it.
LEMMA SampleAdvances ==
  ASSUME SInv, SNext
  PROVE  /\ pc \in BeforeScan \ {"clear_final"} /\ pc' \in BeforeScan
         /\ pc' # "clear_final" =>
              Fewer(<<4, Cardinality(Tuple \ already_t_wise'), Stage[pc'], 0, 0>>,
                    <<4, Cardinality(Tuple \ already_t_wise), Stage[pc], 0, 0>>)
<1>1. CASE CountTestcase
  <2>1. /\ pc = "update" /\ pc' \in {"clear_final", "clear_pq", "weight"}
        /\ Update2TupleInfo(testcase_set[num_generated])
    BY <1>1 DEF CountTestcase
  <2>2. num_generated \in DOMAIN testcase_set /\ testcase_set[num_generated] \in TestCase
    BY <2>1 DEF SInv, TypeOK, RowsValid, RowsInv
  <2>3. ~(TuplesOf(testcase_set[num_generated]) \subseteq already_t_wise)
    BY <2>1, <2>2 DEF SInv, RowsInv, FreshInv, Uncounted
  <2>4. /\ already_t_wise' = already_t_wise \cup TuplesOf(testcase_set[num_generated])
        /\ already_t_wise' \in SUBSET Tuple /\ already_t_wise \in SUBSET Tuple
    BY <2>1, <2>2, UpdateEffect DEF SInv, TypeOK
  <2>5. /\ Cardinality(Tuple \ already_t_wise') \in Nat
        /\ Cardinality(Tuple \ already_t_wise') < Cardinality(Tuple \ already_t_wise)
    BY <2>3, <2>4, UncoveredLess
  <2>. QED BY <2>1, <2>5, FewerNumbers DEF BeforeScan
<1>2. CASE ~CountTestcase
  <2>1. \/ pc = "init" /\ pc' = "update"
        \/ pc = "clear_pq" /\ pc' = "weight"
        \/ pc = "weight" /\ pc' = "generate"
        \/ pc = "generate" /\ pc' \in {"update", "clear_final"}
    BY <1>2 DEF SNext, GenerateInitTestcaseCDCL, ClearPQ, UpdateSampleWeight, GenerateTestcase
  <2>2. already_t_wise' = already_t_wise
    BY <1>2 DEF SNext, GenerateInitTestcaseCDCL, ClearPQ, UpdateSampleWeight, GenerateTestcase,
                countVars
  <2>3. pc' # "clear_final" => Stage[pc'] \in Nat /\ Stage[pc'] < Stage[pc]
    BY <2>1 DEF Stage
  <2>. QED BY <2>1, <2>2, <2>3, FewerNumbers DEF BeforeScan
<1>. QED BY <1>1, <1>2

LEMMA ScanAdvances ==
  ASSUME SInv, ScanInv, NEW s, FindUncoveredTuples(s)
  PROVE  /\ pc = "scan" /\ pc' = "scan"
         /\ Fewer(<<2, NumVar - scan'[1], 1 - scan'[2], NumVar - scan'[3], 1 - scan'[4]>>,
                  <<2, NumVar - scan[1], 1 - scan[2], NumVar - scan[3], 1 - scan[4]>>)
<1>1. /\ AtTuple /\ UNCHANGED pc /\ scan' \in {NextRow, NextTuple}
  BY DEF FindUncoveredTuples, SkipRow, SkipValue, SkipCovered, SolvePossible, SolveImpossible,
         KeepUnsolved, Candidate, scanFrame
<1>2. pc = "scan" /\ scan[1] < NumVar - 1
  BY <1>1 DEF AtTuple
<1>3. /\ NumVar \in Nat
      /\ scan[1] \in 0 .. NumVar - 1 /\ scan[2] \in {0, 1}
      /\ scan[3] \in 1 .. NumVar     /\ scan[4] \in {0, 1}
      /\ scan = <<scan[1], scan[2], scan[3], scan[4]>>
      /\ scan[3] <= NumVar - 1
  BY <1>2, ScanParts DEF ScanInv
<1>4. ASSUME scan' = NextRow
      PROVE  \/ scan'[1] = scan[1] /\ scan[2] = 0 /\ scan'[2] = 1
             \/ scan'[1] = scan[1] + 1
  BY <1>3, <1>4 DEF NextRow
<1>5. ASSUME scan' = NextTuple
      PROVE  \/ /\ scan'[1] = scan[1] /\ scan'[2] = scan[2] /\ scan'[3] = scan[3]
                /\ scan[4] = 0 /\ scan'[4] = 1
             \/ /\ scan'[1] = scan[1] /\ scan'[2] = scan[2]
                /\ scan[3] < NumVar - 1 /\ scan'[3] = scan[3] + 1
             \/ scan' = NextRow
  BY <1>3, <1>5 DEF NextTuple
<1>6. CASE scan'[1] = scan[1] /\ scan[2] = 0 /\ scan'[2] = 1
  BY <1>1, <1>2, <1>3, <1>6, FewerNumbers
<1>7. CASE scan'[1] = scan[1] + 1
  <2>1. NumVar - scan'[1] \in Nat /\ NumVar - scan'[1] < NumVar - scan[1]
    BY <1>2, <1>3, <1>7
  <2>. QED BY <1>1, <1>2, <2>1, FewerNumbers
<1>8. CASE /\ scan'[1] = scan[1] /\ scan'[2] = scan[2] /\ scan'[3] = scan[3]
           /\ scan[4] = 0 /\ scan'[4] = 1
  BY <1>1, <1>2, <1>3, <1>8, FewerNumbers
<1>9. CASE /\ scan'[1] = scan[1] /\ scan'[2] = scan[2]
           /\ scan[3] < NumVar - 1 /\ scan'[3] = scan[3] + 1
  <2>1. NumVar - scan'[3] \in Nat /\ NumVar - scan'[3] < NumVar - scan[3]
    BY <1>3, <1>9
  <2>. QED BY <1>1, <1>2, <1>9, <2>1, FewerNumbers
<1>. QED BY <1>1, <1>4, <1>5, <1>6, <1>7, <1>8, <1>9

\* What is left before the final phase chooses.
EarlyWork == Remaining(<<0, 0, 0>>)

LEMMA EarlyAdvances ==
  ASSUME SInv, ScanInv, NEW s, Sample \/ ClearFinal \/ FindUncoveredTuples(s)
  PROVE  /\ pc \in BeforeScan \cup {"scan"} /\ pc' \in BeforeScan \cup {"scan"}
         /\ Fewer(EarlyWork', EarlyWork)
<1>1. /\ pc \in BeforeScan \ {"clear_final"} => EarlyWork =
           <<4, Cardinality(Tuple \ already_t_wise), Stage[pc], 0, 0>>
      /\ pc' \in BeforeScan \ {"clear_final"} => EarlyWork' =
           <<4, Cardinality(Tuple \ already_t_wise'), Stage[pc'], 0, 0>>
      /\ pc = "clear_final" => EarlyWork = <<3, 0, 0, 0, 0>>
      /\ pc' = "clear_final" => EarlyWork' = <<3, 0, 0, 0, 0>>
  BY DEF EarlyWork, Remaining, Stage, BeforeScan
<1>2. /\ pc = "scan" => EarlyWork =
           <<2, NumVar - scan[1], 1 - scan[2], NumVar - scan[3], 1 - scan[4]>>
      /\ pc' = "scan" => EarlyWork' =
           <<2, NumVar - scan'[1], 1 - scan'[2], NumVar - scan'[3], 1 - scan'[4]>>
  BY DEF EarlyWork, Remaining, Stage
<1>3. CASE Sample
  <2>1. SNext
    BY <1>3 DEF Sample
  <2>2. CASE pc' = "clear_final"
    BY <1>1, <2>1, <2>2, SampleAdvances, FewerNumbers
  <2>3. CASE pc' # "clear_final"
    BY <1>1, <2>1, <2>3, SampleAdvances
  <2>. QED BY <2>1, <2>2, <2>3, SampleAdvances
<1>4. CASE ClearFinal
  <2>1. pc = "clear_final" /\ pc' = "scan"
    BY <1>4 DEF ClearFinal
  <2>. QED BY <1>1, <1>2, <2>1, FewerNumbers DEF BeforeScan
<1>5. CASE FindUncoveredTuples(s)
  BY <1>2, <1>5, ScanAdvances
<1>. QED BY <1>3, <1>4, <1>5
=============================================================================
