------------------------------ MODULE Sampling ------------------------------
(***************************************************************************)
(* CDCLCASampler::GenerateCoveringArray up to clear_final: the sampling    *)
(* phase.  Each round counts the tuples of the newest test case, drops     *)
(* from the queue pq of past candidates what it made useless, draws        *)
(* CandidateSetSize fresh candidates and keeps the one of largest gain.    *)
(*                                                                         *)
(* The samplers (minisat_ext and PbOCCSATSolver) are modelled by what the  *)
(* phase relies on: a candidate is some model of the formula.  std::sort   *)
(* is not stable, so any order of entries of equal gain may result.        *)
(* The variables and actions are shared by the three final phases.         *)
(***************************************************************************)
EXTENDS CNF

CONSTANTS
  Formulas,          \* the formulas a run may be given, all satisfiable
  CandidateSetSize,  \* candidate_set_size_ (option -k)
  UpperLimits        \* values of upperlimit; NoLimit: use_upperlimit = false

NoLimit == -1

ASSUME SamplingAssumption ==
  /\ Formulas \subseteq Formula
  /\ CandidateSetSize \in Nat \ {0}
  /\ UpperLimits \subseteq Nat \cup {NoLimit}

ASSUME SatisfiableAssumption == \A F \in Formulas : Models(F) # {}

VARIABLES
  clauses,               \* the formula read_cnf read
  upperlimit,
  pc,                    \* where GenerateCoveringArray stands
  testcase_set,
  num_generated,         \* num_generated_testcase_
  already_t_wise,        \* the tuples whose bit is set
  num_tuple,
  positive_uncovered,    \* count_each_var_positive_uncovered_
  negative_uncovered,
  positive_appearance,   \* var_positive_appearance_count_
  pq,                    \* candidates with the tuples only they would add
  selected_bitset        \* selected_candidate_bitset_

countVars  == <<already_t_wise, num_tuple, positive_uncovered, negative_uncovered>>
queueVars  == <<pq, selected_bitset>>
inputVars  == <<clauses, upperlimit>>
sampleVars == <<inputVars, pc, testcase_set, num_generated, countVars,
                positive_appearance, queueVars>>

Entry == [tc : TestCase, gain : SUBSET Tuple]

-----------------------------------------------------------------------------
(* Bookkeeping *)

\* Faults: the bit is not looked at; num_tuple_ counts bits already set; only
\* the first option of a tuple is decremented.
GainAll(tc) == TuplesOf(tc)

Update2TupleInfoRecount(tc) ==
  /\ already_t_wise' = already_t_wise \cup TuplesOf(tc)
  /\ num_tuple' = num_tuple + Cardinality(TuplesOf(tc))
  /\ UNCHANGED <<positive_uncovered, negative_uncovered>>

Update2TupleInfoFirst(tc) ==
  LET fresh == TuplesOf(tc) \ already_t_wise
      touched(v) == Cardinality({t \in fresh : t[1] = v})
  IN  /\ already_t_wise' = already_t_wise \cup fresh
      /\ num_tuple' = num_tuple + Cardinality(fresh)
      /\ positive_uncovered' =
           [v \in Var |-> positive_uncovered[v] - (IF tc[v] = 1 THEN touched(v) ELSE 0)]
      /\ negative_uncovered' =
           [v \in Var |-> negative_uncovered[v] - (IF tc[v] = 1 THEN 0 ELSE touched(v))]

\* get_gain: the tuples of tc whose bit is not set yet.
Gain(tc) == TuplesOf(tc) \ already_t_wise

\* Update2TupleInfo for test case tc: every newly set bit counts once in
\* num_tuple_ and once for each of its two options.
Update2TupleInfo(tc) ==
  LET fresh == TuplesOf(tc) \ already_t_wise
      touched(v) == Cardinality({t \in fresh : t[1] = v \/ t[3] = v})
  IN  /\ already_t_wise' = already_t_wise \cup fresh
      /\ num_tuple' = num_tuple + Cardinality(fresh)
      /\ positive_uncovered' =
           [v \in Var |-> positive_uncovered[v] - (IF tc[v] = 1 THEN touched(v) ELSE 0)]
      /\ negative_uncovered' =
           [v \in Var |-> negative_uncovered[v] - (IF tc[v] = 1 THEN 0 ELSE touched(v))]

-----------------------------------------------------------------------------
(* The state before GenerateCoveringArray and its steps *)

SInit == /\ clauses \in Formulas
         /\ upperlimit \in UpperLimits
         /\ pc = "init"
         /\ testcase_set = <<>>
         /\ num_generated = 0
         /\ already_t_wise = {}
         /\ num_tuple = 0
         /\ positive_uncovered = [v \in Var |-> 2 * (NumVar - 1)]
         /\ negative_uncovered = [v \in Var |-> 2 * (NumVar - 1)]
         /\ positive_appearance = [v \in Var |-> 0]
         /\ pq = <<>>
         /\ selected_bitset = {}

\* Fault: an assignment nobody solved.
InitTestcaseUnsolved ==
  /\ pc = "init"
  /\ \E tc \in TestCase : testcase_set' = << tc >>
  /\ num_generated' = 1
  /\ pc' = "update"
  /\ UNCHANGED <<inputVars, countVars, positive_appearance, queueVars>>

\* Init with GenerateInitTestcaseCDCL: the first test case is any model.
GenerateInitTestcaseCDCL ==
  /\ pc = "init"
  /\ \E tc \in Models(clauses) : testcase_set' = Append(testcase_set, tc)
  /\ num_generated' = 1
  /\ pc' = "update"
  /\ UNCHANGED <<inputVars, countVars, positive_appearance, queueVars>>

\* Head of the loop: count the newest test case, leave if the limit is hit.
CountTestcase ==
  /\ pc = "update"
  /\ Update2TupleInfo(testcase_set[num_generated])
  /\ pc' = IF upperlimit # NoLimit /\ upperlimit = num_tuple' THEN "clear_final"
           ELSE IF num_generated > 1 THEN "clear_pq"
           ELSE "weight"
  /\ UNCHANGED <<inputVars, testcase_set, num_generated, positive_appearance, queueVars>>

\* How many entries survive the pops at the back of a sorted queue.
KeptSize(s) ==
  Cardinality({a \in DOMAIN s : a <= CandidateSetSize /\ s[a].gain # {}})

\* Fault: the gains are not trimmed.
ClearPQUntrimmed ==
  /\ pc = "clear_pq"
  /\ pq' = SubSeq(pq, 1, IF Len(pq) < CandidateSetSize THEN Len(pq) ELSE CandidateSetSize)
  /\ pc' = "weight"
  /\ UNCHANGED <<inputVars, testcase_set, num_generated, countVars,
                 positive_appearance, selected_bitset>>

\* clear_pq: take what the new test case covers off every entry, sort, and
\* pop entries at the back while there are too many or the last is useless.
ClearPQ ==
  /\ pc = "clear_pq"
  /\ LET cut == [a \in DOMAIN pq |-> [pq[a] EXCEPT !.gain = @ \ selected_bitset]]
     IN  \E p \in [DOMAIN pq -> DOMAIN pq] :
           /\ \A a, b \in DOMAIN pq : p[a] = p[b] => a = b
           /\ \A a, b \in DOMAIN pq :
                a < b => Cardinality(cut[p[a]].gain) >= Cardinality(cut[p[b]].gain)
           /\ LET s == [a \in DOMAIN pq |-> cut[p[a]]]
              IN  pq' = SubSeq(s, 1, KeptSize(s))
  /\ pc' = "weight"
  /\ UNCHANGED <<inputVars, testcase_set, num_generated, countVars,
                 positive_appearance, selected_bitset>>

\* Fault: the first row instead of the newest.
UpdateSampleWeightFirst ==
  /\ pc = "weight"
  /\ positive_appearance' = [v \in Var |-> positive_appearance[v] + testcase_set[1][v]]
  /\ pc' = "generate"
  /\ UNCHANGED <<inputVars, testcase_set, num_generated, countVars, queueVars>>

\* UpdateSampleWeightByAppearance.
UpdateSampleWeight ==
  /\ pc = "weight"
  /\ positive_appearance' =
       [v \in Var |-> positive_appearance[v] + testcase_set[num_generated][v]]
  /\ pc' = "generate"
  /\ UNCHANGED <<inputVars, testcase_set, num_generated, countVars, queueVars>>

\* Fault: whatever stands first is taken.
AnyEntry(q, s) == s = Len(q)

\* SelectTestcaseFromCandidateSetByTupleNum: entry s heads the sorted order.
BestEntry(q, s) == \A a \in DOMAIN q : Cardinality(q[a].gain) <= Cardinality(q[s].gain)

\* GenerateCandidateTestcaseSet, SelectTestcaseFromCandidateSetByTupleNum and
\* the test at the end of the round: the selected test case stays unless it
\* would cover nothing new, and then the phase ends.
GenerateTestcase ==
  /\ pc = "generate"
  /\ \E candidates \in [1 .. CandidateSetSize -> Models(clauses)] :
       LET fresh == [a \in 1 .. CandidateSetSize |->
                       [tc |-> candidates[a], gain |-> Gain(candidates[a])]]
           q == pq \o fresh
       IN  \E s \in DOMAIN q :
             /\ BestEntry(q, s)
             /\ pq' = q
             /\ selected_bitset' = q[s].gain
             /\ IF q[s].gain = {}
                THEN /\ pc' = "clear_final"
                     /\ UNCHANGED <<testcase_set, num_generated>>
                ELSE /\ pc' = "update"
                     /\ testcase_set' = Append(testcase_set, q[s].tc)
                     /\ num_generated' = num_generated + 1
  /\ UNCHANGED <<inputVars, countVars, positive_appearance>>

SNext == \/ GenerateInitTestcaseCDCL
         \/ CountTestcase
         \/ ClearPQ
         \/ UpdateSampleWeight
         \/ GenerateTestcase

\* One thread runs the loop and nothing blocks it.
SamplingSpec == SInit /\ [][SNext]_sampleVars /\ WF_sampleVars(SNext)

-----------------------------------------------------------------------------
(* Properties *)

TypeOK ==
  /\ clauses \in Formulas
  /\ upperlimit \in UpperLimits
  /\ testcase_set \in Seq(TestCase)
  /\ num_generated \in Nat
  /\ already_t_wise \in SUBSET Tuple
  /\ num_tuple \in Int
  /\ positive_uncovered \in [Var -> Int]
  /\ negative_uncovered \in [Var -> Int]
  /\ positive_appearance \in [Var -> Nat]
  /\ pq \in Seq(Entry)
  /\ selected_bitset \in SUBSET Tuple

\* The test cases Update2TupleInfo has counted: all but a newest one that
\* waits at the head of the loop.
Uncounted == pc = "update"
Counted   == SubSeq(testcase_set, 1, IF Uncounted THEN num_generated - 1 ELSE num_generated)

\* Every row kept is a valid configuration, and num_generated_testcase_, by
\* which the newest row is found, is the number of rows.
RowsValid ==
  /\ num_generated = Len(testcase_set)
  /\ \A k \in DOMAIN testcase_set : testcase_set[k] \in Models(clauses)

\* The bit set holds exactly the tuples of the counted rows and num_tuple_
\* their number, although both only ever see one row at a time.
CoverageExact ==
  /\ already_t_wise = CoveredBy(Counted)
  /\ num_tuple = Cardinality(already_t_wise)

\* The per-option counters say how many tuples of v = 1 and of v = 0 are
\* missing, although they are only decremented for newly set bits.
CountersExact ==
  \A v \in Var :
    /\ positive_uncovered[v] =
         Cardinality({t \in Tuple \ already_t_wise : Mentions(t, v, 1)})
    /\ negative_uncovered[v] =
         Cardinality({t \in Tuple \ already_t_wise : Mentions(t, v, 0)})

\* The pair get_prob_in hands the sampler for v counts the rows with v = 0
\* and with v = 1: neither is negative and they add up to the rows.
SampleCountsExact ==
  pc = "generate" =>
    \A v \in Var :
      positive_appearance[v] =
        Cardinality({k \in DOMAIN testcase_set : testcase_set[k][v] = 1})

\* A queued gain is computed once and then only trimmed by each newest row,
\* yet it is the true gain when candidates are compared; no useless entry
\* and no more than CandidateSetSize of them stay in the queue.
QueueFresh ==
  pc \in {"weight", "generate"} =>
    /\ Len(pq) <= CandidateSetSize
    /\ \A a \in DOMAIN pq : pq[a].gain = Gain(pq[a].tc) /\ pq[a].gain # {}

\* Every row covers a tuple no earlier row covers.
RowsContribute ==
  \A k \in DOMAIN testcase_set :
    ~(TuplesOf(testcase_set[k]) \subseteq CoveredBy(SubSeq(testcase_set, 1, k - 1)))

\* Unless the limit was hit, the phase ends only when no candidate seen and
\* still remembered could add anything.
EndsExhausted ==
  (pc = "clear_final" /\ num_tuple # upperlimit) =>
    \A a \in DOMAIN pq : TuplesOf(pq[a].tc) \subseteq already_t_wise
=============================================================================
