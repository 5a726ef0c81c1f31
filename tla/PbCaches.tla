------------------------------ MODULE PbCaches ------------------------------
(***************************************************************************)
(* The data of PbOCCSATSolver: the clauses as build_instance leaves them,  *)
(* the settings, which the code keeps as pointers to member functions, and *)
(* the caches the search decides by: how many literals of a clause are     *)
(* true and which options make it true, the false clauses and their        *)
(* options on stacks, the gains of first and second order, the clause      *)
(* weights, and the stack of promising options.  The operators say what    *)
(* init() computes and what one flip adds.                                 *)
(*                                                                         *)
(* Options are numbered from 0 and clauses from 1.                         *)
(***************************************************************************)
EXTENDS CNF, FiniteSetsExt, SequencesExt

CONSTANTS
  Instances,          \* the files a run may be built from, with settings
  WeightThreshold,    \* para_clause_weight_threshold_swt, 300 in the program
  LargeThreshold,     \* large_clause_weight_count_threshold, 10
  HscoreScale,        \* para_d_hscore, 8
  MaxWeight           \* bound: the largest weight PAWS raises a clause to

\* Which functions the pointers select, as print_usage_info offers them.  All
\* choices that go by a random number, a priority, an age or a probability
\* are "any".
Settings ==
  [init      : {"given", "random", "all", "each"},
   caches    : SUBSET {"break", "make", "second"},
   weights   : {"none", "swt", "paws"},
   pac       : BOOLEAN, first_div  : BOOLEAN,
   double_cc : BOOLEAN, aspiration : BOOLEAN,
   tie       : {"any", "hscore", "hscore2"},
   var       : {"any", "score", "hscore", "hscore2", "novelty"}]

\* default_algorithm_settings
DefaultSettings ==
  [init |-> "all", caches |-> {}, weights |-> "swt",
   pac |-> FALSE, first_div |-> FALSE, double_cc |-> TRUE, aspiration |-> TRUE,
   tie |-> "any", var |-> "any"]

\* A file may repeat literals and hold tautologies, but no empty clause; what
\* a heuristic reads is kept.
ASSUME SearchAssumption ==
  /\ WeightThreshold \in Nat \ {0} /\ HscoreScale \in Nat \ {0}
  /\ LargeThreshold \in Nat /\ MaxWeight \in Nat
  /\ \A inst \in Instances :
       /\ inst.file \in Formula /\ inst.settings \in Settings /\ inst.given \in BOOLEAN
       /\ \A c \in DOMAIN inst.file : Len(inst.file[c]) > 0
       /\ {inst.settings.tie, inst.settings.var} \cap {"hscore", "hscore2"} # {}
            => "second" \in inst.settings.caches

NoVar == -1

VARIABLES
  instance,                    \* the file, its first settings, and whether
                               \* calls come with a start and priorities
  clauses,                     \* what build_instance made of the file
  settings,
  init_soln, cur_soln,
  sat_count, sat_var,          \* per clause
  sat_var2,
  clause_weight,
  total_unsat_clause_weight,
  avg_clause_weight, delta_total_clause_weight,
  large_weight_clauses,
  unsat_stack,                 \* of clauses, with index_in_unsat_stack
  unsatvar_stack,              \* of options, with index_in_unsatvar_stack
  unsatvar_app_count,
  score, break_score, make_score, score2,
  nvcc_conf_change, cscc_conf_change,
  nvccdvar_stack,              \* of options, with already_in_nvccdvar_stack
  flipvar

ClauseId == DOMAIN clauses

\* The items of s that are in S, in their order.
Filtered(s, S) ==
  LET f[k \in 0 .. Len(s)] ==
        IF k = 0 THEN <<>> ELSE IF s[k] \in S THEN Append(f[k - 1], s[k]) ELSE f[k - 1]
  IN  f[Len(s)]

VarsOf(c)    == {LitVar(clauses[c][p]) : p \in DOMAIN clauses[c]}
VarSeq(c)    == [p \in DOMAIN clauses[c] |-> LitVar(clauses[c][p])]
ClausesOf(v) == {c \in ClauseId : v \in VarsOf(c)}

\* build_neighbor_relation
Neighbors(v) == (UNION {VarsOf(c) : c \in ClausesOf(v)}) \ {v}

TrueVars(s, c) == {LitVar(clauses[c][p]) : p \in {q \in DOMAIN clauses[c] : Holds(s, clauses[c][q])}}

\* The options that make c true, in the order of the clause.
TrueSeq(s, c) == Filtered(VarSeq(c), TrueVars(s, c))

Tautology(cl) == \E p, q \in DOMAIN cl : cl[p] = -cl[q]

WithoutRepeats(cl) ==
  LET f[p \in 0 .. Len(cl)] ==
        IF p = 0 THEN <<>>
        ELSE IF Contains(f[p - 1], cl[p]) THEN f[p - 1] ELSE Append(f[p - 1], cl[p])
  IN  f[Len(cl)]

\* build_instance: repeated literals are dropped and so are tautologies.
BuildInstance(file) ==
  LET kept == Filtered(file, {cl \in ToSet(file) : ~Tautology(cl)})
  IN  [c \in DOMAIN kept |-> WithoutRepeats(kept[c])]

\* The conditions on num_clauses / num_vars under which
\* set_var_flip_priority_ass_aware turns to random walks.
WalkMode ==
  LET m == Len(clauses)
  IN  \/ 2 * m < 3 * NumVar /\ NumVar < 1500
      \/ 92 * NumVar < 10 * m /\ 10 * m < 93 * NumVar
      \/ 3 * NumVar < 2 * m /\ m < 2 * NumVar
      \/ 277 * NumVar < 100 * m /\ 100 * m < 278 * NumVar

\* set_init_solution, then set_var_flip_priority_ass_aware.
WithPriorities(s) ==
  [s EXCEPT !.init = "given", !.tie = "any", !.var = "any",
            !.double_cc = @ /\ ~WalkMode, !.aspiration = @ /\ ~WalkMode,
            !.pac = @ \/ WalkMode, !.first_div = @ \/ WalkMode]

\* The assignments a try may start from.
LitCount(v, b) == Cardinality({c \in ClauseId : \E p \in DOMAIN clauses[c] : clauses[c][p] = ToLit(v, b)})

InitialSolutions ==
  LET most(b) == SumOver(ClauseId, [c \in ClauseId |->
                           Cardinality({p \in DOMAIN clauses[c] : LitValue(clauses[c][p]) = b})])
  IN  CASE settings.init = "given"  -> {init_soln}
        [] settings.init = "random" -> TestCase
        [] settings.init = "all"    -> {[v \in Var |-> IF most(1) > most(0) THEN 1 ELSE 0]}
        [] settings.init = "each"   ->
             {[v \in Var |-> IF LitCount(v, 1) > LitCount(v, 0) THEN 1 ELSE 0]}

-----------------------------------------------------------------------------
(* Stacks with an index array; an entry of the array for an item that is   *)
(* not on the stack is never read and kept at 0.                           *)

EmptyStack(S) == [items |-> <<>>, index |-> [x \in S |-> 0]]

Push(s, x) == [items |-> Append(s.items, x),
               index |-> [s.index EXCEPT ![x] = Len(s.items) + 1]]

\* Fault: the item moved keeps its old index.
SwapPopStale(s, x) ==
  [items |-> SubSeq([s.items EXCEPT ![s.index[x]] = Last(s.items)], 1, Len(s.items) - 1),
   index |-> [s.index EXCEPT ![x] = 0]]

\* The last item takes the place of x.
SwapPop(s, x) ==
  [items |-> SubSeq([s.items EXCEPT ![s.index[x]] = Last(s.items)], 1, Len(s.items) - 1),
   index |-> [s.index EXCEPT ![Last(s.items)] = s.index[x], ![x] = 0]]

\* Fault: the clause is counted with its options but not stacked.
UnsatUnstacked(st, c, w) ==
  [st EXCEPT !.app = [v \in Var |-> @[v] + (IF v \in VarsOf(c) THEN 1 ELSE 0)],
             !.total = @ + w]

\* An option is in one false clause more, or less.
CountedOnce(t, v) ==
  [t EXCEPT !.app[v] = @ + 1, !.var = IF t.app[v] = 0 THEN Push(@, v) ELSE @]

CountedOff(t, v) ==
  [t EXCEPT !.app[v] = @ - 1, !.var = IF t.app[v] = 1 THEN SwapPop(@, v) ELSE @]

\* Clause c turns false, or true, in the stacks st: unsat and sat with the
\* loops over its options.
Unsat(st, c, w) ==
  LET t[p \in 0 .. Len(clauses[c])] ==
        IF p = 0 THEN [st EXCEPT !.unsat = Push(@, c), !.total = @ + w]
        ELSE CountedOnce(t[p - 1], VarSeq(c)[p])
  IN  t[Len(clauses[c])]

Sat(st, c, w) ==
  LET t[p \in 0 .. Len(clauses[c])] ==
        IF p = 0 THEN [st EXCEPT !.unsat = SwapPop(@, c), !.total = @ - w]
        ELSE CountedOff(t[p - 1], VarSeq(c)[p])
  IN  t[Len(clauses[c])]

\* init: every clause without a true literal is stacked, with weight 1.
InitStacks(count) ==
  LET st[c \in 0 .. Len(clauses)] ==
        IF c = 0 THEN [unsat |-> EmptyStack(ClauseId), var |-> EmptyStack(Var),
                       app |-> [v \in Var |-> 0], total |-> 0]
        ELSE IF count[c] = 0 THEN Unsat(st[c - 1], c, 1) ELSE st[c - 1]
  IN  st[Len(clauses)]

\* nvccdvar_stack carries a flag per option instead of an index.
NoneStacked == [items |-> <<>>, in |-> [v \in Var |-> FALSE]]

StackOne(t, v, S) ==
  IF v \in S /\ ~t.in[v]
  THEN [items |-> Append(t.items, v), in |-> [t.in EXCEPT ![v] = TRUE]] ELSE t

\* Those options of the sequence vs that are in S go on the stack s.
StackUp(s, vs, S) ==
  LET t[k \in 0 .. Len(vs)] == IF k = 0 THEN s ELSE StackOne(t[k - 1], vs[k], S)
  IN  t[Len(vs)]

Stacks == [unsat |-> unsat_stack, var |-> unsatvar_stack,
           app |-> unsatvar_app_count, total |-> total_unsat_clause_weight]

\* flip: the clauses of flipvar that soln makes true, and those it leaves false.
FlippedStacks(soln, count) ==
  LET st[c \in 0 .. Len(clauses)] ==
        IF c = 0 THEN Stacks
        ELSE IF c \in ClausesOf(flipvar) /\ flipvar \in TrueVars(soln, c) /\ count[c] = 1
             THEN Sat(st[c - 1], c, clause_weight[c])
        ELSE IF c \in ClausesOf(flipvar) /\ flipvar \notin TrueVars(soln, c) /\ count[c] = 0
             THEN Unsat(st[c - 1], c, clause_weight[c])
        ELSE st[c - 1]
  IN  st[Len(clauses)]

SetStacks(st) == /\ unsat_stack' = st.unsat
                 /\ unsatvar_stack' = st.var
                 /\ unsatvar_app_count' = st.app
                 /\ total_unsat_clause_weight' = st.total

-----------------------------------------------------------------------------
(* What init() computes from the counts of true literals *)

\* What flipping v gains, as init_score computes it from the other caches.
ScoreOf(v, soln, count, weight) ==
  SumOver(ClausesOf(v),
          [c \in ClauseId |-> IF count[c] = 0 THEN weight[c]
                              ELSE IF count[c] = 1 /\ v \in TrueVars(soln, c) THEN -weight[c]
                              ELSE 0])

BreakOf(v, soln, count, weight) ==
  SumOver({c \in ClausesOf(v) : count[c] = 1 /\ v \in TrueVars(soln, c)}, weight)

MakeOf(v, count, weight) ==
  SumOver({c \in ClausesOf(v) : count[c] = 0}, weight)

\* What flipping v does to clauses with one or two true literals.
Score2Of(v, soln, count, sole) ==
  Cardinality({c \in ClausesOf(v) : count[c] = 1 /\ v # sole[c]})
    - Cardinality({c \in ClausesOf(v) : count[c] = 2 /\ v \in TrueVars(soln, c)})

-----------------------------------------------------------------------------
(* What one flip adds.  After it, the literal of flipvar in c is true.     *)

NowTrue(c) == flipvar \in TrueVars(cur_soln, c)

\* Fault: flipvar's own change of sign is left out.
GainChangeOnce(v, c) ==
  LET w == clause_weight[c]
      sole == IF v = sat_var[c] THEN w ELSE 0
  IN  IF NowTrue(c)
      THEN CASE sat_count[c] = 2 -> sole [] sat_count[c] = 1 -> -w [] OTHER -> 0
      ELSE CASE sat_count[c] = 1 -> -sole [] sat_count[c] = 0 -> w [] OTHER -> 0

\* update_score: what clause c of flipvar adds to the gain of its option v.
GainChange(v, c) ==
  LET w == clause_weight[c]
      sole == IF v = sat_var[c] THEN w ELSE 0
      own  == IF v = flipvar THEN w ELSE 0
  IN  IF NowTrue(c)
      THEN CASE sat_count[c] = 2 -> sole [] sat_count[c] = 1 -> -sole - w [] OTHER -> 0
      ELSE CASE sat_count[c] = 1 -> -sole [] sat_count[c] = 0 -> w + own [] OTHER -> 0

\* Fault: an option that no longer satisfies c alone goes on breaking it.
BreakChangeKept(v, c) ==
  LET sole == IF v = sat_var[c] THEN clause_weight[c] ELSE 0
      own  == IF v = flipvar THEN clause_weight[c] ELSE 0
  IN  IF NowTrue(c)
      THEN IF sat_count[c] = 1 THEN sole ELSE 0
      ELSE CASE sat_count[c] = 1 -> sole [] sat_count[c] = 0 -> -own [] OTHER -> 0

\* update_break_score, update_make_score
BreakChange(v, c) ==
  LET sole == IF v = sat_var[c] THEN clause_weight[c] ELSE 0
      own  == IF v = flipvar THEN clause_weight[c] ELSE 0
  IN  IF NowTrue(c)
      THEN CASE sat_count[c] = 2 -> -sole [] sat_count[c] = 1 -> sole [] OTHER -> 0
      ELSE CASE sat_count[c] = 1 -> sole [] sat_count[c] = 0 -> -own [] OTHER -> 0

MakeChange(v, c) ==
  IF NowTrue(c)
  THEN IF sat_count[c] = 1 THEN -clause_weight[c] ELSE 0
  ELSE IF sat_count[c] = 0 THEN clause_weight[c] ELSE 0

\* Fault: only the clauses that gain a second true literal are seen.
PairVarsOnGain ==
  [c \in ClauseId |->
     <<sat_var[c], IF c \in ClausesOf(flipvar) /\ sat_count[c] = 2 /\ NowTrue(c)
                   THEN flipvar ELSE sat_var2[c]>>]

\* update_sat_var2: the two options of a clause with two true literals; the
\* other one is still in sat_var when flipvar joined it.
PairVars ==
  [c \in ClauseId |->
     IF c \notin ClausesOf(flipvar) \/ sat_count[c] # 2 THEN <<sat_var[c], sat_var2[c]>>
     ELSE IF NowTrue(c) THEN <<sat_var[c], flipvar>>
     ELSE TrueSeq(cur_soln, c)]

\* update_score2, after update_sat_var2
Score2Change(v, c) ==
  LET pair == IF v \in {PairVars[c][1], PairVars[c][2]} THEN 1 ELSE 0
      own  == IF v = flipvar THEN 1 ELSE 0
  IN  IF NowTrue(c)
      THEN CASE sat_count[c] = 3 -> pair
             [] sat_count[c] = 2 -> -own - 1
             [] sat_count[c] = 1 -> -own + 1
             [] OTHER -> 0
      ELSE CASE sat_count[c] = 2 -> -pair
             [] sat_count[c] = 1 -> own + 1
             [] sat_count[c] = 0 -> own - 1
             [] OTHER -> 0

\* A cache f after the flip, by what each clause of flipvar adds.
Updated(f, change(_, _)) ==
  [v \in Var |-> f[v] + SumOver(ClausesOf(flipvar) \cap ClausesOf(v),
                                [c \in ClauseId |-> change(v, c)])]

\* Fault: the flag of an option taken off stays set.
CleanedFlagged(s, gains, conf) ==
  [s EXCEPT !.items = Filtered(@, {v \in Var : gains[v] > 0 /\ conf[v] # 0})]

\* The top takes the place of the option at k.
TakenOff(t, k) ==
  [items |-> SubSeq([t.items EXCEPT ![k] = Last(t.items)], 1, Len(t.items) - 1),
   in    |-> [t.in EXCEPT ![t.items[k]] = FALSE]]

\* The loop from the top of nvccdvar_stack: every option that is no longer
\* promising is taken off.
Cleaned(s, gains, conf) ==
  LET top == Len(s.items)
      t[a \in 0 .. top] ==
        IF a = 0 THEN s
        ELSE LET v == t[a - 1].items[top - a + 1]
             IN  IF gains[v] > 0 /\ conf[v] # 0 THEN t[a - 1] ELSE TakenOff(t[a - 1], top - a + 1)
  IN  t[top]

\* var_neighbor; an option met twice is stacked once all the same.
NeighborSeq(v) ==
  LET met[c \in 0 .. Len(clauses)] ==
        IF c = 0 THEN <<>>
        ELSE IF v \in VarsOf(c) THEN met[c - 1] \o Filtered(VarSeq(c), Var \ {v})
        ELSE met[c - 1]
  IN  met[Len(clauses)]

\* update_cscc_conf_change: c has become true or false by the flip.
Turned(c) == (NowTrue(c) /\ sat_count[c] = 1) \/ (~NowTrue(c) /\ sat_count[c] = 0)
=============================================================================
