------------------------------ MODULE PbOCCSAT ------------------------------
(***************************************************************************)
(* PbOCCSATSolver, the local search behind -pure_sls: a try starts at an   *)
(* assignment and flips one option at a time until no clause is false.     *)
(* Everything it decides by is cached (module PbCaches); each flip and     *)
(* each weighting updates the caches by the clauses it touches.            *)
(*                                                                         *)
(* The sampler makes one solver with the default settings and calls it     *)
(* with a start and priorities (given).  The other settings are those      *)
(* print_usage_info lists; no member selects them.  Ties, which the code   *)
(* breaks by priorities, ages and random numbers, and the random picks are *)
(* any choice; the ages that hscore and hscore2 add, which are 0 in the    *)
(* first thousand flips, are left out.                                     *)
(***************************************************************************)
EXTENDS PbCaches

VARIABLES
  pc,
  sat_solution,                \* what get_sat_solution returned
  smoothed                     \* whether weights have fallen in this try

countVars  == <<sat_count, sat_var, sat_var2>>
weightVars == <<clause_weight, avg_clause_weight, delta_total_clause_weight, large_weight_clauses>>
stackVars  == <<unsat_stack, unsatvar_stack, unsatvar_app_count, total_unsat_clause_weight>>
scoreVars  == <<score, break_score, make_score, score2>>
confVars   == <<nvcc_conf_change, cscc_conf_change>>
callVars   == <<instance, clauses, settings, init_soln, sat_solution>>
tryVars    == <<cur_soln, countVars, weightVars, stackVars, scoreVars, confVars,
                nvccdvar_stack, smoothed>>
vars == <<callVars, pc, tryVars, flipvar>>

-----------------------------------------------------------------------------
(* Calls *)

Init ==
  /\ instance \in Instances
  /\ clauses = BuildInstance(instance.file)
  /\ settings = instance.settings
  /\ pc = "idle"
  /\ init_soln = [v \in Var |-> 0]
  /\ cur_soln = init_soln
  /\ sat_count = [c \in ClauseId |-> 0]
  /\ sat_var = [c \in ClauseId |-> NoVar] /\ sat_var2 = sat_var
  /\ clause_weight = [c \in ClauseId |-> 1]
  /\ total_unsat_clause_weight = 0
  /\ avg_clause_weight = 1 /\ delta_total_clause_weight = 0
  /\ large_weight_clauses = <<>>
  /\ unsat_stack = EmptyStack(ClauseId)
  /\ unsatvar_stack = EmptyStack(Var)
  /\ unsatvar_app_count = [v \in Var |-> 0]
  /\ score = [v \in Var |-> 0] /\ score2 = score
  /\ break_score = score /\ make_score = score
  /\ nvcc_conf_change = score /\ cscc_conf_change = score
  /\ nvccdvar_stack = NoneStacked
  /\ flipvar = NoVar
  /\ sat_solution = <<>>
  /\ smoothed = FALSE

\* GetSatTestcaseWithGivenInitSolution: a call with any start.
SetInitSolution ==
  /\ pc = "idle" /\ instance.given
  /\ init_soln' \in TestCase
  /\ settings' = WithPriorities(settings)
  /\ pc' = "init"
  /\ UNCHANGED <<instance, clauses, sat_solution, tryVars, flipvar>>

\* solve() alone
Solve ==
  /\ pc = "idle" /\ ~instance.given
  /\ pc' = "init"
  /\ UNCHANGED <<callVars, tryVars, flipvar>>

\* The promising options: a flip gains and a neighbour has changed.
Promising(v) == score[v] > 0 /\ nvcc_conf_change[v] = 1

\* A cache that no heuristic asks for is not computed and stays as it is.
Cached(name, computed, kept) == IF name \in settings.caches THEN computed ELSE kept

\* init(): a new try; nothing of an earlier one is kept.  sat_var is the last
\* true literal, but init_sat_var2 takes the first two where there are two.
InitTry ==
  /\ pc = "init"
  /\ cur_soln' \in InitialSolutions
  /\ clause_weight' = [c \in ClauseId |-> 1]
  /\ large_weight_clauses' = <<>>
  /\ sat_count' = [c \in ClauseId |-> Cardinality(TrueVars(cur_soln', c))]
  /\ LET pair(c) == "second" \in settings.caches /\ sat_count'[c] = 2
     IN  /\ sat_var' = [c \in ClauseId |->
                          IF sat_count'[c] = 0 THEN NoVar
                          ELSE IF pair(c) THEN TrueSeq(cur_soln', c)[1]
                          ELSE Last(TrueSeq(cur_soln', c))]
         /\ sat_var2' = [c \in ClauseId |->
                           IF pair(c) THEN TrueSeq(cur_soln', c)[2] ELSE sat_var2[c]]
  /\ SetStacks(InitStacks(sat_count'))
  /\ avg_clause_weight' = 1
  /\ delta_total_clause_weight' = 0
  /\ score' = [v \in Var |-> ScoreOf(v, cur_soln', sat_count', clause_weight')]
  /\ break_score' = Cached("break", [v \in Var |-> BreakOf(v, cur_soln', sat_count', clause_weight')],
                           break_score)
  /\ make_score' = Cached("make", [v \in Var |-> MakeOf(v, sat_count', clause_weight')], make_score)
  /\ score2' = Cached("second", [v \in Var |-> Score2Of(v, cur_soln', sat_count', sat_var')], score2)
  /\ nvcc_conf_change' = [v \in Var |-> 1]
  /\ cscc_conf_change' = [v \in Var |-> 1]
  /\ nvccdvar_stack' = StackUp(NoneStacked, [k \in 1 .. NumVar |-> k - 1],
                               {v \in Var : score'[v] > 0})
  /\ smoothed' = FALSE
  /\ pc' = "pick"
  /\ UNCHANGED <<callVars, flipvar>>

searchFrame == <<callVars, tryVars>>
callFrame   == <<instance, clauses, settings, init_soln, tryVars, flipvar>>

NoneFalse == unsat_stack.items = <<>>

\* verify_soln, as get_sat_solution asks it before it hands a solution over.
Verified(soln) == \A c \in ClauseId : TrueVars(soln, c) # {}

Solved ==
  /\ pc = "pick" /\ NoneFalse
  /\ sat_solution' = IF Verified(cur_soln) THEN cur_soln ELSE [v \in Var |-> -1]
  /\ pc' = "idle"
  /\ UNCHANGED callFrame

\* maxi_flips is used up: the next try starts over.
OutOfFlips ==
  /\ pc = "pick" /\ ~NoneFalse
  /\ pc' = "init"
  /\ UNCHANGED <<searchFrame, flipvar>>

\* It was the last try: solve returns false, and
\* GetSatTestcaseWithGivenInitSolution no defined value.
OutOfTries ==
  /\ pc = "pick" /\ ~NoneFalse
  /\ sat_solution' = <<>>
  /\ pc' = "idle"
  /\ UNCHANGED callFrame

-----------------------------------------------------------------------------
(* pick_var_pbocc *)

BestBy(S, rank) == {v \in S : \A u \in S : rank[u] <= rank[v]}

\* C++ division rounds towards zero.
Quotient(a, b) == IF a < 0 THEN -((-a) \div b) ELSE a \div b

Hscore(gains) == [v \in Var |-> gains[v] + Quotient(score2[v], HscoreScale)]

\* select_var_by_..._break_tie_in_set
TieBreak(S) ==
  CASE settings.tie = "any"     -> S
    [] settings.tie = "hscore"  -> BestBy(S, Hscore(score))
    [] settings.tie = "hscore2" -> BestBy(S, score2)

\* The best option, or the second best when the best is the youngest.
Novelty(S, gains) ==
  BestBy(S, gains) \cup UNION {BestBy(S \ {v}, gains) : v \in BestBy(S, gains)}

\* select_var_from_clause_..._heuristic
FromClause(c, gains) ==
  CASE settings.var = "any"     -> VarsOf(c)
    [] settings.var = "score"   -> BestBy(VarsOf(c), gains)
    [] settings.var = "hscore"  -> BestBy(VarsOf(c), Hscore(gains))
    [] settings.var = "hscore2" -> BestBy(VarsOf(c), score2)
    [] settings.var = "novelty" -> Novelty(VarsOf(c), gains)

\* select_unsat_clause_..._heuristic: by chance, priority or weight.
FalseClause == ToSet(unsat_stack.items)

\* The greedy heuristics in the order they are asked; an empty set is their -1.
Stacked    == ToSet(nvccdvar_stack.items)
GainBest(S) == TieBreak({v \in BestBy(S, score) : score[v] > 0})
ByCscc == IF settings.double_cc THEN GainBest({v \in Stacked : cscc_conf_change[v] = 1}) ELSE {}
ByNvcc == GainBest(Stacked)
ByAspiration ==
  IF settings.aspiration
  THEN TieBreak(BestBy({v \in ToSet(unsatvar_stack.items) : score[v] > avg_clause_weight}, score))
  ELSE {}

Picking == pc = "pick" /\ ~NoneFalse

\* select_var_pac_heuristic: any option of any clause.
PickAnywhere ==
  /\ Picking /\ settings.pac
  /\ flipvar' \in UNION {VarsOf(c) : c \in ClauseId}
  /\ pc' = "flip"
  /\ UNCHANGED searchFrame

\* The first diversification
PickDiverse ==
  /\ Picking /\ settings.first_div
  /\ flipvar' \in UNION {FromClause(c, score) : c \in FalseClause}
  /\ pc' = "flip"
  /\ UNCHANGED searchFrame

PickGreedy ==
  /\ Picking
  /\ flipvar' \in IF ByCscc # {} THEN ByCscc
                  ELSE IF ByNvcc # {} THEN ByNvcc
                  ELSE ByAspiration
  /\ pc' = "flip"
  /\ UNCHANGED searchFrame

-----------------------------------------------------------------------------
(* Weighting, when no heuristic has a choice *)

Weights ==
  [clause |-> clause_weight, total |-> total_unsat_clause_weight,
   avg |-> avg_clause_weight, delta |-> delta_total_clause_weight,
   large |-> large_weight_clauses, score |-> score, stack |-> nvccdvar_stack,
   fell |-> smoothed,
   at |-> 1]   \* the position in the list of large weights, for PAWS

\* What a gain must be for the option to be stacked after a weighting.
PromisingBy(gains) == {v \in Var : gains[v] > 0 /\ nvcc_conf_change[v] = 1}

\* The gain of v after each of its false clauses weighs one more.
RaisedScore(v) ==
  score[v] + (IF v \in ToSet(unsatvar_stack.items) THEN unsatvar_app_count[v] ELSE 0)

\* Fault: delta is not lowered.
DeltaKept(delta, over) == delta

\* num_clauses is taken off delta when the average goes up.
DeltaLeft(delta, over) == IF over THEN delta - Len(clauses) ELSE delta

Over == delta_total_clause_weight + Len(unsat_stack.items) > Len(clauses)

\* The false clauses weigh one more, the gains follow, and options that
\* became promising are stacked.
Raised ==
  LET gains == [v \in Var |-> RaisedScore(v)]
  IN  [Weights EXCEPT
         !.clause = [c \in ClauseId |-> @[c] + (IF c \in FalseClause THEN 1 ELSE 0)],
         !.total = @ + Len(unsat_stack.items),
         !.avg = IF Over THEN @ + 1 ELSE @,
         !.delta = DeltaLeft(@ + Len(unsat_stack.items), Over),
         !.score = gains,
         !.stack = StackUp(@, unsatvar_stack.items, PromisingBy(gains))]

\* clause_weight * 0.3, at least 1.
Smoothed(w) == IF (w * 3) \div 10 < 1 THEN 1 ELSE (w * 3) \div 10

\* smooth_clause_weight_swt computes gains anew and leaves the stack.
SmoothedFrom(r) ==
  LET light == [c \in ClauseId |-> Smoothed(r.clause[c])]
      sum   == SumOver(ClauseId, light)
  IN  [r EXCEPT
         !.clause = light,
         !.total = SumOver({c \in ClauseId : sat_count[c] = 0}, light),
         !.score = [v \in Var |->
            SumOver({c \in ClausesOf(v) : sat_count[c] = 0}, light)
              - SumOver({c \in ClauseId : sat_count[c] = 1 /\ sat_var[c] = v}, light)],
         !.avg = sum \div Len(clauses),
         !.delta = sum % Len(clauses),
         !.fell = TRUE]

\* clause_weight_scheme_swt
SwtWeights ==
  {IF Over /\ Raised.avg > WeightThreshold THEN SmoothedFrom(Raised) ELSE Raised}

\* The list of large weights when its item k leaves: the last one takes its
\* place.
LargeLeft(list, k) == SubSeq([list EXCEPT ![k] = Last(list)], 1, Len(list) - 1)

\* dec_clause_weight_paws: each true clause on the list weighs one less; a
\* clause that leaves it lets another take its place at position t.at.
LoweredAt(t) ==
  LET c     == t.large[t.at]
      w     == IF t.clause[c] > 1 THEN t.clause[c] - 1 ELSE 1
      delta == t.delta - (t.clause[c] - w)
  IN  IF sat_count[c] = 0 THEN [t EXCEPT !.at = @ + 1]
      ELSE [t EXCEPT
              !.clause[c] = w,
              !.delta = IF delta < 0 THEN delta + Len(clauses) ELSE delta,
              !.avg = IF delta < 0 THEN @ - 1 ELSE @,
              !.large = IF w = 1 THEN LargeLeft(@, t.at) ELSE @,
              !.at = IF w = 1 THEN @ ELSE @ + 1,
              !.score = [v \in Var |->
                 @[v] + (IF sat_count[c] = 1 /\ sat_var[c] = v THEN 1 ELSE 0)]]

\* Of the options that gained, those of clauses still on the list are stacked.
Lowered ==
  LET all == Len(large_weight_clauses)
      u[k \in 0 .. all] == IF k = 0 THEN Weights ELSE LoweredAt(u[k - 1])
      t    == u[all]
      sole == Filtered(t.large, {c \in ClauseId : sat_count[c] = 1})
  IN  [t EXCEPT !.stack = StackUp(@, [k \in DOMAIN sole |-> sat_var[sole[k]]],
                                  PromisingBy(t.score)),
                !.fell = TRUE]

\* inc_clause_weight_paws also lists the clauses that now weigh 2.
Increased ==
  [Raised EXCEPT
     !.large = @ \o Filtered(unsat_stack.items, {c \in ClauseId : Raised.clause[c] = 2})]

\* clause_weight_scheme_paws
PawsWeights ==
  {w \in {Increased} : \A c \in ClauseId : w.clause[c] <= MaxWeight}
    \cup (IF Len(large_weight_clauses) > LargeThreshold THEN {Lowered} ELSE {})

\* No heuristic has a choice: the weights change, then an option of a false
\* clause is picked.
PickWeighted ==
  /\ Picking /\ ByCscc = {} /\ ByNvcc = {} /\ ByAspiration = {}
  /\ \E w \in CASE settings.weights = "none" -> {Weights}
                [] settings.weights = "swt"  -> SwtWeights
                [] settings.weights = "paws" -> PawsWeights :
       /\ clause_weight' = w.clause
       /\ total_unsat_clause_weight' = w.total
       /\ avg_clause_weight' = w.avg
       /\ delta_total_clause_weight' = w.delta
       /\ large_weight_clauses' = w.large
       /\ score' = w.score
       /\ nvccdvar_stack' = w.stack
       /\ smoothed' = w.fell
       /\ flipvar' \in UNION {FromClause(c, w.score) : c \in FalseClause}
  /\ pc' = "flip"
  /\ UNCHANGED <<callVars, cur_soln, countVars, unsat_stack, unsatvar_stack, unsatvar_app_count,
                 break_score, make_score, score2, confVars>>

-----------------------------------------------------------------------------
(* flip and update *)

\* Fault: the option left alone is not looked up.
SoleVarOld(soln, c) == sat_var[c]

\* The option that is left to satisfy c: the first true literal.
SoleVar(soln, c) == TrueSeq(soln, c)[1]

Flip ==
  /\ pc = "flip"
  /\ LET soln == [cur_soln EXCEPT ![flipvar] = 1 - @]
         up(c) == flipvar \in TrueVars(soln, c)
     IN  /\ cur_soln' = soln
         /\ sat_count' = [c \in ClauseId |->
                            IF c \notin ClausesOf(flipvar) THEN sat_count[c]
                            ELSE IF up(c) THEN sat_count[c] + 1 ELSE sat_count[c] - 1]
         /\ sat_var' = [c \in ClauseId |->
                          IF c \notin ClausesOf(flipvar) \/ sat_count'[c] # 1 THEN sat_var[c]
                          ELSE IF up(c) THEN flipvar ELSE SoleVar(soln, c)]
         /\ SetStacks(FlippedStacks(soln, sat_count'))
  /\ pc' = "update"
  /\ UNCHANGED <<callVars, sat_var2, weightVars, scoreVars, confVars, nvccdvar_stack, flipvar, smoothed>>

\* update_nvcc_conf_change, update_cscc_conf_change
NvccChanged ==
  [v \in Var |-> IF v = flipvar THEN 0
                 ELSE IF v \in Neighbors(flipvar) THEN 1 ELSE nvcc_conf_change[v]]

CsccChanged ==
  [v \in Var |-> IF v = flipvar THEN 0
                 ELSE IF \E c \in ClausesOf(flipvar) \cap ClausesOf(v) : Turned(c) THEN 1
                 ELSE cscc_conf_change[v]]

Update ==
  /\ pc = "update"
  /\ score' = Updated(score, GainChange)
  /\ break_score' = Cached("break", Updated(break_score, BreakChange), break_score)
  /\ make_score' = Cached("make", Updated(make_score, MakeChange), make_score)
  /\ sat_var' = Cached("second", [c \in ClauseId |-> PairVars[c][1]], sat_var)
  /\ sat_var2' = Cached("second", [c \in ClauseId |-> PairVars[c][2]], sat_var2)
  /\ score2' = Cached("second", Updated(score2, Score2Change), score2)
  /\ nvcc_conf_change' = NvccChanged
  /\ cscc_conf_change' = CsccChanged
  /\ nvccdvar_stack' = StackUp(Cleaned(nvccdvar_stack, score', nvcc_conf_change'),
                               NeighborSeq(flipvar), {v \in Var : score'[v] > 0})
  /\ flipvar' = NoVar
  /\ pc' = "pick"
  /\ UNCHANGED <<callVars, cur_soln, sat_count, weightVars, stackVars, smoothed>>

Next == \/ SetInitSolution \/ Solve \/ InitTry \/ Solved \/ OutOfFlips \/ OutOfTries
        \/ PickAnywhere \/ PickDiverse \/ PickGreedy \/ PickWeighted
        \/ Flip \/ Update

Spec == Init /\ [][Next]_vars

-----------------------------------------------------------------------------
(* Properties *)

\* During a try the caches are in use; between flip and update the gains are
\* those of the assignment before the flip.
Searching == pc \in {"pick", "flip", "update"}
GainsKept == pc \in {"pick", "flip"}

\* The counts of true literals are exact, and of a clause with one of them
\* sat_var is the option that makes it true.
CountsExact ==
  Searching =>
    \A c \in ClauseId :
      /\ sat_count[c] = Cardinality(TrueVars(cur_soln, c))
      /\ sat_count[c] = 1 => TrueVars(cur_soln, c) = {sat_var[c]}

FalseClauses(soln) == {c \in ClauseId : TrueVars(soln, c) = {}}

\* calc_current_total_unsat_clause_weight
FalseWeight(soln) == SumOver(FalseClauses(soln), clause_weight)

Flipped(v) == [cur_soln EXCEPT ![v] = 1 - @]

\* Items are distinct and the index array finds each of them.
Indexed(s) == \A k \in DOMAIN s.items : s.index[s.items[k]] = k

\* The stacks hold exactly the false clauses and their options, through any
\* number of pops out of the middle; counts and weight go with them.
StacksExact ==
  Searching =>
    /\ Indexed(unsat_stack) /\ ToSet(unsat_stack.items) = FalseClauses(cur_soln)
    /\ Indexed(unsatvar_stack)
    /\ \A v \in Var :
         /\ unsatvar_app_count[v] = Cardinality(ClausesOf(v) \cap FalseClauses(cur_soln))
         /\ v \in ToSet(unsatvar_stack.items) <=> unsatvar_app_count[v] > 0
    /\ total_unsat_clause_weight = FalseWeight(cur_soln)

\* A score, kept by increments through flips, weightings, smoothings and
\* lowerings, is what flipping the option really takes off the weight of false
\* clauses.
ScoresExact ==
  GainsKept =>
    \A v \in Var : score[v] = FalseWeight(cur_soln) - FalseWeight(Flipped(v))

\* break_score and make_score are the weights of the clauses a flip would turn
\* false and true.  Weighting leaves them out, so this is about the searches
\* that do no weighting.
BreakMakeExact ==
  GainsKept /\ settings.weights = "none" =>
    \A v \in Var :
      LET before == FalseClauses(cur_soln)
          after  == FalseClauses(Flipped(v))
      IN  /\ "break" \in settings.caches =>
               break_score[v] = SumOver(after \ before, clause_weight)
          /\ "make" \in settings.caches =>
               make_score[v] = SumOver(before \ after, clause_weight)

TrueTwice(soln) == {c \in ClauseId : Cardinality(TrueVars(soln, c)) = 2}
TrueOnce(soln)  == {c \in ClauseId : Cardinality(TrueVars(soln, c)) = 1}

\* A clause with two true literals has both options noted, through flips that
\* bring it to two from either side, and score2 is the number of clauses a
\* flip takes from one true literal to two, less those it takes back.
SecondScoresExact ==
  GainsKept /\ "second" \in settings.caches =>
    /\ \A c \in TrueTwice(cur_soln) : TrueVars(cur_soln, c) = {sat_var[c], sat_var2[c]}
    /\ \A v \in Var :
         score2[v] = Cardinality(TrueOnce(cur_soln) \cap TrueTwice(Flipped(v)))
                       - Cardinality(TrueTwice(cur_soln) \cap TrueOnce(Flipped(v)))

\* The average that aspiration and smoothing go by and its remainder account
\* for the weights of all clauses, of which none falls below 1; smoothing keeps
\* the average at its threshold, and PAWS lists each clause heavier than 1 once.
WeightsBalanced ==
  Searching =>
    /\ \A c \in ClauseId : clause_weight[c] >= 1
    /\ SumOver(ClauseId, clause_weight) =
         avg_clause_weight * Len(clauses) + delta_total_clause_weight
    /\ delta_total_clause_weight \in 0 .. Len(clauses)
    /\ settings.weights = "swt" => avg_clause_weight <= WeightThreshold
    /\ settings.weights = "paws" =>
         /\ ToSet(large_weight_clauses) = {c \in ClauseId : clause_weight[c] > 1}
         /\ \A j, k \in DOMAIN large_weight_clauses :
              large_weight_clauses[j] = large_weight_clauses[k] => j = k

\* The greedy heuristics look at the stack alone: everything on it is worth
\* flipping, and in a try whose weights have not fallen everything worth
\* flipping is on it.
StackPromising ==
  pc = "pick" =>
    /\ \A v \in Var : nvccdvar_stack.in[v] <=> v \in Stacked
    /\ \A j, k \in DOMAIN nvccdvar_stack.items :
         nvccdvar_stack.items[j] = nvccdvar_stack.items[k] => j = k
    /\ \A v \in Stacked : Promising(v)
    /\ ~smoothed => \A v \in Var : Promising(v) => v \in Stacked

\* What a successful call hands back is a valid configuration of the file,
\* tautologies and repeated literals included: the check in get_sat_solution
\* never fails.
ResultValid == sat_solution # <<>> => sat_solution \in Models(instance.file)
=============================================================================
