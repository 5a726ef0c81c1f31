--------------------------- MODULE FinalModifying ---------------------------
(***************************************************************************)
(* The whole program with final strategy 3 (shuffle) or 4 (no shuffle),    *)
(* choose_final_solution_modifying: start each row from the stored         *)
(* solution of the first uncovered tuple, then push further uncovered      *)
(* tuples into it, keeping in clause_truecount how many literals of each   *)
(* clause the row makes true.                                              *)
(***************************************************************************)
EXTENDS FinalScan, Functions

CONSTANT Shuffles   \* the values of shf a run may have: strategy 3 and 4

ASSUME ShufflesAssumption == Shuffles \subseteq BOOLEAN

VARIABLES tupleids,          \* the uncovered tuples, in their current order
          row,               \* tc
          asgn_fixed,
          clause_truecount,
          try,               \* i of the loops over tupleids, 1-based
          tmp_tupleids       \* the tuples found still uncovered

rowVars == <<tupleids, row, asgn_fixed, clause_truecount, try, tmp_tupleids>>
vars    == <<sampleVars, scanVars, rowVars>>

Init == /\ FInit
        /\ tupleids = <<>>
        /\ row = [v \in Var |-> 0]
        /\ asgn_fixed = [v \in Var |-> FALSE]
        /\ clause_truecount = [c \in DOMAIN clauses |-> 0]
        /\ try = 1
        /\ tmp_tupleids = <<>>

SampleStep     == Sample /\ UNCHANGED rowVars
ClearFinalStep == ClearFinal /\ UNCHANGED rowVars
ScanStep       == FindUncoveredTuples(TRUE) /\ UNCHANGED rowVars

Identity(m) == [k \in 1 .. m |-> k]

StartChoosing ==
  /\ ScanDone
  /\ LET n == Len(uncovered_tuples)
     IN  \E shf \in Shuffles :
           tupleids' \in IF shf THEN Bijection(1 .. n, 1 .. n) ELSE {Identity(n)}
  /\ pc' = "choose"
  /\ UNCHANGED <<inputVars, testcase_set, num_generated, countVars, positive_appearance,
                 queueVars, scanVars, row, asgn_fixed, clause_truecount, try, tmp_tupleids>>

\* How often literal l occurs in clause c: pos_in_cls and neg_in_cls list c
\* once per occurrence.
Occurrences(c, l) == Cardinality({p \in DOMAIN clauses[c] : clauses[c][p] = l})

TrueCount(tc, c) == Cardinality({p \in DOMAIN clauses[c] : Holds(tc, clauses[c][p])})

\* A new row: the solution stored for the first tuple left, with the counts
\* recomputed.  asgn_fixed is extended; nothing ever resets it.
StartRow ==
  /\ pc = "choose" /\ tupleids # <<>>
  /\ LET t0 == tupleids[1]
         tc == uncovered_possible_solutions[t0]
         ls == uncovered_tuples[t0]
     IN  /\ row' = tc
         /\ clause_truecount' = [c \in DOMAIN clauses |-> TrueCount(tc, c)]
         /\ asgn_fixed' = [asgn_fixed EXCEPT ![LitVar(ls[1])] = TRUE, ![LitVar(ls[2])] = TRUE]
  /\ try' = 2
  /\ pc' = "modify"
  /\ UNCHANGED <<inputVars, testcase_set, num_generated, countVars, positive_appearance,
                 queueVars, scanVars, tupleids, tmp_tupleids>>

Trying == pc = "modify" /\ try <= Len(tupleids)

TriedLits == uncovered_tuples[tupleids[try]]

\* Fault: fixed options are overwritten.
CompatibleAlways == TRUE

\* No literal of the tuple contradicts an option fixed before.
Compatible ==
  \A a \in {1, 2} : asgn_fixed[LitVar(TriedLits[a])] => Holds(row, TriedLits[a])

\* flip_var(x, 1) for both literals: every literal of an option not fixed
\* adds its occurrences and takes off those of its negation, whatever value
\* the option has in the row.
Flipped ==
  LET delta(c, l) == IF asgn_fixed[LitVar(l)] THEN 0
                     ELSE Occurrences(c, l) - Occurrences(c, -l)
  IN  [c \in DOMAIN clauses |->
         clause_truecount[c] + delta(c, TriedLits[1]) + delta(c, TriedLits[2])]

AllNonzero(count) == \A c \in DOMAIN clauses : count[c] # 0

\* The row with both options of the tuple set.
Pushed ==
  [row EXCEPT ![LitVar(TriedLits[1])] = LitValue(TriedLits[1]),
              ![LitVar(TriedLits[2])] = LitValue(TriedLits[2])]

\* Fault: the loop does not go on to the next tuple.
RejectTupleForever ==
  /\ Trying
  /\ ~(Compatible /\ AllNonzero(Flipped))
  /\ UNCHANGED <<sampleVars, scanVars, rowVars>>

\* A tuple that contradicts a fixed option, or whose counts show a false
\* clause (flip_var(x, -1) restores them), is passed.
RejectTuple ==
  /\ Trying
  /\ ~(Compatible /\ AllNonzero(Flipped))
  /\ try' = try + 1
  /\ UNCHANGED <<sampleVars, scanVars, tupleids, row, asgn_fixed, clause_truecount,
                 tmp_tupleids>>

AcceptTuple ==
  /\ Trying
  /\ Compatible /\ AllNonzero(Flipped)
  /\ clause_truecount' = Flipped
  /\ asgn_fixed' = [v \in Var |-> asgn_fixed[v] \/ \E a \in {1, 2} : LitVar(TriedLits[a]) = v]
  /\ row' = Pushed
  /\ try' = try + 1
  /\ UNCHANGED <<sampleVars, scanVars, tupleids, tmp_tupleids>>

\* The row is added, and the filter over the list begins.
AddRow ==
  /\ pc = "modify" /\ ~Trying
  /\ AddTestcase(row)
  /\ try' = 1
  /\ tmp_tupleids' = <<>>
  /\ pc' = "filter"
  /\ UNCHANGED <<inputVars, positive_appearance, queueVars, scanVars,
                 tupleids, row, asgn_fixed, clause_truecount>>

\* Fault: the tuple is dropped whether it is covered or not.
FilterTupleAway ==
  /\ pc = "filter" /\ try <= Len(tupleids)
  /\ try' = try + 1
  /\ UNCHANGED <<sampleVars, scanVars, tupleids, row, asgn_fixed, clause_truecount,
                 tmp_tupleids>>

\* A tuple the rows still leave uncovered stays, in its order.
FilterTuple ==
  /\ pc = "filter" /\ try <= Len(tupleids)
  /\ tmp_tupleids' = IF LitsTuple(TriedLits) \in already_t_wise THEN tmp_tupleids
                     ELSE Append(tmp_tupleids, tupleids[try])
  /\ try' = try + 1
  /\ UNCHANGED <<sampleVars, scanVars, tupleids, row, asgn_fixed, clause_truecount>>

\* swap(tupleids, tmp_tupleids), of which uncovered_size entries count.
SwapTupleIds ==
  /\ pc = "filter" /\ try > Len(tupleids)
  /\ tupleids' = tmp_tupleids
  /\ pc' = "choose"
  /\ UNCHANGED <<inputVars, testcase_set, num_generated, countVars, positive_appearance,
                 queueVars, scanVars, row, asgn_fixed, clause_truecount, try, tmp_tupleids>>

Finish ==
  /\ pc = "choose" /\ tupleids = <<>>
  /\ pc' = "done"
  /\ UNCHANGED <<inputVars, testcase_set, num_generated, countVars, positive_appearance,
                 queueVars, scanVars, rowVars>>

Step == \/ SampleStep \/ ClearFinalStep \/ ScanStep
        \/ StartChoosing \/ StartRow \/ RejectTuple \/ AcceptTuple
        \/ AddRow \/ FilterTuple \/ SwapTupleIds \/ Finish

Terminated == pc = "done" /\ UNCHANGED vars

Next == Step \/ Terminated

Spec == Init /\ [][Next]_vars /\ WF_vars(Step)

-----------------------------------------------------------------------------
(* Properties *)

ModifyingTypeOK ==
  /\ ScanTypeOK
  /\ tupleids \in Seq(1 .. Len(uncovered_tuples))
  /\ row \in TestCase
  /\ asgn_fixed \in [Var -> BOOLEAN]
  /\ clause_truecount \in [DOMAIN clauses -> Int]
  /\ try \in Nat \ {0}
  /\ tmp_tupleids \in Seq(1 .. Len(uncovered_tuples))

\* However much of it is modified, a row still covers the tuple it started
\* from: each pass over the list shortens it.
RowCoversStart ==
  pc = "modify" => Covers(row, LitsTuple(uncovered_tuples[tupleids[1]]))

\* All valid tuples are covered at the end and the number of them that the
\* log reports is right.
CoversAllValid ==
  pc = "done" => /\ Feasible(clauses) \subseteq already_t_wise
                 /\ num_tuple_all_exact = Cardinality(Feasible(clauses))

\* README.md: each line of the output represents a valid configuration.
OutputValid ==
  pc = "done" => \A k \in DOMAIN testcase_set : testcase_set[k] \in Models(clauses)

WorkLeft == Remaining(<<Len(tupleids),
                        CASE pc = "choose" -> 2 [] pc = "modify" -> 1 [] OTHER -> 0,
                        Len(tupleids) + 1 - try>>)

\* Every step brings the end closer: a row leaves fewer tuples behind than
\* there were, however its modifications went.
Advances == [][Fewer(WorkLeft', WorkLeft)]_vars

\* The run ends.
Terminates == <>(pc = "done")
=============================================================================
