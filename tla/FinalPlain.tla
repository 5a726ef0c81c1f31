----------------------------- MODULE FinalPlain -----------------------------
(***************************************************************************)
(* The whole program with the default final strategy, choose_final_plain:  *)
(* go through the uncovered tuples in order and add the stored solution of *)
(* each one that no earlier solution happens to cover.                     *)
(***************************************************************************)
EXTENDS FinalScan

VARIABLE choose   \* i of choose_final_plain, 1-based

vars == <<sampleVars, scanVars, choose>>

Init == FInit /\ choose = 1

SampleStep == Sample /\ UNCHANGED choose
ClearFinalStep == ClearFinal /\ UNCHANGED choose
ScanStep == FindUncoveredTuples(TRUE) /\ UNCHANGED choose

StartChoosing ==
  /\ ScanDone
  /\ pc' = "choose"
  /\ choose' = 1
  /\ UNCHANGED <<inputVars, testcase_set, num_generated, countVars,
                 positive_appearance, queueVars, scanVars>>

Choosing == pc = "choose" /\ choose <= Len(uncovered_possible_solutions)

ChosenTuple == LitsTuple(uncovered_tuples[choose])

\* Faults: i is not advanced; a row is added without looking at the bit.
ChooseCoveredForever ==
  /\ Choosing /\ ChosenTuple \in already_t_wise
  /\ UNCHANGED <<sampleVars, scanVars, choose>>

ChooseSolutionAlways ==
  /\ Choosing
  /\ AddTestcase(uncovered_possible_solutions[choose])
  /\ choose' = choose + 1
  /\ UNCHANGED <<inputVars, pc, positive_appearance, queueVars, scanVars>>

ChooseCovered ==
  /\ Choosing /\ ChosenTuple \in already_t_wise
  /\ choose' = choose + 1
  /\ UNCHANGED <<sampleVars, scanVars>>

ChooseSolution ==
  /\ Choosing /\ ChosenTuple \notin already_t_wise
  /\ AddTestcase(uncovered_possible_solutions[choose])
  /\ choose' = choose + 1
  /\ UNCHANGED <<inputVars, pc, positive_appearance, queueVars, scanVars>>

\* The loop is over; the rows and the coverage are reported.
Finish ==
  /\ pc = "choose" /\ ~Choosing
  /\ pc' = "done"
  /\ UNCHANGED <<inputVars, testcase_set, num_generated, countVars,
                 positive_appearance, queueVars, scanVars, choose>>

Step == \/ SampleStep
        \/ ClearFinalStep
        \/ ScanStep
        \/ StartChoosing
        \/ ChooseCovered
        \/ ChooseSolution
        \/ Finish

Terminated == pc = "done" /\ UNCHANGED vars

Next == Step \/ Terminated

Spec == Init /\ [][Next]_vars /\ WF_vars(Step)

-----------------------------------------------------------------------------
(* Properties *)

PlainTypeOK == ScanTypeOK /\ choose \in Nat \ {0}

\* The result is a covering array, the number of valid tuples the log
\* reports is right, and so the coverage it reports is 1.
DeliversCoveringArray ==
  pc = "done" =>
    /\ already_t_wise = Feasible(clauses)
    /\ num_tuple = num_tuple_all_exact
    /\ num_tuple_all_exact = Cardinality(Feasible(clauses))

WorkLeft == Remaining(<<Len(uncovered_possible_solutions) + 1 - choose, 0, 0>>)

\* Every step brings the end closer: each round of the sampling phase covers a
\* new tuple, and the loops of the final phase only go forward.
Advances == [][Fewer(WorkLeft', WorkLeft)]_vars

\* The run ends.
Terminates == <>(pc = "done")

\* The program keeps its promise: counted rows are the abstract suite.
Promise == INSTANCE PairwiseCA WITH
             formula <- clauses,
             suite <- Counted,
             finished <- (pc = "done")

Refines == Promise!ASpec
=============================================================================
