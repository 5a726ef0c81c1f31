-------------------------- MODULE FinalContiguous --------------------------
(***************************************************************************)
(* The whole program with final strategy 1 (simplify) or 2 (no simplify),  *)
(* choose_final_random_contiguous_solving: shuffle the uncovered tuples    *)
(* and ask the solver for one test case that covers as long a run of them  *)
(* as it can.  The branch taken on an unsatisfiable answer leaves the loop *)
(* before clear_assumptions.                                               *)
(*                                                                         *)
(* The shuffle fixes the whole order at once; entry k matters only when it *)
(* is first read, so `order' holds the entries read so far and the next    *)
(* one is any index not yet read.                                          *)
(***************************************************************************)
EXTENDS FinalScan

VARIABLES simplify,   \* TRUE for strategy 1, FALSE for strategy 2
          order,   \* the part of tupleids read so far
          first,   \* i, 1-based: where the current run starts
          last,    \* j, 1-based: the tuple the run would be extended by
          model    \* tc: the solution of the last satisfiable call

runVars == <<simplify, order, first, last, model>>
vars    == <<sampleVars, scanVars, runVars>>

Init == /\ FInit
        /\ simplify \in BOOLEAN
        /\ order = <<>>
        /\ first = 1
        /\ last = 1
        /\ model = [v \in Var |-> 0]

SampleStep     == Sample /\ UNCHANGED runVars
ClearFinalStep == ClearFinal /\ UNCHANGED runVars
ScanStep       == FindUncoveredTuples(simplify) /\ UNCHANGED runVars

StartChoosing ==
  /\ ScanDone
  /\ pc' = "choose"
  /\ UNCHANGED <<inputVars, testcase_set, num_generated, countVars,
                 positive_appearance, queueVars, scanVars, runVars>>

Size == Len(uncovered_tuples)

\* The orders that agree with what has been read, and reach entry k.
OrdersTo(k) ==
  IF k <= Len(order) THEN {order}
  ELSE {Append(order, x) : x \in {y \in 1 .. Size : \A a \in DOMAIN order : order[a] # y}}

\* Fault: i is not advanced past a covered tuple.
PassCoveredForever ==
  /\ pc = "choose" /\ first <= Size
  /\ \E o \in OrdersTo(first) :
       /\ order' = o
       /\ LitsTuple(uncovered_tuples[o[first]]) \in already_t_wise
  /\ UNCHANGED <<sampleVars, scanVars, simplify, first, last, model>>

\* Head of the outer loop: pass a covered tuple, start a run at another.
PassCovered ==
  /\ pc = "choose" /\ first <= Size
  /\ \E o \in OrdersTo(first) :
       /\ order' = o
       /\ LitsTuple(uncovered_tuples[o[first]]) \in already_t_wise
  /\ first' = first + 1
  /\ UNCHANGED <<sampleVars, scanVars, simplify, last, model>>

StartRun ==
  /\ pc = "choose" /\ first <= Size
  /\ \E o \in OrdersTo(first) :
       /\ order' = o
       /\ LitsTuple(uncovered_tuples[o[first]]) \notin already_t_wise
  /\ last' = first
  /\ pc' = "solve"
  /\ UNCHANGED <<inputVars, testcase_set, num_generated, countVars, positive_appearance,
                 queueVars, scanVars, simplify, first, model>>

\* Fault: only the newest tuple of the run is assumed.
AssumedLast(o) ==
  assumptions \cup {uncovered_tuples[o[last]][1], uncovered_tuples[o[last]][2]}

\* The literals of entries i .. j, added to what the solver still assumes.
Assumed(o) ==
  assumptions \cup
    UNION {{uncovered_tuples[o[k]][1], uncovered_tuples[o[k]][2]} : k \in first .. last}

ExtendRun ==
  /\ pc = "solve" /\ last <= Size
  /\ \E o \in OrdersTo(last) :
       /\ order' = o
       /\ \E tc \in ModelsUnder(Assumed(o)) : model' = tc
  /\ last' = last + 1
  /\ assumptions' = {}
  /\ UNCHANGED <<sampleVars, scan, num_tuple_all_exact, uncovered_tuples,
                 uncovered_possible_solutions, simplify, first>>

\* An unsatisfiable answer: break, past clear_assumptions.
BreakRun ==
  /\ pc = "solve" /\ last <= Size
  /\ \E o \in OrdersTo(last) :
       /\ order' = o
       /\ ModelsUnder(Assumed(o)) = {}
       /\ assumptions' = Assumed(o)
  /\ pc' = "settle"
  /\ UNCHANGED <<inputVars, testcase_set, num_generated, countVars, positive_appearance,
                 queueVars, scan, num_tuple_all_exact, uncovered_tuples,
                 uncovered_possible_solutions, simplify, first, last, model>>

RunToEnd ==
  /\ pc = "solve" /\ last > Size
  /\ pc' = "settle"
  /\ UNCHANGED <<inputVars, testcase_set, num_generated, countVars, positive_appearance,
                 queueVars, scanVars, runVars>>

\* Fault: the tuple is not taken off.
DeclareImpossibleKept ==
  /\ pc = "settle" /\ last = first
  /\ first' = first + 1
  /\ pc' = "choose"
  /\ UNCHANGED <<inputVars, testcase_set, num_generated, countVars, positive_appearance,
                 queueVars, scanVars, simplify, order, last, model>>

\* After the inner loop: an empty run declares its tuple impossible.
DeclareImpossible ==
  /\ pc = "settle" /\ last = first
  /\ num_tuple_all_exact' = num_tuple_all_exact - 1
  /\ first' = first + 1
  /\ pc' = "choose"
  /\ UNCHANGED <<inputVars, testcase_set, num_generated, countVars, positive_appearance,
                 queueVars, scan, uncovered_tuples, uncovered_possible_solutions,
                 assumptions, simplify, order, last, model>>

\* Otherwise the last model becomes a row and i goes on behind the run.
AddRun ==
  /\ pc = "settle" /\ last # first
  /\ AddTestcase(model)
  /\ first' = last
  /\ pc' = "choose"
  /\ UNCHANGED <<inputVars, positive_appearance, queueVars, scanVars, simplify, order, last, model>>

Finish ==
  /\ pc = "choose" /\ first > Size
  /\ pc' = "done"
  /\ UNCHANGED <<inputVars, testcase_set, num_generated, countVars, positive_appearance,
                 queueVars, scanVars, runVars>>

Step == \/ SampleStep \/ ClearFinalStep \/ ScanStep
        \/ StartChoosing \/ PassCovered \/ StartRun
        \/ ExtendRun \/ BreakRun \/ RunToEnd
        \/ DeclareImpossible \/ AddRun \/ Finish

Terminated == pc = "done" /\ UNCHANGED vars

Next == Step \/ Terminated

Spec == Init /\ [][Next]_vars /\ WF_vars(Step)

-----------------------------------------------------------------------------
(* Properties *)

ContiguousTypeOK ==
  /\ ScanTypeOK
  /\ simplify \in BOOLEAN
  /\ order \in Seq(1 .. Size)
  /\ first \in Nat \ {0}
  /\ last \in Nat \ {0}
  /\ model \in TestCase

\* The row a run adds covers every tuple of the run.
RunCovered ==
  (pc = "settle" /\ last # first) =>
    \A k \in first .. last - 1 : Covers(model, LitsTuple(uncovered_tuples[order[k]]))

\* A tuple the strategy has passed was covered or taken off the number of
\* tuples: the log always reports full coverage, whatever was missed.
ReportsFullCoverage == pc = "done" => num_tuple = num_tuple_all_exact

\* examples/README.md: the output covers all valid tuples.
CoversAllValid == pc = "done" => Feasible(clauses) \subseteq already_t_wise

WorkLeft == Remaining(<<Size + 1 - first,
                        CASE pc = "choose" -> 2 [] pc = "solve" -> 1 [] OTHER -> 0,
                        Size + 1 - last>>)

\* Every step brings the end closer: a run that adds a row goes on behind it,
\* and one that adds none passes its tuple, whatever the solver still assumes.
Advances == [][Fewer(WorkLeft', WorkLeft)]_vars

\* The run ends.
Terminates == <>(pc = "done")
=============================================================================
