----------------------------- MODULE MCStartup -----------------------------
(* Calls of the program on small formulas of three options. *)
EXTENDS Startup

\* One that a reducer shortens and whose last option it need not mention, one
\* without clauses, an unsatisfiable one, and no file at all.
Shrinking == << <<1>>, <<1, 2>>, <<-1, 2, 3>>, <<-1, 2, -3>> >>
MCInputs == {Dimacs(3, Shrinking), Dimacs(3, <<>>), Dimacs(3, << <<1>>, <<-1>> >>), Absent}

MCReducedFiles ==
  {Dimacs(2, << <<1>>, <<2>> >>), Dimacs(3, Shrinking), Dimacs(1, << <<1>>, <<-1>> >>)}

\* Of other systems, one with fewer and one with more options: whole, cut after
\* the first clause, or within the "p" line.
Larger == Dimacs(4, << <<4>>, <<-1, 2>> >>)
MCLeftoverFiles ==
  {Dimacs(2, << <<-1>> >>), Larger, Partial(Larger, 1, FALSE),
   HeaderOnly(4, NoNumber)}

Plain == [input_cnf |-> TRUE, k |-> NotGiven, weighted |-> NotGiven, context_aware |-> NotGiven,
          reduction |-> NotGiven, reduced_path |-> FALSE, output_path |-> FALSE,
          until_file |-> FALSE, pure_cdcl |-> FALSE, pure_sls |-> FALSE]

\* The documented options with the values they allow, and the others one by
\* one.
MCArgumentLists ==
  {[Plain EXCEPT !.k = k, !.context_aware = c, !.reduction = r, !.reduced_path = p,
                 !.output_path = p, !.pure_sls = s] :
     k \in {NotGiven, 10}, c \in {NotGiven, 0, 1}, r \in {NotGiven, 0}, p \in BOOLEAN, s \in BOOLEAN}
  \cup {[Plain EXCEPT !.input_cnf = FALSE], [Plain EXCEPT !.k = 0], [Plain EXCEPT !.k = -5],
        [Plain EXCEPT !.weighted = 0], [Plain EXCEPT !.weighted = 0, !.context_aware = 0],
        [Plain EXCEPT !.until_file = TRUE], [Plain EXCEPT !.pure_cdcl = TRUE, !.pure_sls = TRUE]}
=============================================================================
