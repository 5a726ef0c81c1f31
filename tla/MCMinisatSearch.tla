--------------------------- MODULE MCMinisatSearch ---------------------------
(* Instances of four options for the CDCL search. *)
EXTENDS MinisatSearch

\* One without a model; one whose learnt clauses can be shortened; one on which
\* the search jumps back past the level a learnt clause was made for; and one
\* with unit clauses, a tautology and a repeated literal.
MCFormulas ==
  { << <<1, 2, 3>>, <<1, 2, -3>>, <<1, -2>>, <<-1, 4>>, <<-4, 3>>, <<-3, -1>> >>,
    << <<-1, 2>>, <<-2, -3, 4>>, <<-2, -3, -4>> >>,
    << <<-2, -3, 4>>, <<-1, -2, -3, -4>>, <<3, 4>>, <<3, -1, -4>>, <<1, 2>>, <<1, 3>> >>,
    << <<4>>, <<1, -1, 2>>, <<2, 3, 3>>, <<-4, 1, 2>>, <<-1, 3>> >> }

MCAssumptionLists == { <<>>, <<-2, 3>>, <<1, -1>> }
=============================================================================
