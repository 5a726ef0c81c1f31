--------------------------- MODULE MCClauseArena ---------------------------
(* Clause databases over four options, one with a unit clause, a tautology and a
   repeated literal. *)
EXTENDS ClauseArena

MCFormulas ==
  { << <<1, 2, 3>>, <<-1, 2, 4>>, <<-2, 3, 4>>, <<-3, -4>> >>,
    << <<2, 1, 2>>, <<1, -1>>, <<-4>>, <<-1, 3, 4>>, <<-3, 2, 4>> >> }

MCLemmas == { <<2, 1>>, <<3, -2, 1>>, <<-3, 2, 1, 4>> }
=============================================================================
