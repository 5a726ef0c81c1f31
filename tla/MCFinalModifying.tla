-------------------------- MODULE MCFinalModifying --------------------------
(* Small systems for the solution-modifying strategies. *)
EXTENDS FinalModifying

\* An implication with two premises; x1 or x2 without both x2 and x3.
MCFormulas == { << <<-1, -3, 2>>, <<1>> >>, << <<1, 2>>, <<-2, -3>> >> }

MCLimits == {NoLimit, 3}

\* Four options, five valid configurations: enough that a row can be
\* modified in two options no uncovered tuple has fixed before.
MCFourOptions ==
  { << <<3, 4>>, <<-2, -4, 1>>, <<3, 2, 1>>, <<1, -2, 3>>, <<-1, 2, 4>>, <<-3, -2>> >> }

MCNoLimit == {NoLimit}
=============================================================================
