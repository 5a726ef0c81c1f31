------------------------- MODULE MCFinalContiguous -------------------------
(* Small systems for the contiguous-solving strategies. *)
EXTENDS FinalContiguous

\* Without simplify impossible tuples stay in the list; a backbone (x2 alone,
\* not x1) keeps it short enough to try every order.
MCFormulas == { << <<2>>, <<-1, -3>> >>, << <<-1>>, <<2, 3>> >> }

\* With the limit at the first row most tuples are left to the strategy.
MCLimits == {NoLimit, 3}
=============================================================================
