---------------------------- MODULE MCSampling ----------------------------
(* Small systems for the sampling phase. *)
EXTENDS Sampling

\* x1 or x2, and not both x2 and x3: four valid configurations.
\* x2 alone (a backbone), and not both x1 and x3: three of them.
MCFormulas == { << <<1, 2>>, <<-2, -3>> >>, << <<2>>, <<-1, -3>> >> }

\* No limit, one a second row may meet and one it may jump over.
MCLimits == {NoLimit, 5}
=============================================================================
