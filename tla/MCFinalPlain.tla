---------------------------- MODULE MCFinalPlain ----------------------------
(* Small systems for the whole program with the default strategy. *)
EXTENDS FinalPlain

\* x1 or x2, and not both x2 and x3; x2 alone, a backbone, with an exclusion.
MCFormulas == { << <<1, 2>>, <<-2, -3>> >>, << <<2>>, <<-1, -3>> >>, << <<-1>>, <<1, 3>> >> }

MCLimits == {NoLimit, 3, 5}
=============================================================================
