----------------------------- MODULE MCPbOCCSAT -----------------------------
(* Instances of four options for the local search. *)
EXTENDS PbOCCSAT

\* As the sampler calls it: two files with eleven clauses, on which every
\* heuristic has its turn; one of six on which greedy steps get stuck until
\* weights are smoothed; and one of three, on which the search walks at random.
SamplerFiles ==
  { << <<1, -3>>, <<-4, 1>>, <<4, 3, 2>>, <<4, -2, -3>>, <<1, -4, 2>>, <<4, -2>>, <<-2, 3>>,
       <<3, -1>>, <<-4, -3>>, <<3, 4, 2>>, <<3, 1>> >>,
    << <<-3, -4, -2>>, <<2, 1, 3>>, <<1, -2, -3>>, <<4, -1, -2>>, <<-2, 1, 4>>, <<3, -2>>,
       <<-4, 1>>, <<-2, 1, -3>>, <<3, 4, 2>>, <<2, -1>>, <<-4, -1>> >>,
    << <<1, 2, 3>>, <<-1, 2>>, <<-2, 3>>, <<1, -3>>, <<-1, -2, 3>>, <<1, -2, -3>> >>,
    << <<1, 2>>, <<-1, 3>>, <<-2, -3>> >> }

\* The other settings: repeated literals, tautologies and long clauses; and a
\* file with one solution, on which weights rise and fall.
Mixed == << <<1, 2, 1, 3>>, <<-1, 4, 1>>, <<-2, -3, 4, -3>>, <<-1, -4>>, <<2, -4, 3>>, <<-2, 4, 1>> >>
Tight == << <<1, 2>>, <<-1, 2>>, <<1, -2>>, <<-1, -2, 3>>, <<-3, 1>> >>

Other(file, s) == [file |-> file, settings |-> s, given |-> FALSE]

MCInstances ==
  {[file |-> f, settings |-> DefaultSettings, given |-> TRUE] : f \in SamplerFiles} \cup
  { Other(Mixed, [DefaultSettings EXCEPT !.init = "random", !.caches = {"break", "make"},
                    !.weights = "none"]),
    Other(Mixed, [DefaultSettings EXCEPT !.init = "random", !.caches = {"second"},
                    !.weights = "none", !.tie = "hscore2", !.var = "hscore",
                    !.double_cc = FALSE, !.aspiration = FALSE]),
    Other(Tight, [DefaultSettings EXCEPT !.init = "each", !.caches = {"second"},
                    !.tie = "hscore", !.var = "hscore2", !.first_div = TRUE]),
    Other(Tight, [DefaultSettings EXCEPT !.init = "all", !.weights = "paws", !.var = "novelty"]),
    Other(Tight, [DefaultSettings EXCEPT !.init = "random", !.weights = "paws", !.var = "score"]) }
=============================================================================
