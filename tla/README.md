# SamplingCA in TLA+

Specifications, model checking and proofs for SamplingCA, a generator of
pairwise covering arrays (PCAs) for highly configurable systems. The input is a
CNF formula over `n` Boolean options; the output is a list of configurations.
The program's README promises that each line is a *valid configuration*, and
`examples/README.md` that every valid pairwise tuple appears in one of them.

The program is one sequential thread. What makes it hard is not concurrency but
*incremental bookkeeping*: bit sets, counters, queued gains, clause counts and
solver assumptions are each updated from the newest step only and never
recomputed, over an arbitrarily long run, with every choice left to random
numbers, unstable sorts and two SAT solvers. Tests that compare outputs would
hardly notice when one of them drifts.

## Inventory

| Part (source) | State it keeps | Operations | What makes it correct |
|---|---|---|---|
| Sampling phase (`cdclcasampler.cpp`, `GenerateCoveringArray`) | rows `testcase_set_`, bit set `already_t_wise`, `num_tuple_`, per-option uncovered and appearance counters, queue `pq` of candidates with their gains | first row, count a row, trim the queue, weights, draw and select candidates | the incremental state equals what could be recomputed; every row is valid and new |
| Uncovered-tuple scan (`find_uncovered_tuples`) | `num_tuple_all_exact_`, `uncovered_tuples`, `uncovered_possible_solutions`, the solver's assumptions | four nested loops, backbone shortcuts, one incremental solve per tuple | each impossible tuple subtracted once, no valid one missed |
| Final strategy 0 (`choose_final_plain`) | loop index | add the stored solution of each tuple still uncovered | result is a PCA, the count is right |
| Final strategies 1, 2 (`choose_final_random_contiguous_solving`) | shuffled order, run bounds, assumptions | solve ever longer runs of tuples | rows valid, runs covered, all valid tuples covered |
| Final strategies 3, 4 (`choose_final_solution_modifying`) | `tupleids`, row, `asgn_fixed`, `clause_truecount` | push tuples into a stored solution | rows valid, all valid tuples covered |
| Tuple bit set (`SimpleBitSet`, `Get2TupleMapIndex`) | words, capacity, counter | set, get, unset, difference, copy, move | index injective and in range, counter exact |
| Local search (`pboccsatsolver.cpp`) | solution, `sat_count`, `sat_var`, gains of first and second order, break and make scores, clause weights, four stacks, configuration flags | build the instance, initialise, pick, flip, update, weight (SWT or PAWS), smooth | caches equal to their definitions, answers satisfy the formula |
| CDCL sampler and incremental solver (`minisat_ext`) over a MiniSat core | clauses, watches, trail, heap of options, phases, assumptions | add clauses, assume, solve with biased phases, learn, forget | answers right in every call, nothing learnt changes the models |
| Clause memory (`ClauseAllocator`, `OccLists`, `garbageCollect`) | one region, words used and wasted, watch lists with dirty marks, reasons | allocate, free, detach lazily, clean, relocate | every reference kept is to a clause in use, waste is counted exactly |
| Decision heap (`minisat/mtl/Heap.h`) | array, index of each option, an order kept elsewhere | insert, remove, decrease, build | every option handed out once |
| Options and start (`main.cpp`) | option fields | parse, apply by setters in a fixed order, interrupt | a documented call runs to its end and saves its rows |
| Files and external tools (`read_cnf`, `ReduceCNF`, `Coprocessor`, `SaveTestcaseSet`) | the input, a reduced file in `/tmp` or named, what an earlier run left there, the saved rows | reduce through `system()`, two readers, save, remove | both readers hold the input's formula if the reducer worked, rows that are saved are valid for what was read |
| Other MiniSat sources (`core/Solver.cc`, `core/Main.cc`, `simp/`) | - | not linked by the Makefile | - |

**How they interact.** `GenerateCoveringArray` calls the samplers for models and
counts their rows; the queue's gains depend on the bit set that counting a row
changes; the final phase reads the bit set and the rows, owns a fresh
incremental solver, and hands its rows back through the same
`Update2TupleInfo`. The local search is given the CDCL sampler's model as its
start and returns a row. It reads the formula from the file by itself, before
the sampler does. No callbacks, no threads; the only asynchronous event
is the signal handler, which ends the process, and the only other process is the
reducer, which `system()` waits for.

**Hard behaviours.** (1) gains computed once and later only trimmed; (2) counters
decremented per newly set bit; (3) `==` against the limit; (4) subtraction by
rows of tuples; (5) assumptions that survive an unsatisfiable answer; (6) clause
counts maintained under guards that do not look at the current value; (7) flags
never reset between rows; (8) loops that advance in only some branches;
(9) the local search's scores and stacks; (10) one solver object asked again and
again, with watches that jumps back do not undo and a heap whose order is
rewritten under it; (11) clauses that move in memory while lists, trail and
reasons refer to them; (12) an external program whose exit status nobody reads,
and files it leaves half-written. PROJECT.json lists each at its line.

## Modules

| Module | Models |
|---|---|
| `CNF` | formulas, test cases, 2-tuples, coverage |
| `PairwiseCA` | abstract promise: add valid useful rows, finish with a PCA |
| `Sampling` | the sampling phase |
| `FinalScan` | `clear_final`, `find_uncovered_tuples`, adding a row; extends `Sampling` |
| `FinalPlain` | the whole program with strategy 0; implements `PairwiseCA` |
| `FinalContiguous` | the whole program with strategies 1, 2 |
| `FinalModifying` | the whole program with strategies 3, 4 |
| `TupleIndex` | `Get2TupleMapIndex`, and the word and bit of a tuple |
| `TupleSets` | abstract promise of `SimpleBitSet`: sets of tuples held by value |
| `TupleBitSet` | `SimpleBitSet`: words on a heap, owners, counter; implements `TupleSets` |
| `PbCaches` | the local search's data: instance, settings, what `init` computes and what one flip adds |
| `PbOCCSAT` | the search over them: calls, tries, picks, flips, updates, weights |
| `MinisatSearch` | the CDCL search behind both solvers, over repeated calls |
| `VarPool` | abstract promise of the decision heap: a set that hands out each member |
| `OrderHeap` | the heap, with orders rewritten under it; implements `VarPool` |
| `ClauseArena` | the memory of clauses behind both solvers: region, watch lists, reasons, relocation |
| `Startup` | `main`: options, setters, the reducer, two readers, interrupt, saving |
| `CNFProofs`, `SamplingProofs`, `FinalPlainProofs`, `FinalContiguousProofs`, `FinalModifyingProofs`, `PbOCCSATProofs`, `MinisatSearchProofs` | the proofs about the module each is named after; `SamplingProofs` also those about `FinalScan`, and `CNFProofs` the lemmas the others share |
| `StorageProofs` | the proofs about `ClauseArena`, `TupleBitSet`, `OrderHeap` and `Startup` |
| `MC*` | small systems and the values of the constants |

The program is sequential, so a module is a state machine with a program
counter `pc`; an action is one iteration or one straight-line section of the
code. `Sampling`, `FinalScan` and one of the three strategies share variables
and make up the whole program, as the code's functions share the object.

**State.** The variables carry the names of the members they model.
`already_t_wise` is the set of tuples whose bit is set.
An entry of `pq` is a candidate with the *set* of tuples it would add (the code's
`SimpleBitSet`), whose size is the gain it is sorted by. The variable `scan` holds the four loop
variables of `find_uncovered_tuples`. Indices of arrays are 1-based.

`TupleBitSet`, `PbOCCSAT`, `MinisatSearch`, `ClauseArena` and `OrderHeap` stand
beside them: each models one class whose contract another module uses; `Startup`
stands around them. `Sampling` holds sets of tuples where
the code holds a `SimpleBitSet`; `ImplementsSets` shows that this is what a
`SimpleBitSet` is, whatever order it is copied, moved, changed and destroyed
in. `Sampling` takes any model of the formula where the code calls a solver;
`ResultValid` shows that the local search returns one when it returns.
In `PbOCCSAT`, `pc` goes `pick`, `flip`, `update` as the body of
`local_search_each_try` does; each pick heuristic is an action, and the stacks are
sequences with their index arrays, so that removing from the middle is modelled
as the code does it. The code keeps its configuration as pointers to member
functions; `settings` says which they are. `AnswersRight` shows the contract that `Sampling` and
`FinalScan` assume of the two solvers: a model under the assumptions, or none exists.
In `MinisatSearch` the loop of `search` is `pc`: `add`, `idle`, `propagate`,
`decide`; one action visits one clause of a watch list, and a learnt clause is computed
from the trail in the action `Learn`, as `analyze` calls nothing else. Its
`order_heap` is a set; `ImplementsPool`, which is proved, says that the heap is one.
`ClauseArena` has the same loop, and keeps what `MinisatSearch` reads off the
clauses: `ca` maps addresses to clauses, `watches` and `dirty` are the lists as
`OccLists` holds them, `visiting` is what `propagate` has left of the list it walks,
and `reason` is a reference that stays when an option loses its value.
In `Startup`, `files` maps the input, the temporary and the named reduced file
to what they hold, `para` is what the setters set, and the steps of `main` and
`Init` follow each other by `stage`; the ways the process may end are values of it.
The program does not see what became of the reducer; `reducer` records it for the properties.

**Abstractions.** A sampler answers with *any* model of the formula: the random
seeds, the phases derived from `positive_appearance`, the priorities and local
search influence only which one. `std::sort` is unstable, so `ClearPQ` allows
every permutation that is in order. The final solver answers for the formula
under *all* assumptions it holds, as `Solver::solve` does, and returns any
model. Formulas are satisfiable (`SatisfiableAssumption`): on others the program
indexes an empty row. `-k` is positive and the formula has at least two options.
In `PbOCCSAT` the ties that priorities, ages and random numbers break are any
choice, and so is the number of flips and tries; the ages that `hscore` adds are 0
in the first thousand flips and left out; index entries of items that are
on no stack are 0, as nothing reads them. `0.3 * weight` is truncated to an integer.
In `MinisatSearch` the lists of watches are read off the watched literals, a
blocker may be any literal of the clause, and activities, restart intervals and limits
are any choice of when and which. Keys of `OrderHeap` fall as activities grow.
In `ClauseArena` an address is a clause's place, counted in clauses, and sizes are
counted in words; a conflict may teach any clause of `Lemmas` that is asserted
after the jump back; what the search concludes is `MinisatSearch`'s subject.
In `Startup` a file is its header, whose numbers may be missing, its complete clauses
and whether it ends inside one; the phases deliver any models of the formula that was
read. A variable that is read before it is set holds any of a few values (`Garbage`, `GarbageVars`).
In `TupleBitSet` an address may be reused as soon as it is free; `siz`, which
nothing reads, is left out.

## Runs

All configurations and their bounds are small systems of three or four options
(constants of the `MC*` modules), chosen so that each contains valid, invalid
and backbone-fixed tuples, and that coverage needs several rows. Type
invariants that are proved are not run again.

| Run | Shows |
|---|---|
| `MCSampling` | 2 candidates per round, every sampler answer, every tie: rows valid, bit set, counters, appearance counts and queued gains exact, rows useful, the phase ends only exhausted or at the limit |
| `MCFinalPlain` | the whole program with strategy 0, limits met, jumped over or absent: scan exact, solutions matched to tuples, ends with a PCA and a correct count; refines `PairwiseCA` |
| `MCFinalContiguous` | strategies 1, 2, every shuffle: rows valid and covering their run, termination, and the log reports full coverage |
| `MCFinalContiguousCoverage` | *violated*: valid tuples stay uncovered after one unsatisfiable answer |
| `MCFinalModifying` | strategies 3, 4, every shuffle: rows keep the tuple they start from, everything valid is covered, termination |
| `MCFinalModifyingValid` | *violated*: a row that breaks a clause can be output |
| `MCTupleBitSet` | two bit sets in every order of operations: one owner per array, exact counters, and sets by value |
| `MCMinisatSearch` | every order of decisions, propagations, restarts and forgotten clauses, with and without assumptions: watches miss nothing, clauses held keep exactly the models, every answer is right, also after an unsatisfiable one |
| `MCClauseArena` | clauses added, learnt, removed, forgotten and moved in every order: no watcher, reason or list refers to a clause that is gone, the waste counted is the waste there is |
| `MCOrderHeap` | both orders (activity, shuffle): array and indices agree, every option comes out once, in order where order was kept |
| `MCPbOCCSAT` | every start, tie and pick, under the sampler's settings and the others: counts, stacks, gains of both orders, break and make scores and weights exact, the promising options complete until weights are smoothed, answers valid |
| `MCStartup` | every documented option, with and without a leftover file, a reducer that works, is stopped while it writes or writes nothing, an interrupt at any time: saved rows are valid, or models of the leftover file when nothing was written; both readers hold the input's formula if the reducer worked; a documented call saves and cleans up |

`MCSampling` stops where the phase hands over to the next one, `MCClauseArena` at a
conflict without decisions, `MCStartup` where the process ends: these three do not
check deadlock.

**Bounds.** Three options give 12 tuples in 3 groups: enough for rows that
overlap in part, for a row and a value ruled out by a backbone in the same scan,
for runs of tuples longer than one and for an entry that survives two
trimmings. The drift of `clause_truecount` needs two modifications of the same
clause, hence the four-option system of `MCFinalModifyingValid`. The models need
no cap of their own: rows are bounded because each covers something new.

`MCTupleBitSet` has words of 5 bits instead of 32 (`WordBits`), so that 12 tuples
need three words and the last is not full; the four tuples it sets and unsets
include the last one and, in two words, the first or last bit. Two objects and three
addresses allow every assignment while the target still owns an array; addresses are
symmetric, as the program never compares them. `MCPbOCCSAT` lowers the weight
threshold from 300 to 2 (`WeightThreshold`), the number of heavy clauses from 10
to 1 (`LargeThreshold`) and the share of second-order gains from 8 to 2
(`HscoreScale`), so that smoothing and each comparison are reached on weights that
stay small; PAWS stops raising them at `MaxWeight`. Its files have four options.
Four have the sampler's settings: two of eleven clauses
(every heuristic, and promising options whose clauses did not change), one of six
(weights grow until they are smoothed), one of three, on which the ratio of
clauses to options selects the random walk. Five have other settings, each on a
file with repeated literals, tautologies and long clauses or on one with a
single solution. `MCClauseArena` has two formulas and three lemmas of four options
and two conflicts (`MaxConflicts`): enough for a clause that is learnt, is a reason,
is forgotten and lies behind a clause that moves. `MCStartup` has four inputs (one
that a reducer shortens to fewer options, one without clauses, an unsatisfiable
one, none), three files a reducer may write, each with all its beginnings, and four an
earlier run on other systems may have left: with fewer or more options, whole, cut after a
clause or within the "p" line. One row follows the first (`MaxMoreRows`), as the properties
are about each row; everything else there happens once. `MCMinisatSearch` lets search begin twice
(`MaxStarts`), in two calls or by a restart: every clause, watch and fact the second
one meets was left by the first. Its formulas have four options, the fewest for
which a clause of three literals is learnt and then jumped past (with fewer, any
choice of the second watch is right); one has no model, one allows
minimisation, one has unit, tautological and repeated literals. `MCOrderHeap` has four
options, so that the tree has three levels, and keys `0 .. MaxKey` that
allow every order and every tie.

**Fairness.** `WF(Step)`: the one thread is scheduled and no step of it
blocks. Nothing is assumed about the answers of the solvers, beyond that
they answer. The interrupt of `Startup` is no part of `SStep`: nobody has to send it.

## Findings

* `MCFinalContiguousCoverage` — `break` on an unsatisfiable answer skips
  `clear_assumptions()` (`cdclcasampler.cpp:592`). The next tuples are solved
  under contradictory assumptions, found impossible and taken off the total, so
  the log reports full coverage (`ReportsFullCoverage` holds) of an array that
  misses valid tuples.
* `MCFinalModifyingValid` — `flip_var` (`cdclcasampler.cpp:630`) changes
  `clause_truecount` whether or not the option changes its value; the count of a
  clause may jump past 0, and an invalid row is accepted.

Read off the code while modelling, and not checked by a run of their own:

* `ReduceCNF` ignores what `system()` returns (`cdclcasampler.cpp:276`) and goes on
  with the path given by `-reduced_cnf_path` (line 278). When the reducer does not
  run, of which `README.md:57` warns, a file an earlier run left there is sampled in
  place of the input, and its models are saved, although `README.md:55` says that each line is
  a valid configuration. `MCStartup` passes through these states, and `SavedRowsValid`
  promises no more of them than that the rows are models of that file.
* `README.md:47` says that `-pure_sls` replaces the sampling phase with LS-Sampling; the first row still
  comes from the CDCL sampler, as nothing clears `flag_use_pure_cdcl_`
  (`FirstTestcase`; line 145 of `cdclcasampler.cpp` is never reached).
* The default output path is the input's name without `.cnf`, not with it.
* `-use_dynamic_updating_sampling_prob 0`, which is not documented, leaves
  `var_positive_appearance_count_` empty where it is indexed; `Configure` to
  `Generate` show the crash, and `Completes` is about the documented options.
* `system()` ignores an interrupt in the parent: Ctrl-C during the reduction ends
  the reducer only, and the program reads what is there. A file that is absent
  ends it before it saves, one cut short behind its "p" line hangs it or ends it
  (`SavedRowsValid`). A "p" line that ends before the number of clauses leaves
  `num_clauses_` unset (line 748), and if that is 0 every row counts as valid. A
  missing input is not noticed; one blank row is saved.

## Proofs

Proved for every number of options, every set of satisfiable formulas,
every candidate set size and limit (assumptions `NumVarAssumption`,
`SamplingAssumption`, `SatisfiableAssumption`):

* `SamplingProofs`: type correctness, `RowsValid`, `RowsContribute`,
  `CoverageExact`, `QueueFresh`, `CountersExact`, `SampleCountsExact`,
  `EndsExhausted`. The inductive invariant `SInv` joins the first five with what
  ties them to `pc`: none of them is inductive alone. A gain is true only
  because `already_t_wise` is exactly what the counted rows cover *and*
  `selected_bitset` is exactly what the newest row adds; a row is useful because
  gains are true when they are compared. `SInv` therefore says what the queue's
  gains are at each `pc`: stale by `selected_bitset` between the selection of a row and
  `clear_pq`, exact from then on. The counters follow from it one row at a time.
* `SamplingProofs` again, about the scan: `ScanInv`, which all strategies share, with and
  without `simplify`: the number subtracted so far is the number of tuples before the loops
  that are neither covered nor collected, each of them impossible. Skipping a
  whole row passes exactly `2 (n - i - 1)` tuples, all impossible because
  the backbone fixes the option.
* `FinalPlainProofs`: type correctness, `ScanExact`, `SolutionsMatch`,
  `DeliversCoveringArray`, and that every step of `FinalPlain` is a step of
  `PairwiseCA` or a stutter. `PInv` adds to `SInv` and `ScanInv` that, while
  choosing, each valid tuple is covered or still ahead of the loop.
* `FinalContiguousProofs`: type correctness, `RowsValid`, `RunCovered`,
  `ReportsFullCoverage`, and that a run which ends with no assumption left has covered
  every valid tuple. `CInv` says that the total is the covered tuples with those
  still in the shuffled order, whatever the solver answers, and that assumptions
  that once contradict the formula stay. So the log cannot tell, and the
  branch past `clear_assumptions` is the only way to miss a tuple.
* `FinalModifyingProofs`: type correctness, `RowCoversStart`, `CoversAllValid`.
  Rows may be invalid here, so `SInv` holds up to the scan only; `MInv` carries that
  each valid tuple is covered or still in one of the two lists, and that the
  options of a row's first tuple are fixed at its values however much later ones
  modify. Together with `MCFinalModifyingValid`: coverage is kept, validity is not.
* In the three modules of strategies, `Advances`: every step of the whole program
  lowers `WorkLeft`, five numbers compared from the left (`Fewer`), of which the one that falls
  stays natural. They are the phase; then the tuples not covered and the stage of the round, or
  the position of the scan, or what the strategy has left. The loop over rows has no
  bound of its own: it ends because a row that is kept covers a new tuple, which
  needs `SInv`. Strategies 1 and 2 need from `CInv` that a run neither ends where it began nor
  beyond the list; 3 and 4 that the filter drops the first tuple, the one the row
  still covers when it is added (`FilterInv`). TLC agrees on the systems of `MCFinalPlain`,
  `MCFinalContiguous` and `MCFinalModifying`; their runs check `Terminates`, which also says
  that a step is always possible.
* `CNFProofs`: `TupleCount`, that `n (n - 1) / 2 * 4` is the number of
  2-tuples, by bijections and disjoint counts, and the lemmas the other proofs
  share: on tuples and literals, and on functions that recurse over a sequence, which
  stand for the code's loops.

For every number of options, word width, set of objects and set of addresses
(`WordBitsAssumption`, `BitSetAssumption`):

* `StorageProofs`: `IndexInRange`, `IndexInjective` and `BitsDistinct`,
  `Get2TupleMapIndex` sends different tuples to different bits within the words
  allocated. The argument counts pairs
  without the division: twice the first position of row `i` is `(2n - i - 1) i`,
  rows do not overlap, and behind the last there are `n (n - 1) / 2` pairs.
  Then type correctness, `ArraysOwned`, `CountExact`, and the refinement
  `ImplementsSets`. `BInv` says that owners do not share arrays, arrays have the words of their
  capacity, the counter is the number of set bits and no bit beyond the last
  tuple is set; the last conjunct is what makes a bit count a set's size.

For every formula and every set of proper lemmas (`ArenaAssumption`):

* `StorageProofs` again: `RefsSound` and `WastedExact`. A collection happens in the middle of
  everything, so `AInv` says of the region, the trail, the list under `propagate`, the
  watch lists and the reasons together what each keeps of a clause: it is in
  use, or the list is dirty and cleaned before it is read. Reasons are harder:
  a reason outlives its option's value, and relocation drops the ones nothing
  protects; `locked` must hold for each one on the trail, which needs that
  the asserted literal is still the clause's first.
  The waste is exact because only clauses in use are removed, so none is
  counted twice, and because a collection reaches the clauses in use
  and no others: the new region is used up to the words that moved. That clauses
  weigh the same under their new references takes an induction over the old ones.

For every number of options and every bound on keys that leaves room for a shuffle
(`MaxKeyAssumption`):

* `StorageProofs` once more: `IndicesExact` and the refinement `ImplementsPool`, from
  `HeapInv`: array and indices are inverses, and while no key was rewritten
  under it the heap is ordered. `percolateUp` and `percolateDown` move a whole
  path of items at once, so the lemmas are about paths: a path upwards has one
  position on each level, and so has the path of first children downwards, which takes an
  induction from the leaves. `Rearranges` says that what a path places is what it
  took; `UpReady`, that the order is broken at one position only, which is what
  `insert` and `varBumpActivity` leave. `build` sinks the inner positions
  from the last to the first, and `OrderedFrom` says how far the order reaches. `stale`
  holds from the moment `get_solution` rewrites the order of a heap in use until the heap is
  rebuilt or empty: until then the order is not claimed, and array and indices still agree.

For every input, every file an earlier run may have left, every point at which a reducer
may stop and every command line (`StartupAssumption`: files hold formulas, beginnings of
formulas or nothing, an input that exists is a whole formula over all options, and a
reducer that does its work writes a whole one):

* `StorageProofs` at last: `SavedRowsValid` and `ReadersAgree`, from `StartInv`. The file
  the readers read says what the input says (`Faithful`), or is the beginning of one that
  does (`Broken`), or was there before the reducer failed (`Leftover`). `read_cnf` makes empty
  clauses of the missing ones, so a file with fewer clauses than it counts that does not hang
  the reader has no models, the
  sampler answers with an empty row, and indexing that row ends the program
  before it saves. The invariant ties `num_var` to the input's header,
  which is read first: that is why a row is indexed at all, and why a reduced file
  that names fewer options takes none away. A leftover file may add options; then, and only
  then, the rows are not promised to be valid for the input, but to be models of that
  file. A file whose clauses are not counted is excepted (see below).

For every number of options, every set of formulas and of assumptions, every bound on
learnt clauses, and every sequence of calls:

* `MinisatSearchProofs`: `WatchesComplete`, `DatabaseEquivalent` and `AnswersRight`,
  from the inductive invariant `MInv` (`SearchInvariant`), with a lemma per action. None
  of the three is inductive alone; `MInv` adds, in parts,
  * that each option is on the trail at most once, that a reason implies its
    literal from *earlier* facts, and that past the root a fact without a reason
    begins a level (`TrailInv`, `ReasonsInv`, `DecisionsInv`);
  * that the first levels make the assumptions true, and that their decisions are
    assumptions (`AssumedInv`, `DecisionsInv`): "unsat" is read off one false
    assumption, so everything that made it false must follow from the others;
  * how far propagation has come with each clause: for every fact already seen, a
    clause that watches the literal it made false has a true literal no later than
    it (`WatchInv`, `Seen`, `Passed`). After a conflict only facts of earlier
    levels count as seen, which is why jumping back restores completeness;
  * that a conflict is false and has a literal of the current level
    (`ConflictInv`), without which `analyze` would have nothing to resolve;
  * that the clauses given imply all that is held, and the clauses *not learnt*
    with the root facts imply the clauses given (`ModelsInv`). With learnt clauses
    in the second half `reduceDB` could not be proved harmless.

  A learnt clause is right because each step of the resolution keeps a `Clash`: its
  literals are false past the root, every model of what was given satisfies one of
  them, and those of the current level lie further and further back, so that one is left
  in the end. What the minimisation drops, and "unsat" under assumptions, go by
  the first fact of the trail at which a supposed model disagrees: its reason
  would be a clause the model falsifies.

For every number of options, every file, every choice of settings and every
threshold (`SearchAssumption`: a file has no empty clause, and a heuristic that reads
second-order gains has them kept):

* `PbOCCSATProofs`: all eight properties of `MCPbOCCSAT`, from the inductive
  invariant `SearchInv` (`SearchInvariant`), which TLC also checked as an invariant of that
  run. It says of each loop what it leaves when the whole sequence has been
  walked: a lemma for the loop's recursion carries the partial result from one
  position to the next. What the properties alone do not say:
  * `flip` changes the assignment, the counts and the stacks, and only `update` the
    gains. In between the gains are those of an assignment one flip away
    (`ScoresBehind`), and `update` must bring them over with the *new* counts and the
    sole satisfying option; for second-order gains also with the pair of
    the assignment before, which `sat_var` still holds;
  * what a clause of the flipped option adds to a gain is a difference of two
    contributions; that the increments `update_score` makes are that difference, case by
    case over the number of true literals, is the heart of `ScoresExact`;
  * a promising option is missing from its stack only if weights have
    fallen in this try (`Complete`, in `StackRight`): it is stacked where its gain rises or its
    configuration changes, and taken off only when neither holds;
  * smoothing and PAWS rewrite all weights and with them all gains at once; the weights' sum
    divided by the clauses must leave the remainder the next rise goes by
    (`Balanced`), and the list of heavy clauses must lose exactly those that
    fall back to 1 while the list itself is walked (`Listed`).

  A result is valid because an empty stack means no false clause, and the clauses built
  without repeats and tautologies have the models of the file.

Only model-checked: termination (`Terminates`, `Completes`: liveness is out of the
prover's reach; `Advances` proves that no run goes on forever, once one grants that
such numbers cannot fall forever, and not that a step is always possible) and the
two violations. No module has a
recursive operator.

## Not modelled

* `minisat/core/Solver.cc`, `core/Main.cc` and `simp/`: vendored, and not linked
  by the Makefile, which builds `minisat_ext/Solver` in their place. Of `utils` only the
  default values of options matter.
* Of the MiniSat core that is linked: the final conflict clause, which no caller
  reads, DIMACS output, statistics, the Luby numbers (a restart
  may happen any time), the maps `CMap` and `lbool`, running out of 32-bit
  addresses, and with them termination of a search.
* The Mersenne Twister: every outcome is allowed.
* The iterator of `SimpleBitSet`, and `update`, `increase` and `clear` of the heap:
  nothing calls them.
* Characters, comments and paths of files, and the log's wording.
* What follows undefined behaviour: a failed search returns no value
  (`cdclcasampler.cpp:329`, `no_row` in `Startup`), and a reduced file without
  a "p" line, or with one that ends before the number of clauses, leaves that number
  unset (`ReadCNF` takes it for any number and `SavedRowsValid` excepts the file), as one
  that ends before the number of options leaves that. The models stop there.
* Copying a `SimpleBitSet` without words, which the program never does.

## Plan

1. The core (done): `CNF`, `PairwiseCA`, `Sampling`, `FinalScan`, three
   strategies, refinement, proofs of the default program.
2. The bit set and its index (done): `TupleIndex`, `TupleBitSet` refining
   `TupleSets`, all of it proved.
3. The local search (done): `PbCaches`, `PbOCCSAT`, every setting it offers.
4. The CDCL search (done): `MinisatSearch`, `OrderHeap` refining `VarPool`,
   `ClauseArena` with its references and its waste proved.
5. Start, options and files (done): `Startup`.
6. Proofs of all strategies and of the counters (done).
7. Proof of the CDCL search (done): `MinisatSearchProofs`.
8. Proof of the local search (done): `PbOCCSATProofs`.
9. Proof of the heap and its refinement (done): `StorageProofs`.
10. Proof of `Startup` (done): `StorageProofs`.
11. Termination measures (done): `Advances`, in the three modules of strategies.
