--------------------------- MODULE MinisatSearch ---------------------------
(***************************************************************************)
(* The conflict-driven search of minisat_ext/Solver.cc behind both         *)
(* ExtMinisat::SamplingSolver and CDCLSolver::Solver: one solver object    *)
(* that is given the clauses once and then asked again and again, under    *)
(* assumptions or none, and keeps what it learnt in between.               *)
(*                                                                         *)
(* Watch lists: the list of a literal that becomes true is the clauses     *)
(* that watch its negation, in any order.  A blocker is a literal of the   *)
(* clause; if it is true the clause is passed over, so any true literal    *)
(* may be the blocker.  Clauses are detached at once: watches.cleanAll     *)
(* runs before lists are read.                                             *)
(* order_heap is the set of options in it and hands out any of them, which *)
(* module OrderHeap justifies; phases come from random numbers or from     *)
(* earlier assignments and are any.  Activities, restart intervals and     *)
(* limits decide only when to restart, simplify or forget clauses, and     *)
(* which: any time and any of those the code may choose from.              *)
(***************************************************************************)
EXTENDS CNF, FiniteSetsExt, SequencesExt

CONSTANTS
  Formulas,         \* the systems a solver may be given
  AssumptionLists,  \* what solve may be called with: sequences of literals
  MaxStarts         \* bound: how often search begins, in calls and restarts

ASSUME SolverAssumption ==
  /\ Formulas \subseteq Formula
  /\ AssumptionLists \subseteq Seq(Literal)
  /\ MaxStarts \in Nat

VARIABLES
  formula, added,   \* the clauses, and how many of them addClause_ was given
  pc,
  ok,
  db,               \* clauses and learnts: from CRefs to their literals and watches
  trail,            \* assigned literals with their reasons
  trail_lim,        \* the length of the trail when each decision level began
  qhead,
  visiting,         \* the rest of the watch list of the literal before qhead
  confl,
  order_heap,
  simpDB_assigns,
  assumptions,
  starts,           \* how often search began
  answer            \* of the last solve: <<>>, <<"unsat">> or <<"sat", model>>

searchVars == <<ok, db, trail, trail_lim, qhead, visiting, confl, order_heap, simpDB_assigns>>
callVars   == <<formula, added, assumptions, starts, answer>>
vars == <<callVars, pc, searchVars>>

None == 0   \* CRef_Undef

-----------------------------------------------------------------------------
(* Values, levels, reasons *)

TrueLits   == {trail[k].lit : k \in DOMAIN trail}
IsTrue(l)  == l \in TrueLits
IsFalse(l) == -l \in TrueLits
Assigned   == {LitVar(l) : l \in TrueLits}

PosOf(v) == CHOOSE k \in DOMAIN trail : LitVar(trail[k].lit) = v
Level(v) == Cardinality({i \in DOMAIN trail_lim : trail_lim[i] < PosOf(v)})

decisionLevel == Len(trail_lim)

Satisfied(c) == \E l \in db[c].lits : IsTrue(l)
Locked(c)    == \E k \in DOMAIN trail : trail[k].reason = c

\* A new clause under the least reference that is free.
NewRef == CHOOSE c \in 1 .. Cardinality(DOMAIN db) + 1 :
            c \notin DOMAIN db /\ \A d \in 1 .. c - 1 : d \in DOMAIN db

With(c, S, watch, learnt) ==
  [d \in DOMAIN db \cup {c} |->
     IF d = c THEN [lits |-> S, watch |-> watch, learnt |-> learnt] ELSE db[d]]

Without(C) == [c \in DOMAIN db \ C |-> db[c]]

uncheckedEnqueue(l, reason) == trail' = Append(trail, [lit |-> l, reason |-> reason])

\* Fault: options that lose their value do not return to the heap.
CancelledLost(level, heap) ==
  [trail |-> SubSeq(trail, 1, trail_lim[level + 1]),
   lim   |-> SubSeq(trail_lim, 1, level),
   heap  |-> heap]

\* cancelUntil(level), for a level below the current one, with what is in the
\* heap; qhead follows the trail.
Cancelled(level, heap) ==
  [trail |-> SubSeq(trail, 1, trail_lim[level + 1]),
   lim   |-> SubSeq(trail_lim, 1, level),
   heap  |-> heap \cup {LitVar(trail[k].lit) : k \in trail_lim[level + 1] + 1 .. Len(trail)}]

\* solve_ ends: cancelUntil(0).
BackToRoot(heap) ==
  IF decisionLevel = 0
  THEN order_heap' = heap /\ UNCHANGED <<trail, trail_lim, qhead>>
  ELSE /\ trail' = Cancelled(0, heap).trail
       /\ trail_lim' = <<>>
       /\ qhead' = trail_lim[1]
       /\ order_heap' = Cancelled(0, heap).heap

-----------------------------------------------------------------------------
(* Adding the clauses *)

Init ==
  /\ formula \in Formulas
  /\ added = 0
  /\ pc = "add"
  /\ ok = TRUE
  /\ db = [c \in {} |-> None]
  /\ trail = <<>> /\ trail_lim = <<>> /\ qhead = 0
  /\ visiting = {} /\ confl = None
  /\ order_heap = Var
  /\ simpDB_assigns = -1
  /\ assumptions = <<>>
  /\ starts = 0
  /\ answer = <<>>

\* The literals of the next clause that are not false.
NextLits == {l \in ToSet(formula[added + 1]) : ~IsFalse(l)}

\* The two literals that come first when the clause is sorted.
FirstTwo(S) == {l \in S : Cardinality({m \in S : LitVar(m) < LitVar(l)}) < 2}

\* addClause_ up to its propagation.
AddClause ==
  /\ pc = "add" /\ added < Len(formula)
  /\ added' = added + 1
  /\ LET S    == NextLits
         drop == ~ok \/ \E l \in S : IsTrue(l) \/ -l \in S
     IN  IF drop
         THEN UNCHANGED <<pc, ok, db, trail>>
         ELSE CASE S = {} ->
                     ok' = FALSE /\ UNCHANGED <<pc, db, trail>>
                [] Cardinality(S) = 1 ->
                     /\ \E l \in S : uncheckedEnqueue(l, None)
                     /\ pc' = "add_propagate"
                     /\ UNCHANGED <<ok, db>>
                [] OTHER ->
                     /\ db' = With(NewRef, S, FirstTwo(S), FALSE)
                     /\ UNCHANGED <<pc, ok, trail>>
  /\ UNCHANGED <<formula, assumptions, starts, answer, trail_lim, qhead, visiting, confl,
                 order_heap, simpDB_assigns>>

AllAdded ==
  /\ pc = "add" /\ added = Len(formula)
  /\ pc' = "idle"
  /\ UNCHANGED <<callVars, searchVars>>

-----------------------------------------------------------------------------
(* propagate *)

Propagating == pc \in {"add_propagate", "propagate"}

\* The next fact of the queue.
TakeLiteral ==
  /\ Propagating /\ visiting = {} /\ qhead < Len(trail)
  /\ qhead' = qhead + 1
  /\ visiting' = {c \in DOMAIN db : -trail[qhead + 1].lit \in db[c].watch}
  /\ UNCHANGED <<callVars, pc, ok, db, trail, trail_lim, confl, order_heap, simpDB_assigns>>

\* The watched literal that is not the false one under visit.
OtherWatch(c) == CHOOSE l \in db[c].watch : l # -trail[qhead].lit

\* Literals that may be watched instead.
NewWatches(c) == {l \in db[c].lits \ db[c].watch : ~IsFalse(l)}

PassSatisfied(c) ==
  /\ Propagating /\ c \in visiting /\ Satisfied(c)
  /\ visiting' = visiting \ {c}
  /\ UNCHANGED <<callVars, pc, ok, db, trail, trail_lim, qhead, confl, order_heap, simpDB_assigns>>

MoveWatch(c) ==
  /\ Propagating /\ c \in visiting /\ ~IsTrue(OtherWatch(c))
  /\ \E l \in NewWatches(c) : db' = [db EXCEPT ![c].watch = {OtherWatch(c), l}]
  /\ visiting' = visiting \ {c}
  /\ UNCHANGED <<callVars, pc, ok, trail, trail_lim, qhead, confl, order_heap, simpDB_assigns>>

ImplyOther(c) ==
  /\ Propagating /\ c \in visiting /\ NewWatches(c) = {}
  /\ ~IsTrue(OtherWatch(c)) /\ ~IsFalse(OtherWatch(c))
  /\ uncheckedEnqueue(OtherWatch(c), c)
  /\ visiting' = visiting \ {c}
  /\ UNCHANGED <<callVars, pc, ok, db, trail_lim, qhead, confl, order_heap, simpDB_assigns>>

FindConflict(c) ==
  /\ Propagating /\ c \in visiting /\ NewWatches(c) = {} /\ IsFalse(OtherWatch(c))
  /\ confl' = c
  /\ qhead' = Len(trail)
  /\ visiting' = {}
  /\ UNCHANGED <<callVars, pc, ok, db, trail, trail_lim, order_heap, simpDB_assigns>>

\* The queue is empty: back to addClause_ or to search.
Propagated == Propagating /\ visiting = {} /\ qhead = Len(trail)

PropagatedClause ==
  /\ pc = "add_propagate" /\ Propagated
  /\ ok' = (confl = None)
  /\ confl' = None
  /\ pc' = "add"
  /\ UNCHANGED <<callVars, db, trail, trail_lim, qhead, visiting, order_heap, simpDB_assigns>>

-----------------------------------------------------------------------------
(* Conflicts *)

NonRoot(S) == {l \in S : Level(LitVar(l)) > 0}
AtTop(S)   == {l \in S : Level(LitVar(l)) = decisionLevel}

\* One literal of the current level is resolved with its reason, if another
\* one is left.
Resolved(S, e) ==
  IF -e.lit \in S /\ Cardinality(AtTop(S)) > 1
  THEN NonRoot((S \cup db[e.reason].lits) \ {e.lit, -e.lit})
  ELSE S

\* analyze: literals of the current level are resolved away, from the end of
\* the trail, until one is left.
FirstUIP(c) ==
  LET end == Len(trail) + 1
      from[k \in 1 .. end] ==
        IF k = end THEN NonRoot(db[c].lits) ELSE Resolved(from[k + 1], trail[k])
  IN  from[1]

\* Fault: a decision counts as following from the other literals.
MinimisedOverDecisions(S) ==
  LET seen   == {LitVar(l) : l \in S}
      gone[k \in DOMAIN trail] ==
        \/ trail[k].reason = None
        \/ \A r \in db[trail[k].reason].lits \ {trail[k].lit} :
             LET v == LitVar(r)
             IN  Level(v) = 0 \/ v \in seen \/ gone[PosOf(v)]
  IN  AtTop(S) \cup {l \in S : trail[PosOf(LitVar(l))].reason # None /\ ~gone[PosOf(LitVar(l))]}

\* litRedundant: a literal goes if its reason, followed back through reasons
\* at levels of the clause, ends in other literals of the clause.
Minimised(S) ==
  LET seen   == {LitVar(l) : l \in S}
      levels == {Level(v) : v \in seen}
      gone[k \in DOMAIN trail] ==
        /\ trail[k].reason # None
        /\ \A r \in db[trail[k].reason].lits \ {trail[k].lit} :
             LET v == LitVar(r)
             IN  Level(v) = 0 \/ v \in seen \/ (Level(v) \in levels /\ gone[PosOf(v)])
  IN  AtTop(S) \cup {l \in S : ~gone[PosOf(LitVar(l))]}

\* Fault: any other literal of the learnt clause is watched.
SecondWatchesAny(low) == low

\* out_learnt[1]: a literal of the highest level below the asserting one.
SecondWatches(low) == {l \in low : \A m \in low : Level(LitVar(m)) <= Level(LitVar(l))}

\* The conflict is turned into a clause, which is asserted after the jump back.
Learn ==
  /\ pc = "propagate" /\ Propagated /\ confl # None /\ decisionLevel > 0
  /\ LET clause  == Minimised(FirstUIP(confl))
         uip     == CHOOSE l \in clause : l \in AtTop(clause)
         low     == clause \ {uip}
         btlevel == Max({0} \cup {Level(LitVar(l)) : l \in low})
         back    == Cancelled(btlevel, order_heap)
     IN  /\ IF low = {}
            THEN /\ trail' = Append(back.trail, [lit |-> uip, reason |-> None])
                 /\ UNCHANGED db
            ELSE \E l \in SecondWatches(low) :
                   /\ db' = With(NewRef, clause, {uip, l}, TRUE)
                   /\ trail' = Append(back.trail, [lit |-> uip, reason |-> NewRef])
         /\ trail_lim' = back.lim
         /\ order_heap' = back.heap
         /\ qhead' = Len(back.trail)
  /\ confl' = None
  /\ UNCHANGED <<callVars, pc, ok, visiting, simpDB_assigns>>

\* A conflict without any decision.
RootConflict ==
  /\ pc = "propagate" /\ Propagated /\ confl # None /\ decisionLevel = 0
  /\ ok' = FALSE
  /\ confl' = None
  /\ answer' = <<"unsat">>
  /\ pc' = "idle"
  /\ UNCHANGED <<formula, added, assumptions, starts, db, trail, trail_lim, qhead, visiting,
                 order_heap, simpDB_assigns>>

-----------------------------------------------------------------------------
(* solve and search *)

\* Both solvers refuse when simplify() does.
SolveRefused ==
  /\ pc = "idle" /\ ~ok
  /\ assumptions' \in AssumptionLists
  /\ answer' = <<"unsat">>
  /\ UNCHANGED <<formula, added, starts, pc, searchVars>>

Solve ==
  /\ pc = "idle" /\ ok /\ starts < MaxStarts
  /\ starts' = starts + 1
  /\ assumptions' \in AssumptionLists
  /\ answer' = <<>>
  /\ pc' = "propagate"
  /\ UNCHANGED <<formula, added, searchVars>>

\* The bound on conflicts is reached, whenever that is: search starts over.
Restart ==
  /\ pc = "propagate" /\ Propagated /\ confl = None /\ decisionLevel > 0
  /\ starts < MaxStarts
  /\ starts' = starts + 1
  /\ BackToRoot(order_heap)
  /\ UNCHANGED <<formula, added, assumptions, answer, pc, ok, db, visiting, confl, simpDB_assigns>>

\* Learnt clauses of more than two literals that no literal was implied by.
Reducible == {c \in DOMAIN db : db[c].learnt /\ Cardinality(db[c].lits) > 2 /\ ~Locked(c)}

\* simplify(), at the root only, drops satisfied clauses.  It returns early when
\* nothing was assigned since or too few propagations were made, which may be
\* any time.  reduceDB() then forgets clauses, if there are too many.
NoConflict ==
  /\ pc = "propagate" /\ Propagated /\ confl = None
  /\ pc' = "decide"
  /\ \E R \in SUBSET Reducible :
       \/ db' = Without(R) /\ UNCHANGED <<trail, order_heap, simpDB_assigns>>
       \/ /\ decisionLevel = 0 /\ Len(trail) # simpDB_assigns
          /\ LET C == {c \in DOMAIN db : Satisfied(c)}
             IN  /\ db' = Without(C \cup R)
                 /\ trail' = [k \in DOMAIN trail |->
                                IF trail[k].reason \in C THEN [trail[k] EXCEPT !.reason = None]
                                ELSE trail[k]]
          /\ order_heap' = Var \ Assigned
          /\ simpDB_assigns' = Len(trail)
  /\ UNCHANGED <<callVars, ok, trail_lim, qhead, visiting, confl>>

\* The solver need not be asked again.
NoMoreCalls == pc = "idle" /\ UNCHANGED vars

NewLevel == trail_lim' = Append(trail_lim, Len(trail))

Assuming == pc = "decide" /\ decisionLevel < Len(assumptions)
NextAssumption == assumptions[decisionLevel + 1]

AssumeTrue ==
  /\ Assuming /\ IsTrue(NextAssumption)
  /\ NewLevel
  /\ UNCHANGED <<callVars, pc, ok, db, trail, qhead, visiting, confl, order_heap, simpDB_assigns>>

\* analyzeFinal leaves the assumption in `conflict', so that ok stays true.
AssumeFalse ==
  /\ Assuming /\ IsFalse(NextAssumption)
  /\ answer' = <<"unsat">>
  /\ BackToRoot(order_heap)
  /\ pc' = "idle"
  /\ UNCHANGED <<formula, added, assumptions, starts, ok, db, visiting, confl, simpDB_assigns>>

AssumeNext ==
  /\ Assuming /\ ~IsTrue(NextAssumption) /\ ~IsFalse(NextAssumption)
  /\ NewLevel
  /\ uncheckedEnqueue(NextAssumption, None)
  /\ pc' = "propagate"
  /\ UNCHANGED <<callVars, ok, db, qhead, visiting, confl, order_heap, simpDB_assigns>>

Deciding == pc = "decide" /\ decisionLevel >= Len(assumptions)

\* pickBranchLit: options with a value that come first are popped as well.
Decide ==
  /\ Deciding
  /\ \E v \in order_heap \ Assigned, popped \in SUBSET (order_heap \cap Assigned), b \in Bit :
       /\ order_heap' = order_heap \ (popped \cup {v})
       /\ uncheckedEnqueue(ToLit(v, b), None)
  /\ NewLevel
  /\ pc' = "propagate"
  /\ UNCHANGED <<callVars, ok, db, qhead, visiting, confl, simpDB_assigns>>

\* pickBranchLit empties the heap and finds no option without a value: a model,
\* undefined (-1) for an option that has none.
ModelFound ==
  /\ Deciding /\ order_heap \subseteq Assigned
  /\ answer' = <<"sat", [v \in Var |-> IF IsTrue(ToLit(v, 1)) THEN 1
                                       ELSE IF IsTrue(ToLit(v, 0)) THEN 0 ELSE -1]>>
  /\ BackToRoot({})
  /\ pc' = "idle"
  /\ UNCHANGED <<formula, added, assumptions, starts, ok, db, visiting, confl, simpDB_assigns>>

Next ==
  \/ AddClause \/ AllAdded \/ PropagatedClause
  \/ TakeLiteral
  \/ \E c \in visiting : PassSatisfied(c) \/ MoveWatch(c) \/ ImplyOther(c) \/ FindConflict(c)
  \/ Learn \/ RootConflict
  \/ Solve \/ SolveRefused \/ NoConflict \/ Restart \/ NoMoreCalls
  \/ AssumeTrue \/ AssumeFalse \/ AssumeNext \/ Decide \/ ModelFound

Spec == Init /\ [][Next]_vars

-----------------------------------------------------------------------------
(* Properties *)

\* Whenever propagate is done, every clause is watched in two of its literals,
\* and a false one is watched only in a clause that a literal set no later
\* makes true: after any jump back no implication and no conflict is missed.
WatchesComplete ==
  pc \in {"idle", "decide"} /\ ok =>
    \A c \in DOMAIN db :
      /\ db[c].watch \subseteq db[c].lits /\ Cardinality(db[c].watch) = 2
      /\ \A w \in db[c].watch :
           IsFalse(w) => \E l \in db[c].lits : IsTrue(l) /\ Level(LitVar(l)) <= Level(LitVar(w))

RootLits == {trail[k].lit : k \in 1 .. IF decisionLevel = 0 THEN Len(trail) ELSE trail_lim[1]}

\* The models of what the solver holds: clauses, learnt ones, facts.
HeldModels ==
  {tc \in TestCase : /\ \A c \in DOMAIN db : \E l \in db[c].lits : Holds(tc, l)
                  /\ \A l \in RootLits : Holds(tc, l)}

\* What is learnt, dropped as satisfied, forgotten or refused never changes
\* the models: the solver holds the clauses it was given, neither more nor
\* less, and gives up for good only if they have no model.
DatabaseEquivalent ==
  Models(SubSeq(formula, 1, added)) = IF ok THEN HeldModels ELSE {}

\* A model gives every option a value, satisfies all clauses and all the
\* assumptions of the call; "unsat" is said only if no such model exists, in
\* this call and after any earlier ones.
AnswersRight ==
  LET allowed == {tc \in Models(formula) : \A l \in ToSet(assumptions) : Holds(tc, l)}
  IN  pc = "idle" /\ answer # <<>> =>
        IF answer[1] = "sat" THEN answer[2] \in allowed ELSE allowed = {}
=============================================================================
