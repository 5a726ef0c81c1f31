---------------------------- MODULE ClauseArena ----------------------------
(***************************************************************************)
(* Where minisat_ext/Solver.cc keeps its clauses: ClauseAllocator is one   *)
(* region of memory into which CRefs point from clauses, learnts, the      *)
(* watch lists and the reasons of the trail.  A clause that is removed     *)
(* stays where it is; its watchers are dropped later, when a list is       *)
(* cleaned; once a fifth of the region is waste, relocAll moves what it    *)
(* can reach to a new region and rewrites every reference it knows of.     *)
(*                                                                         *)
(* A CRef is the clause's place in the region, counted in clauses; size    *)
(* and waste are counted in words.  Relocation keeps the order of the      *)
(* clauses, as nothing compares CRefs but for equality.  A watch list is   *)
(* the set of its CRefs; a blocker is some literal of the clause.          *)
(* Module MinisatSearch shows what the search concludes.  Here conflicts   *)
(* may teach any clause that is asserted after the jump back, decisions    *)
(* are any, and levels without a decision, which assumptions that hold     *)
(* open, are left out.                                                     *)
(***************************************************************************)
EXTENDS CNF, Functions

CONSTANTS
  Formulas,       \* what the solver may be given
  Lemmas,         \* what it may learn
  MaxConflicts    \* bound on conflicts

\* Literals of options of their own, two of them at least.
ProperClause(lits) ==
  /\ lits \in Seq(Literal) /\ Len(lits) >= 2
  /\ \A i, j \in DOMAIN lits : LitVar(lits[i]) = LitVar(lits[j]) => i = j

ASSUME ArenaAssumption ==
  /\ Formulas \subseteq Seq(Clause)
  /\ \A lits \in Lemmas : ProperClause(lits)
  /\ MaxConflicts \in Nat

VARIABLES
  formula, added,     \* the clauses, and how many of them addClause_ was given
  pc,
  ca,                 \* the region: from CRefs to clauses
  top,                \* the next CRef
  sz, wasted_,        \* words used, and words of removed clauses
  clauses, learnts,
  watches, dirty,     \* OccLists: watchers by literal, and lists that are dirty
  trail, trail_lim, qhead,
  visiting,           \* the rest of the list that propagate walks
  reason,             \* vardata: stays when an option loses its value
  conflicts

arenaVars == <<ca, top, sz, wasted_, clauses, learnts>>
trailVars == <<trail, trail_lim, reason>>
addVars   == <<formula, added>>
vars == <<addVars, pc, arenaVars, watches, dirty, trailVars, qhead, visiting, conflicts>>

CRef_Undef == -1

-----------------------------------------------------------------------------
IsTrue(l)  == \E k \in DOMAIN trail : trail[k] = l
IsFalse(l) == \E k \in DOMAIN trail : trail[k] = -l
Assigned   == {LitVar(trail[k]) : k \in DOMAIN trail}

decisionLevel == Len(trail_lim)

FirstTwo(c) == {ca[c].lits[1], ca[c].lits[2]}

Satisfied(c) == \E i \in DOMAIN ca[c].lits : IsTrue(ca[c].lits[i])
locked(c)    == IsTrue(ca[c].lits[1]) /\ reason[LitVar(ca[c].lits[1])] = c

\* clauseWord32Size: a header, the literals, the activity of a learnt clause.
Words(c) == 1 + Len(c.lits) + IF c.learnt THEN 1 ELSE 0

WordsOf(C) ==
  SumOver(1 .. top, [n \in 1 .. top |-> IF n - 1 \in C THEN Words(ca[n - 1]) ELSE 0])

\* alloc and attachClause.
Attach(lits, learnt) ==
  LET c == [lits |-> lits, learnt |-> learnt, mark |-> 0]
  IN  /\ ca' = [a \in DOMAIN ca \cup {top} |-> IF a = top THEN c ELSE ca[a]]
      /\ top' = top + 1
      /\ sz' = sz + Words(c)
      /\ watches' = [l \in Literal |-> IF -l \in {lits[1], lits[2]} THEN watches[l] \cup {top}
                                       ELSE watches[l]]

\* uncheckedEnqueue after the trail was cut back to kept.
Enqueue(kept, l, from) ==
  /\ trail' = Append(kept, l)
  /\ reason' = [reason EXCEPT ![LitVar(l)] = from]

\* What cancelUntil leaves of the trail.
Kept(level) == IF level < decisionLevel THEN SubSeq(trail, 1, trail_lim[level + 1]) ELSE trail

CancelUntil(level) ==
  /\ trail' = Kept(level)
  /\ trail_lim' = SubSeq(trail_lim, 1, level)
  /\ qhead' = IF level < decisionLevel THEN trail_lim[level + 1] ELSE qhead
  /\ UNCHANGED reason

-----------------------------------------------------------------------------
(* Adding the clauses *)

Init ==
  /\ formula \in Formulas /\ added = 0
  /\ pc = "add"
  /\ ca = [a \in {} |-> <<>>] /\ top = 0 /\ sz = 0 /\ wasted_ = 0
  /\ clauses = {} /\ learnts = {}
  /\ watches = [l \in Literal |-> {}] /\ dirty = {}
  /\ trail = <<>> /\ trail_lim = <<>> /\ qhead = 0 /\ visiting = {}
  /\ reason = [v \in Var |-> CRef_Undef]
  /\ conflicts = 0

\* Fault: lists are believed to be clean.
NotCleaned == watches

\* OccLists::cleanAll: dirty lists lose the watchers of removed clauses.
Cleaned ==
  [l \in Literal |-> IF l \in dirty THEN {c \in watches[l] : ca[c].mark = 0} ELSE watches[l]]

\* propagate starts.
StartPropagate ==
  /\ pc' = "propagate"
  /\ watches' = Cleaned
  /\ dirty' = {}

\* The literals of S, in order.
Sorted(S) ==
  {lits \in [1 .. Cardinality(S) -> S] :
     \A i, j \in 1 .. Cardinality(S) : i < j => LitVar(lits[i]) < LitVar(lits[j])}

\* addClause_: the clause is sorted, and false and repeated literals go.
AddClause ==
  /\ pc = "add" /\ added < Len(formula)
  /\ added' = added + 1
  /\ LET S == {l \in Range(formula[added + 1]) : ~IsFalse(l)}
     IN  IF \E l \in S : IsTrue(l) \/ -l \in S
         THEN UNCHANGED <<pc, arenaVars, watches, dirty, trailVars>>
         ELSE \E lits \in Sorted(S) :
                CASE S = {} ->
                       pc' = "stopped" /\ UNCHANGED <<arenaVars, watches, dirty, trailVars>>
                  [] Cardinality(S) = 1 ->
                       /\ Enqueue(trail, lits[1], CRef_Undef)
                       /\ StartPropagate
                       /\ UNCHANGED <<arenaVars, trail_lim>>
                  [] OTHER ->
                       /\ Attach(lits, FALSE)
                       /\ clauses' = clauses \cup {top}
                       /\ UNCHANGED <<pc, wasted_, learnts, dirty, trailVars>>
  /\ UNCHANGED <<formula, qhead, visiting, conflicts>>

\* solve: search begins by propagating.
Solve ==
  /\ pc = "add" /\ added = Len(formula)
  /\ StartPropagate
  /\ UNCHANGED <<addVars, arenaVars, trailVars, qhead, visiting, conflicts>>

-----------------------------------------------------------------------------
(* propagate *)

TakeLiteral ==
  /\ pc = "propagate" /\ visiting = {} /\ qhead < Len(trail)
  /\ qhead' = qhead + 1
  /\ visiting' = watches[trail[qhead + 1]]
  /\ UNCHANGED <<addVars, pc, arenaVars, watches, dirty, trailVars, conflicts>>

\* s with its i-th and j-th element exchanged.
Exchanged(s, i, j) == [s EXCEPT ![i] = s[j], ![j] = s[i]]

\* The clause with the literal that became false second.
FalseSecond(c) ==
  LET lits == ca[c].lits
  IN  IF lits[1] = -trail[qhead] THEN Exchanged(lits, 1, 2) ELSE lits

\* A literal beyond the watched ones that is not false, the first of them.
NewWatch(lits) ==
  {k \in 3 .. Len(lits) : ~IsFalse(lits[k]) /\ \A j \in 3 .. k - 1 : IsFalse(lits[j])}

AllFalse(lits) == \A k \in 3 .. Len(lits) : IsFalse(lits[k])

\* The blocker is true: the clause is not looked at.
PassBlocked(c) ==
  /\ pc = "propagate" /\ c \in visiting /\ Satisfied(c)
  /\ visiting' = visiting \ {c}
  /\ UNCHANGED <<addVars, pc, arenaVars, watches, dirty, trailVars, qhead, conflicts>>

PassSatisfied(c) ==
  /\ pc = "propagate" /\ c \in visiting /\ IsTrue(FalseSecond(c)[1])
  /\ ca' = [ca EXCEPT ![c].lits = FalseSecond(c)]
  /\ visiting' = visiting \ {c}
  /\ UNCHANGED <<addVars, pc, top, sz, wasted_, clauses, learnts, watches, dirty, trailVars, qhead,
                 conflicts>>

MoveWatch(c) ==
  /\ pc = "propagate" /\ c \in visiting
  /\ LET lits == FalseSecond(c)
     IN  /\ ~IsTrue(lits[1])
         /\ \E k \in NewWatch(lits) :
              /\ ca' = [ca EXCEPT ![c].lits = Exchanged(lits, 2, k)]
              /\ watches' = [watches EXCEPT ![trail[qhead]] = @ \ {c}, ![-lits[k]] = @ \cup {c}]
  /\ visiting' = visiting \ {c}
  /\ UNCHANGED <<addVars, pc, top, sz, wasted_, clauses, learnts, dirty, trailVars, qhead,
                 conflicts>>

ImplyFirst(c) ==
  /\ pc = "propagate" /\ c \in visiting
  /\ LET lits == FalseSecond(c)
     IN  /\ AllFalse(lits) /\ ~IsTrue(lits[1]) /\ ~IsFalse(lits[1])
         /\ ca' = [ca EXCEPT ![c].lits = lits]
         /\ Enqueue(trail, lits[1], c)
  /\ visiting' = visiting \ {c}
  /\ UNCHANGED <<addVars, pc, top, sz, wasted_, clauses, learnts, watches, dirty, trail_lim, qhead,
                 conflicts>>

\* Without a decision this is the end of the solver.
FindConflict(c) ==
  /\ pc = "propagate" /\ c \in visiting
  /\ LET lits == FalseSecond(c)
     IN  /\ AllFalse(lits) /\ IsFalse(lits[1])
         /\ ca' = [ca EXCEPT ![c].lits = lits]
  /\ visiting' = {}
  /\ qhead' = Len(trail)
  /\ pc' = IF decisionLevel = 0 THEN "stopped" ELSE "conflict"
  /\ UNCHANGED <<addVars, top, sz, wasted_, clauses, learnts, watches, dirty, trailVars, conflicts>>

NoConflict ==
  /\ pc = "propagate" /\ visiting = {} /\ qhead = Len(trail)
  /\ pc' = IF added < Len(formula) THEN "add" ELSE "simplify"
  /\ UNCHANGED <<addVars, arenaVars, watches, dirty, trailVars, qhead, visiting, conflicts>>

-----------------------------------------------------------------------------
(* search *)

UnsetIn(kept, l) == \A k \in DOMAIN kept : kept[k] # l /\ kept[k] # -l
FalseIn(kept, l) == \E k \in DOMAIN kept : kept[k] = -l

\* cancelUntil, then the learnt clause is attached and asserted; no list is
\* dirty since the last propagate.
Learn(level, lits) ==
  /\ pc = "conflict" /\ conflicts < MaxConflicts
  /\ UnsetIn(Kept(level), lits[1])
  /\ \A i \in 2 .. Len(lits) : FalseIn(Kept(level), lits[i])
  /\ conflicts' = conflicts + 1
  /\ Attach(lits, TRUE)
  /\ learnts' = learnts \cup {top}
  /\ trail_lim' = SubSeq(trail_lim, 1, level)
  /\ qhead' = trail_lim[level + 1]
  /\ Enqueue(Kept(level), lits[1], top)
  /\ pc' = "propagate"
  /\ UNCHANGED <<addVars, wasted_, clauses, dirty, visiting>>

\* A learnt clause of one literal is not kept.
LearnUnit(l) ==
  /\ pc = "conflict" /\ conflicts < MaxConflicts
  /\ UnsetIn(Kept(0), l)
  /\ conflicts' = conflicts + 1
  /\ trail_lim' = <<>>
  /\ qhead' = trail_lim[1]
  /\ Enqueue(Kept(0), l, CRef_Undef)
  /\ pc' = "propagate"
  /\ UNCHANGED <<addVars, arenaVars, watches, dirty, visiting>>

\* A restart, a model or a false assumption; then search begins again.
BackToRoot ==
  /\ pc \in {"simplify", "decide"} /\ decisionLevel > 0
  /\ CancelUntil(0)
  /\ StartPropagate
  /\ UNCHANGED <<addVars, arenaVars, visiting, conflicts>>

Decide(l) ==
  /\ pc = "decide" /\ ~IsTrue(l) /\ ~IsFalse(l)
  /\ trail_lim' = Append(trail_lim, Len(trail))
  /\ Enqueue(trail, l, CRef_Undef)
  /\ StartPropagate
  /\ UNCHANGED <<addVars, arenaVars, qhead, visiting, conflicts>>

-----------------------------------------------------------------------------
(* Removing clauses *)

\* Fault: reasons are not looked at.
ReasonsKept(R) == reason

\* removeClause: a clause in R that is the reason of its first literal is
\* not left as that.
ReasonsWithout(R) ==
  [v \in Var |-> IF \E c \in R : locked(c) /\ LitVar(ca[c].lits[1]) = v THEN CRef_Undef
                 ELSE reason[v]]

\* removeClause for the clauses in R: lazy detaching.
RemoveClauses(R) ==
  /\ reason' = ReasonsWithout(R)
  /\ dirty' = dirty \cup {-l : l \in UNION {FirstTwo(c) : c \in R}}
  /\ ca' = [c \in DOMAIN ca |-> IF c \in R THEN [ca[c] EXCEPT !.mark = 1] ELSE ca[c]]
  /\ wasted_' = wasted_ + WordsOf(R)
  /\ learnts' = learnts \ R
  /\ clauses' = clauses \ R
  /\ UNCHANGED <<top, sz, watches>>

\* simplify removes satisfied clauses, at the root.
Simplify ==
  /\ pc = "simplify" /\ decisionLevel = 0
  /\ RemoveClauses({c \in clauses \cup learnts : Satisfied(c)})
  /\ pc' = "simplified"
  /\ UNCHANGED <<addVars, trail, trail_lim, qhead, visiting, conflicts>>

\* It returns early: nothing new is assigned or too little was propagated.
SimplifyNothing ==
  /\ pc = "simplify"
  /\ pc' = "reduce"
  /\ UNCHANGED <<addVars, arenaVars, watches, dirty, trailVars, qhead, visiting, conflicts>>

\* reduceDB forgets learnt clauses that are not locked; which of them is a
\* matter of activities.
ReduceDB(R) ==
  /\ pc = "reduce"
  /\ \A c \in R : Len(ca[c].lits) > 2 /\ ~locked(c)
  /\ RemoveClauses(R)
  /\ pc' = "reduced"
  /\ UNCHANGED <<addVars, trail, trail_lim, qhead, visiting, conflicts>>

\* What relocAll reaches: through the lists, once they are clean; as reasons
\* on the trail that are moved already or locked; as learnt or given clauses.
Watched  == UNION {Cleaned[l] : l \in Literal}
MovedReason(v) == reason[v] # CRef_Undef /\ (reason[v] \in Watched \/ locked(reason[v]))
Reached  == Watched \cup {reason[v] : v \in {w \in Assigned : MovedReason(w)}} \cup learnts \cup clauses

NewRef(c) == Cardinality({d \in Reached : d < c})

garbageCollect ==
  /\ ca' = [a \in {NewRef(c) : c \in Reached} |-> ca[CHOOSE c \in Reached : NewRef(c) = a]]
  /\ top' = Cardinality(Reached)
  /\ sz' = WordsOf(Reached)
  /\ wasted_' = 0
  /\ watches' = [l \in Literal |-> {NewRef(c) : c \in Cleaned[l]}]
  /\ dirty' = {}
  /\ reason' = [v \in Var |-> IF v \in Assigned /\ MovedReason(v) THEN NewRef(reason[v])
                              ELSE reason[v]]
  /\ learnts' = {NewRef(c) : c \in learnts}
  /\ clauses' = {NewRef(c) : c \in clauses}

\* checkGarbage with garbage_frac = 0.2.
checkGarbage ==
  /\ pc \in {"simplified", "reduced"}
  /\ IF 5 * wasted_ > sz THEN garbageCollect ELSE UNCHANGED <<arenaVars, watches, dirty, reason>>
  /\ pc' = IF pc = "simplified" THEN "reduce" ELSE "decide"
  /\ UNCHANGED <<addVars, trail, trail_lim, qhead, visiting, conflicts>>

Next ==
  \/ AddClause \/ Solve \/ TakeLiteral \/ NoConflict
  \/ \E c \in visiting : PassBlocked(c) \/ PassSatisfied(c) \/ MoveWatch(c) \/ ImplyFirst(c)
                         \/ FindConflict(c)
  \/ \E level \in 0 .. decisionLevel - 1, lits \in Lemmas : Learn(level, lits)
  \/ \E l \in Literal : LearnUnit(l) \/ Decide(l)
  \/ BackToRoot \/ Simplify \/ SimplifyNothing \/ checkGarbage
  \/ \E R \in SUBSET learnts : ReduceDB(R)

Spec == Init /\ [][Next]_vars

-----------------------------------------------------------------------------
(* Properties *)

Live == {c \in DOMAIN ca : ca[c].mark = 0}

\* No reference is left behind.  The clauses in use are those in clauses and
\* learnts, and each is watched by its first two literals; a list that still
\* leads to a removed clause is dirty; the reason of a literal on the trail is
\* a clause in use that has it first and whose other literals were false
\* before it, so that locked protects it.
RefsSound ==
  /\ clauses \cup learnts = Live
  /\ \A c \in Live, l \in Literal : c \in watches[l] <=> -l \in FirstTwo(c)
  /\ \A l \in Literal : watches[l] \subseteq DOMAIN ca /\ (l \notin dirty => watches[l] \subseteq Live)
  /\ \A k \in DOMAIN trail :
       LET c == reason[LitVar(trail[k])]
       IN  c # CRef_Undef =>
             /\ c \in Live /\ ca[c].lits[1] = trail[k]
             /\ \A i \in 2 .. Len(ca[c].lits) : \E j \in 1 .. k - 1 : trail[j] = -ca[c].lits[i]

\* The waste that is counted is what a collection frees: the words of the
\* clauses that are removed and nothing else.
WastedExact ==
  sz = WordsOf(DOMAIN ca) /\ wasted_ = WordsOf(DOMAIN ca \ Live)
=============================================================================
