------------------------ MODULE MinisatSearchProofs ------------------------
(***************************************************************************)
(* Proof that the CDCL search is right in every call, for every number of  *)
(* options, all formulas and all assumptions: its watches miss nothing,    *)
(* what it learns and forgets changes no model, and its answers are true.  *)
(***************************************************************************)
EXTENDS MinisatSearch, CNFProofs

-----------------------------------------------------------------------------
(* The inductive invariant *)

\* Clauses m, the trail tr and the lengths lim it had when levels began.
Entry     == [lits : SUBSET Literal, watch : SUBSET Literal, learnt : BOOLEAN]
Fact      == [lit : Literal, reason : Nat]
Database  == UNION {[R -> Entry] : R \in SUBSET (Nat \ {None})}

TwoWatched(e) == \E a, b \in e.lits : a # b /\ e.watch = {a, b}

DatabaseInv(m) ==
  /\ m \in Database /\ IsFiniteSet(DOMAIN m)
  /\ \A c \in DOMAIN m : TwoWatched(m[c])

\* Every option has its place on the trail, and levels begin in order.
TrailInv(tr, lim) ==
  /\ tr \in Seq(Fact) /\ lim \in Seq(Nat)
  /\ \A i, j \in DOMAIN tr : LitVar(tr[i].lit) = LitVar(tr[j].lit) => i = j
  /\ \A i \in DOMAIN lim : lim[i] <= Len(tr)
  /\ \A i, j \in DOMAIN lim : i <= j => lim[i] <= lim[j]

TrueBy(tr, k, l)  == \E j \in 1 .. k : tr[j].lit = l

\* A reason implies its literal from facts before it.
ReasonsInv(m, tr) ==
  \A k \in DOMAIN tr : tr[k].reason # None =>
    /\ tr[k].reason \in DOMAIN m
    /\ tr[k].lit \in m[tr[k].reason].lits
    /\ \A l \in m[tr[k].reason].lits \ {tr[k].lit} : TrueBy(tr, k - 1, -l)

AtRoot(lim, k) == lim = <<>> \/ k <= lim[1]

\* Past the root, a fact without a reason began its level, and if the level is
\* one of the assumptions', it is one of them.
DecisionsInv(tr, lim, asked) ==
  \A k \in DOMAIN tr : tr[k].reason = None /\ ~AtRoot(lim, k) =>
    \E i \in DOMAIN lim :
      /\ lim[i] = k - 1 /\ (i < Len(lim) => k <= lim[i + 1])
      /\ i <= Len(asked) => tr[k].lit \in ToSet(asked)

\* The first levels make the assumptions true, one each.
AssumedInv(tr, lim, asked) ==
  \A i \in 1 .. Len(lim) : i \in DOMAIN asked =>
    /\ i < Len(lim) => TrueBy(tr, lim[i + 1], asked[i])
    /\ i = Len(lim) => TrueBy(tr, Len(tr), asked[i])

HeapInv(tr, heap) ==
  heap \subseteq Var /\ \A v \in Var \ heap : \E k \in DOMAIN tr : LitVar(tr[k].lit) = v

StackInv(m, tr, lim, asked, heap) ==
  TrailInv(tr, lim) /\ ReasonsInv(m, tr) /\ DecisionsInv(tr, lim, asked) /\ HeapInv(tr, heap)

\* Fact j is of the level of fact k or an earlier one.
NoLater(lim, j, k) == \A i \in DOMAIN lim : k <= lim[i] => j <= lim[i]

\* Fact k is through with clause c; after a conflict only facts of earlier
\* levels are.
Seen(c, k) == IF confl = None THEN k < qhead \/ (k = qhead /\ c \notin visiting)
                              ELSE trail_lim # <<>> /\ k <= trail_lim[decisionLevel]

\* If entry e watches what fact k made false, an earlier fact or one of the same
\* level makes e true.
Passed(e, tr, lim, k) ==
  -tr[k].lit \in e.watch => \E j \in DOMAIN tr : tr[j].lit \in e.lits /\ NoLater(lim, j, k)

WatchInv ==
  \A c \in DOMAIN db, k \in DOMAIN trail : Seen(c, k) => Passed(db[c], trail, trail_lim, k)

QueueInv ==
  /\ qhead \in 0 .. Len(trail)
  /\ trail_lim # <<>> => trail_lim[decisionLevel] <= qhead
  /\ visiting \subseteq DOMAIN db
  /\ visiting # {} =>
       /\ Propagating /\ confl = None
       /\ qhead > 0 /\ (trail_lim # <<>> => trail_lim[decisionLevel] < qhead)
       /\ \A c \in visiting : -trail[qhead].lit \in db[c].watch
  /\ ~Propagating => qhead = Len(trail) /\ confl = None

\* All literals of a conflict are false, one of them by the current level.
ConflictInv ==
  confl # None =>
    /\ confl \in DOMAIN db /\ qhead = Len(trail) /\ visiting = {}
    /\ \A l \in db[confl].lits : TrueBy(trail, Len(trail), -l)
    /\ trail_lim # <<>> =>
         \E l \in db[confl].lits : ~TrueBy(trail, trail_lim[decisionLevel], -l)

SatisfiedBy(tc, m, c) == \E l \in m[c].lits : Holds(tc, l)
Given == Models(SubSeq(formula, 1, added))

RootHolds(tc, tr, lim) == \A k \in DOMAIN tr : AtRoot(lim, k) => Holds(tc, tr[k].lit)

\* The models of what was given satisfy all that is held ...
GivenHold(m, tr, lim) ==
  \A tc \in Given : (\A c \in DOMAIN m : SatisfiedBy(tc, m, c)) /\ RootHolds(tc, tr, lim)

\* ... and what was given follows from clauses that were not learnt and facts
\* without decisions.
HeldGive(m, tr, lim) ==
  \A tc \in TestCase :
    (\A c \in DOMAIN m : ~m[c].learnt => SatisfiedBy(tc, m, c)) /\ RootHolds(tc, tr, lim)
    => tc \in Given

ModelsInv ==
  IF ok THEN GivenHold(db, trail, trail_lim) /\ HeldGive(db, trail, trail_lim) ELSE Given = {}

CallInv ==
  /\ formula \in Formulas /\ added \in 0 .. Len(formula)
  /\ assumptions \in Seq(Literal)
  /\ ok \in BOOLEAN
  /\ pc \in {"add", "add_propagate", "idle", "propagate", "decide"}
  /\ pc \in {"add", "add_propagate"} => answer = <<>>
  /\ pc \in {"idle", "propagate", "decide"} => added = Len(formula)
  /\ pc \in {"add", "add_propagate", "idle"} => trail_lim = <<>>
  /\ pc \in {"add_propagate", "propagate", "decide"} => ok

MInv ==
  /\ CallInv
  /\ DatabaseInv(db)
  /\ StackInv(db, trail, trail_lim, assumptions, order_heap)
  /\ AssumedInv(trail, trail_lim, assumptions)
  /\ QueueInv /\ ConflictInv /\ (ok => WatchInv) /\ ModelsInv /\ AnswersRight

-----------------------------------------------------------------------------
(* Numbers, sets and functions *)

\* The positions of an ordered sequence that lie below p come first.
LEMMA CutOrdered ==
  ASSUME NEW lim \in Seq(Nat), \A i, j \in DOMAIN lim : i <= j => lim[i] <= lim[j],
         NEW p \in Nat
  PROVE  LET below == Cardinality({i \in DOMAIN lim : lim[i] < p})
         IN  /\ below \in 0 .. Len(lim)
             /\ \A i \in DOMAIN lim : i <= below <=> lim[i] < p
<1>. DEFINE X == {i \in DOMAIN lim : lim[i] < p}
            B == (1 .. Len(lim) + 1) \ X
<1>1. B \subseteq Nat /\ Len(lim) + 1 \in B /\ Len(lim) \in Nat /\ DOMAIN lim = 1 .. Len(lim)
  OBVIOUS
<1>2. PICK b \in B : \A k \in B : b <= k
  <2>. HIDE DEF B
  <2>. QED BY <1>1, NatMinimum
<1>3. b \in 1 .. Len(lim) + 1 /\ b \notin X
  OBVIOUS
<1>4. ASSUME NEW i \in 1 .. b - 1 PROVE i \in X
  <2>1. i \in 1 .. Len(lim) + 1 /\ ~(b <= i)
    BY <1>3, <1>1
  <2>. QED BY <2>1, <1>2
<1>5. ASSUME NEW i \in X PROVE i \in 1 .. b - 1
  <2>1. i \in 1 .. Len(lim) /\ lim[i] < p /\ lim[i] \in Nat
    BY <1>1
  <2>2. CASE b <= i
    <3>1. b \in DOMAIN lim /\ i \in DOMAIN lim
      BY <2>1, <2>2, <1>3, <1>1
    <3>2. lim[b] <= lim[i] /\ lim[b] \in Nat
      BY <3>1, <2>2
    <3>. QED BY <3>1, <3>2, <2>1, <1>3
  <2>. QED BY <2>1, <2>2, <1>3
<1>6. X = 1 .. b - 1
  BY <1>4, <1>5
<1>7. Cardinality(1 .. b - 1) = b - 1
  BY <1>3, FS_Interval
<1>8. ASSUME NEW i \in DOMAIN lim PROVE i <= b - 1 <=> lim[i] < p
  <2>1. i \in X <=> i \in 1 .. b - 1
    BY <1>6
  <2>. QED BY <2>1, <1>1, <1>3
<1>9. Cardinality(X) = b - 1
  <2>. HIDE DEF X
  <2>. QED BY <1>6, <1>7
<1>10. b - 1 \in 0 .. Len(lim)
  BY <1>1, <1>3
<1>. QED BY <1>8, <1>9, <1>10

-----------------------------------------------------------------------------
(* The trail and its levels *)

LEMMA TrailTypes ==
  ASSUME NEW tr, NEW lim, TrailInv(tr, lim)
  PROVE  /\ Len(tr) \in Nat /\ DOMAIN tr = 1 .. Len(tr)
         /\ \A k \in DOMAIN tr : k \in Nat /\ tr[k].lit \in Literal /\ tr[k].reason \in Nat
         /\ Len(lim) \in Nat /\ DOMAIN lim = 1 .. Len(lim)
         /\ \A i \in DOMAIN lim : i \in Nat /\ lim[i] \in Nat /\ lim[i] <= Len(tr)
<1>1. tr \in Seq(Fact) /\ lim \in Seq(Nat) /\ \A i \in DOMAIN lim : lim[i] <= Len(tr)
  BY DEF TrailInv
<1>2. \A k \in DOMAIN tr : k \in Nat /\ tr[k] \in Fact
  BY <1>1
<1>. QED BY <1>1, <1>2 DEF Fact

\* A literal on the trail, as it is or negated, is found at its place; its
\* level counts the levels that had begun before it.
LEMMA PlaceAndLevel ==
  ASSUME TrailInv(trail, trail_lim), NEW k \in DOMAIN trail, NEW l \in Literal,
         LitVar(l) = LitVar(trail[k].lit)
  PROVE  /\ PosOf(LitVar(l)) = k
         /\ l = trail[k].lit \/ l = -trail[k].lit
         /\ Level(LitVar(l)) \in 0 .. decisionLevel
         /\ \A i \in DOMAIN trail_lim : i <= Level(LitVar(l)) <=> trail_lim[i] < k
<1>1. trail[k].lit \in Literal /\ k \in Nat
  BY TrailTypes
<1>2. PosOf(LitVar(l)) = k
  BY DEF PosOf, TrailInv
<1>3. l = trail[k].lit \/ l = -trail[k].lit
  BY <1>1, LiteralFacts
<1>4. /\ trail_lim \in Seq(Nat)
      /\ \A i, j \in DOMAIN trail_lim : i <= j => trail_lim[i] <= trail_lim[j]
  BY DEF TrailInv
<1>5. Level(LitVar(l)) = Cardinality({i \in DOMAIN trail_lim : trail_lim[i] < k})
  BY <1>2 DEF Level
<1>. QED BY <1>1, <1>2, <1>3, <1>4, <1>5, CutOrdered DEF decisionLevel

\* The comparisons of levels that the code makes, as places on the trail.
LEMMA LevelByPlace ==
  ASSUME TrailInv(trail, trail_lim), NEW k \in DOMAIN trail
  PROVE  /\ Level(LitVar(trail[k].lit)) = 0 <=> AtRoot(trail_lim, k)
         /\ Level(LitVar(trail[k].lit)) = decisionLevel <=>
              (trail_lim = <<>> \/ trail_lim[decisionLevel] < k)
<1>. DEFINE K == Level(LitVar(trail[k].lit))
<1>1. trail[k].lit \in Literal /\ k \in Nat
  BY TrailTypes
<1>2. K \in 0 .. decisionLevel /\ \A i \in DOMAIN trail_lim : i <= K <=> trail_lim[i] < k
  BY <1>1, PlaceAndLevel
<1>. HIDE DEF K
<1>3. trail_lim \in Seq(Nat) /\ decisionLevel \in Nat /\ DOMAIN trail_lim = 1 .. decisionLevel
  BY TrailTypes DEF TrailInv, decisionLevel
<1>4. CASE trail_lim = <<>>
  <2>1. decisionLevel = 0
    BY <1>4 DEF decisionLevel
  <2>2. K = 0
    BY <1>2, <2>1
  <2>. QED BY <1>4, <2>1, <2>2 DEF AtRoot, K
<1>5. CASE trail_lim # <<>>
  <2>1. decisionLevel >= 1
    BY <1>5, <1>3 DEF decisionLevel
  <2>2. 1 \in DOMAIN trail_lim /\ decisionLevel \in DOMAIN trail_lim
    BY <2>1, <1>3
  <2>3. trail_lim[1] \in Nat /\ trail_lim[decisionLevel] \in Nat
    BY <2>2, <1>3
  <2>4. 1 <= K <=> trail_lim[1] < k
    BY <1>2, <2>2
  <2>5. decisionLevel <= K <=> trail_lim[decisionLevel] < k
    BY <1>2, <2>2
  <2>6. K = 0 <=> AtRoot(trail_lim, k)
    BY <1>1, <1>2, <1>3, <1>5, <2>3, <2>4 DEF AtRoot
  <2>7. K = decisionLevel <=> trail_lim[decisionLevel] < k
    BY <1>2, <1>3, <2>5
  <2>. QED BY <1>5, <2>6, <2>7 DEF K
<1>. QED BY <1>4, <1>5

LEMMA NoLaterByLevel ==
  ASSUME TrailInv(trail, trail_lim), NEW j \in DOMAIN trail, NEW k \in DOMAIN trail
  PROVE  NoLater(trail_lim, j, k) <=> Level(LitVar(trail[j].lit)) <= Level(LitVar(trail[k].lit))
<1>. DEFINE J == Level(LitVar(trail[j].lit))
            K == Level(LitVar(trail[k].lit))
<1>1. trail[j].lit \in Literal /\ trail[k].lit \in Literal /\ j \in Nat /\ k \in Nat
  BY TrailTypes
<1>2. J \in 0 .. decisionLevel /\ \A i \in DOMAIN trail_lim : i <= J <=> trail_lim[i] < j
  BY <1>1, PlaceAndLevel
<1>3. K \in 0 .. decisionLevel /\ \A i \in DOMAIN trail_lim : i <= K <=> trail_lim[i] < k
  BY <1>1, PlaceAndLevel
<1>. HIDE DEF J, K
<1>4. decisionLevel \in Nat /\ DOMAIN trail_lim = 1 .. decisionLevel
  BY TrailTypes DEF decisionLevel
<1>5. \A i \in DOMAIN trail_lim : trail_lim[i] \in Nat /\ i \in Nat
  BY TrailTypes
<1>6. ASSUME J <= K, NEW i \in DOMAIN trail_lim, k <= trail_lim[i] PROVE j <= trail_lim[i]
  <2>1. i \in Nat /\ trail_lim[i] \in Nat
    BY <1>5
  <2>2. i <= K <=> trail_lim[i] < k
    BY <1>3
  <2>3. i <= J <=> trail_lim[i] < j
    BY <1>2
  <2>4. J \in Nat /\ K \in Nat
    BY <1>2, <1>3, <1>4
  <2>. QED BY <2>1, <2>2, <2>3, <2>4, <1>1, <1>6
<1>7. ASSUME ~(J <= K), NoLater(trail_lim, j, k) PROVE FALSE
  <2>1. J \in DOMAIN trail_lim /\ J \in Nat /\ K \in Nat
    BY <1>2, <1>3, <1>4, <1>7
  <2>2. trail_lim[J] \in Nat /\ trail_lim[J] < j
    BY <2>1, <1>2, <1>5
  <2>3. ~(trail_lim[J] < k)
    BY <2>1, <1>3, <1>7
  <2>4. k <= trail_lim[J]
    BY <2>2, <2>3, <1>1
  <2>5. j <= trail_lim[J]
    BY <2>1, <2>4, <1>7 DEF NoLater
  <2>. QED BY <2>2, <2>5, <1>1
<1>8. NoLater(trail_lim, j, k) <=> J <= K
  BY <1>6, <1>7 DEF NoLater
<1>. QED BY <1>8 DEF J, K

\* No literal is true and false.
LEMMA TrailConsistent ==
  ASSUME NEW tr, NEW lim, TrailInv(tr, lim), NEW j \in DOMAIN tr, NEW k \in DOMAIN tr
  PROVE  tr[j].lit # -tr[k].lit /\ (tr[j].lit = tr[k].lit => j = k)
<1>1. tr[j].lit \in Literal /\ tr[k].lit \in Literal
  BY TrailTypes
<1>. QED BY <1>1, LiteralFacts DEF TrailInv

-----------------------------------------------------------------------------
(* What a fact, a level and a jump back do to the trail *)

\* uncheckedEnqueue of a literal whose option has no value.
LEMMA FactPushed ==
  ASSUME NEW m, NEW tr, NEW lim, NEW asked, NEW heap, StackInv(m, tr, lim, asked, heap),
         NEW l \in Literal, NEW r \in Nat,
         \A k \in DOMAIN tr : LitVar(tr[k].lit) # LitVar(l),
         r # None => /\ r \in DOMAIN m /\ l \in m[r].lits
                     /\ \A x \in m[r].lits \ {l} : TrueBy(tr, Len(tr), -x),
         r = None /\ lim # <<>> =>
           lim[Len(lim)] = Len(tr) /\ (Len(lim) <= Len(asked) => l \in ToSet(asked))
  PROVE  StackInv(m, Append(tr, [lit |-> l, reason |-> r]), lim, asked, heap)
<1>. DEFINE n  == Len(tr)
            t2 == Append(tr, [lit |-> l, reason |-> r])
<1>1. TrailInv(tr, lim) /\ ReasonsInv(m, tr) /\ DecisionsInv(tr, lim, asked) /\ HeapInv(tr, heap)
  BY DEF StackInv
<1>2. /\ n \in Nat /\ DOMAIN tr = 1 .. n
      /\ Len(lim) \in Nat /\ DOMAIN lim = 1 .. Len(lim)
      /\ \A i \in DOMAIN lim : i \in Nat /\ lim[i] \in Nat /\ lim[i] <= n
  BY <1>1, TrailTypes
<1>3. /\ t2 \in Seq(Fact) /\ Len(t2) = n + 1 /\ DOMAIN t2 = 1 .. n + 1
      /\ \A k \in 1 .. n : t2[k] = tr[k]
      /\ t2[n + 1] = [lit |-> l, reason |-> r]
  <2>1. tr \in Seq(Fact) /\ [lit |-> l, reason |-> r] \in Fact
    BY <1>1 DEF TrailInv, Fact
  <2>. QED BY <2>1
<1>. HIDE DEF t2
<1>4. TrailInv(t2, lim)
  <2>1. ASSUME NEW i \in DOMAIN t2, NEW j \in DOMAIN t2,
               LitVar(t2[i].lit) = LitVar(t2[j].lit)
        PROVE  i = j
    <3>1. (i \in 1 .. n \/ i = n + 1) /\ (j \in 1 .. n \/ j = n + 1)
      BY <1>2, <1>3
    <3>2. CASE i \in 1 .. n /\ j \in 1 .. n
      BY <3>2, <2>1, <1>1, <1>2, <1>3 DEF TrailInv
    <3>3. CASE i = n + 1 /\ j \in 1 .. n
      BY <3>3, <2>1, <1>2, <1>3
    <3>4. CASE i \in 1 .. n /\ j = n + 1
      BY <3>4, <2>1, <1>2, <1>3
    <3>. QED BY <3>1, <3>2, <3>3, <3>4
  <2>2. \A i \in DOMAIN lim : lim[i] <= Len(t2)
    BY <1>2, <1>3
  <2>. QED BY <2>1, <2>2, <1>1, <1>3 DEF TrailInv
<1>5. ReasonsInv(m, t2)
  <2>. SUFFICES ASSUME NEW k \in 1 .. n + 1, t2[k].reason # None
                PROVE  /\ t2[k].reason \in DOMAIN m
                       /\ t2[k].lit \in m[t2[k].reason].lits
                       /\ \A x \in m[t2[k].reason].lits \ {t2[k].lit} : TrueBy(t2, k - 1, -x)
    BY <1>3 DEF ReasonsInv
  <2>1. CASE k \in 1 .. n
    <3>1. \A j \in 1 .. k - 1 : t2[j] = tr[j]
      BY <1>2, <1>3, <2>1
    <3>2. \A x : TrueBy(tr, k - 1, x) => TrueBy(t2, k - 1, x)
      BY <3>1 DEF TrueBy
    <3>3. t2[k] = tr[k] /\ k \in DOMAIN tr
      BY <2>1, <1>2, <1>3
    <3>. QED BY <3>2, <3>3, <1>1 DEF ReasonsInv
  <2>2. CASE k = n + 1
    <3>1. \A x : TrueBy(tr, n, x) => TrueBy(t2, n, x)
      BY <1>3 DEF TrueBy
    <3>2. t2[k].lit = l /\ t2[k].reason = r /\ k - 1 = n
      BY <2>2, <1>2, <1>3
    <3>. QED BY <3>1, <3>2
  <2>. QED BY <2>1, <2>2, <1>2, SMTT(30)
<1>6. DecisionsInv(t2, lim, asked)
  <2>. SUFFICES ASSUME NEW k \in 1 .. n + 1, t2[k].reason = None, ~AtRoot(lim, k)
                PROVE  \E i \in DOMAIN lim :
                         /\ lim[i] = k - 1 /\ (i < Len(lim) => k <= lim[i + 1])
                         /\ i <= Len(asked) => t2[k].lit \in ToSet(asked)
    BY <1>3 DEF DecisionsInv
  <2>1. CASE k \in 1 .. n
    <3>1. t2[k] = tr[k] /\ k \in DOMAIN tr
      BY <2>1, <1>2, <1>3
    <3>. QED BY <3>1, <1>1 DEF DecisionsInv
  <2>2. CASE k = n + 1
    <3>1. t2[k].lit = l /\ r = None /\ lim # <<>>
      BY <2>2, <1>3 DEF AtRoot
    <3>2. Len(lim) \in DOMAIN lim
      BY <3>1, <1>1, <1>2 DEF TrailInv
    <3>3. lim[Len(lim)] = n /\ (Len(lim) <= Len(asked) => t2[k].lit \in ToSet(asked))
      BY <3>1
    <3>5. k - 1 = n
      BY <2>2, <1>2
    <3>4. ~(Len(lim) < Len(lim))
      BY <1>2
    <3>. QED BY <3>2, <3>3, <3>4, <3>5
  <2>3. k \in 1 .. n \/ k = n + 1
    BY <1>2
  <2>. QED BY <2>1, <2>2, <2>3
<1>7. HeapInv(t2, heap)
  BY <1>1, <1>2, <1>3 DEF HeapInv
<1>. QED BY <1>4, <1>5, <1>6, <1>7 DEF StackInv, t2

\* newDecisionLevel.
LEMMA LevelOpened ==
  ASSUME NEW m, NEW tr, NEW lim, NEW asked, NEW heap, StackInv(m, tr, lim, asked, heap)
  PROVE  StackInv(m, tr, Append(lim, Len(tr)), asked, heap)
<1>. DEFINE n == Len(lim)
            l2 == Append(lim, Len(tr))
<1>1. TrailInv(tr, lim) /\ ReasonsInv(m, tr) /\ DecisionsInv(tr, lim, asked) /\ HeapInv(tr, heap)
  BY DEF StackInv
<1>2. /\ Len(tr) \in Nat /\ DOMAIN tr = 1 .. Len(tr)
      /\ n \in Nat /\ DOMAIN lim = 1 .. n
      /\ \A i \in 1 .. n : lim[i] \in Nat /\ lim[i] <= Len(tr)
  BY <1>1, TrailTypes
<1>3. /\ l2 \in Seq(Nat) /\ Len(l2) = n + 1 /\ DOMAIN l2 = 1 .. n + 1
      /\ \A i \in 1 .. n : l2[i] = lim[i]
      /\ l2[n + 1] = Len(tr)
  BY <1>1, <1>2 DEF TrailInv
<1>. HIDE DEF l2
<1>4. TrailInv(tr, l2)
  <2>1. ASSUME NEW i \in 1 .. n + 1, NEW j \in 1 .. n + 1, i <= j PROVE l2[i] <= l2[j]
    <3>1. CASE j \in 1 .. n
      <4>1. i \in 1 .. n
        BY <3>1, <2>1, <1>2
      <4>2. lim[i] <= lim[j]
        BY <4>1, <3>1, <2>1, <1>1, <1>2 DEF TrailInv
      <4>. QED BY <4>1, <4>2, <3>1, <1>3
    <3>2. CASE j = n + 1
      <4>1. i \in 1 .. n \/ i = n + 1
        BY <1>2
      <4>. QED BY <4>1, <3>2, <1>2, <1>3
    <3>. QED BY <3>1, <3>2, <1>2
  <2>2. \A i \in 1 .. n + 1 : l2[i] <= Len(tr)
    <3>1. \A i \in 1 .. n + 1 : i \in 1 .. n \/ i = n + 1
      BY <1>2
    <3>. QED BY <3>1, <1>2, <1>3
  <2>. QED BY <2>1, <2>2, <1>1, <1>3 DEF TrailInv
<1>5. DecisionsInv(tr, l2, asked)
  <2>. SUFFICES ASSUME NEW k \in DOMAIN tr, tr[k].reason = None, ~AtRoot(l2, k)
                PROVE  \E i \in DOMAIN l2 :
                         /\ l2[i] = k - 1 /\ (i < Len(l2) => k <= l2[i + 1])
                         /\ i <= Len(asked) => tr[k].lit \in ToSet(asked)
    BY DEF DecisionsInv
  <2>1. k \in Nat /\ k <= Len(tr)
    BY <1>2
  <2>2. lim # <<>> /\ ~AtRoot(lim, k)
    <3>1. CASE lim = <<>>
      <4>1. n = 0
        BY <3>1
      <4>2. l2[1] = Len(tr)
        BY <4>1, <1>3
      <4>. QED BY <4>2, <2>1 DEF AtRoot
    <3>2. CASE lim # <<>>
      <4>1. 1 \in 1 .. n
        BY <3>2, <1>1, <1>2 DEF TrailInv
      <4>2. l2[1] = lim[1]
        BY <4>1, <1>3
      <4>. QED BY <3>2, <4>2 DEF AtRoot
    <3>. QED BY <3>1, <3>2
  <2>3. PICK i \in DOMAIN lim : /\ lim[i] = k - 1 /\ (i < n => k <= lim[i + 1])
                                /\ i <= Len(asked) => tr[k].lit \in ToSet(asked)
    BY <2>2, <1>1 DEF DecisionsInv
  <2>4. i \in 1 .. n /\ i \in DOMAIN l2 /\ l2[i] = lim[i]
    BY <1>2, <1>3
  <2>5. k <= l2[i + 1]
    <3>1. CASE i < n
      <4>1. i + 1 \in 1 .. n
        BY <3>1, <2>4, <1>2
      <4>2. i \in Nat /\ l2[i + 1] = lim[i + 1]
        BY <4>1, <2>4, <1>2, <1>3, SMTT(30)
      <4>. QED BY <4>2, <3>1, <2>3
    <3>2. CASE i = n
      BY <3>2, <1>3, <2>1
    <3>. QED BY <3>1, <3>2, <2>4, <1>2
  <2>6. l2[i] = k - 1 /\ (i < Len(l2) => k <= l2[i + 1])
    BY <2>3, <2>4, <2>5
  <2>. QED BY <2>3, <2>4, <2>6
<1>. QED BY <1>1, <1>4, <1>5 DEF StackInv, l2

\* The trail and the lengths up to a level.
CutTo(tr, lim, level, t2, l2) ==
  /\ lim[level + 1] \in Nat /\ lim[level + 1] <= Len(tr) /\ level + 1 \in DOMAIN lim
  /\ Len(t2) = lim[level + 1] /\ DOMAIN t2 = 1 .. lim[level + 1]
  /\ \A k \in 1 .. lim[level + 1] : t2[k] = tr[k]
  /\ Len(l2) = level /\ DOMAIN l2 = 1 .. level
  /\ \A i \in 1 .. level : l2[i] = lim[i] /\ lim[i] <= lim[level + 1]

\* cancelUntil.
LEMMA StackCut ==
  ASSUME NEW m, NEW tr, NEW lim, NEW asked, NEW heap, StackInv(m, tr, lim, asked, heap),
         NEW level \in Nat, level < Len(lim)
  PROVE  LET t2 == SubSeq(tr, 1, lim[level + 1])
             l2 == SubSeq(lim, 1, level)
             freed == {LitVar(tr[k].lit) : k \in lim[level + 1] + 1 .. Len(tr)}
         IN  CutTo(tr, lim, level, t2, l2) /\ StackInv(m, t2, l2, asked, heap \cup freed)
<1>. DEFINE p  == lim[level + 1]
            t2 == SubSeq(tr, 1, p)
            l2 == SubSeq(lim, 1, level)
            h2 == heap \cup {LitVar(tr[k].lit) : k \in p + 1 .. Len(tr)}
<1>1. TrailInv(tr, lim) /\ ReasonsInv(m, tr) /\ DecisionsInv(tr, lim, asked) /\ HeapInv(tr, heap)
  BY DEF StackInv
<1>2. /\ Len(tr) \in Nat /\ DOMAIN tr = 1 .. Len(tr)
      /\ Len(lim) \in Nat /\ DOMAIN lim = 1 .. Len(lim)
      /\ \A i \in 1 .. Len(lim) : lim[i] \in Nat /\ lim[i] <= Len(tr)
      /\ \A k \in DOMAIN tr : tr[k].lit \in Literal
  BY <1>1, TrailTypes
<1>3. level + 1 \in DOMAIN lim /\ p \in Nat /\ p <= Len(tr)
  BY <1>2
<1>. HIDE DEF p
<1>4. /\ t2 \in Seq(Fact) /\ Len(t2) = p /\ DOMAIN t2 = 1 .. p
      /\ \A k \in 1 .. p : t2[k] = tr[k] /\ k \in DOMAIN tr
  <2>1. tr \in Seq(Fact)
    BY <1>1 DEF TrailInv
  <2>. QED BY <2>1, <1>2, <1>3, SubSeqProperties, SMTT(30)
<1>5. /\ l2 \in Seq(Nat) /\ Len(l2) = level /\ DOMAIN l2 = 1 .. level
      /\ \A i \in 1 .. level : l2[i] = lim[i] /\ i \in DOMAIN lim
  <2>1. lim \in Seq(Nat)
    BY <1>1 DEF TrailInv
  <2>. QED BY <2>1, <1>2, SubSeqProperties, SMTT(30)
<1>. HIDE DEF t2, l2
<1>6. \A i \in 1 .. level : lim[i] <= p
  BY <1>1, <1>3, <1>5 DEF TrailInv, p
<1>7. TrailInv(t2, l2)
  <2>1. \A i, j \in 1 .. p : LitVar(t2[i].lit) = LitVar(t2[j].lit) => i = j
    BY <1>1, <1>4 DEF TrailInv
  <2>2. \A i, j \in 1 .. level : i <= j => l2[i] <= l2[j]
    BY <1>1, <1>5 DEF TrailInv
  <2>. QED BY <2>1, <2>2, <1>4, <1>5, <1>6 DEF TrailInv
<1>8. ReasonsInv(m, t2)
  <2>. SUFFICES ASSUME NEW k \in 1 .. p, t2[k].reason # None
                PROVE  /\ t2[k].reason \in DOMAIN m
                       /\ t2[k].lit \in m[t2[k].reason].lits
                       /\ \A x \in m[t2[k].reason].lits \ {t2[k].lit} : TrueBy(t2, k - 1, -x)
    BY <1>4 DEF ReasonsInv
  <2>1. \A j \in 1 .. k - 1 : t2[j] = tr[j]
    BY <1>3, <1>4
  <2>2. \A x : TrueBy(tr, k - 1, x) => TrueBy(t2, k - 1, x)
    BY <2>1 DEF TrueBy
  <2>. QED BY <2>2, <1>1, <1>4 DEF ReasonsInv
<1>9. DecisionsInv(t2, l2, asked)
  <2>. SUFFICES ASSUME NEW k \in 1 .. p, t2[k].reason = None, ~AtRoot(l2, k)
                PROVE  \E i \in DOMAIN l2 :
                         /\ l2[i] = k - 1 /\ (i < Len(l2) => k <= l2[i + 1])
                         /\ i <= Len(asked) => t2[k].lit \in ToSet(asked)
    BY <1>4 DEF DecisionsInv
  <2>1. level # 0 /\ 1 \in 1 .. level /\ l2[1] = lim[1] /\ l2 # <<>>
    BY <1>5 DEF AtRoot
  <2>2. ~AtRoot(lim, k) /\ k \in DOMAIN tr /\ t2[k] = tr[k]
    BY <2>1, <1>4, <1>5 DEF AtRoot
  <2>3. PICK i \in DOMAIN lim : /\ lim[i] = k - 1 /\ (i < Len(lim) => k <= lim[i + 1])
                                /\ i <= Len(asked) => tr[k].lit \in ToSet(asked)
    BY <2>2, <1>1 DEF DecisionsInv
  <2>4. i \in 1 .. level
    <3>1. i \in 1 .. Len(lim) /\ lim[i] < p
      <4>1. k \in Nat /\ k <= p /\ lim[i] = k - 1
        BY <2>3, <1>3
      <4>. QED BY <4>1, <1>2, <1>3
    <3>2. CASE level + 1 <= i
      <4>1. p <= lim[i]
        BY <3>2, <1>1, <1>3 DEF TrailInv, p
      <4>. QED BY <4>1, <3>1, <1>2, <1>3
    <3>. QED BY <3>1, <3>2, <1>2
  <2>5. i < level => k <= l2[i + 1]
    <3>. SUFFICES ASSUME i < level PROVE k <= l2[i + 1]
      OBVIOUS
    <3>1. i + 1 \in 1 .. level /\ i < Len(lim) /\ i \in Nat
      BY <2>4, <1>2
    <3>2. l2[i + 1] = lim[i + 1]
      BY <3>1, <1>5
    <3>. QED BY <3>1, <3>2, <2>3
  <2>6. i \in DOMAIN l2 /\ l2[i] = k - 1 /\ (i < Len(l2) => k <= l2[i + 1])
    BY <2>3, <2>4, <2>5, <1>5
  <2>. QED BY <2>2, <2>3, <2>6
<1>10. HeapInv(t2, h2)
  <2>1. h2 \subseteq Var
    BY <1>1, <1>2, <1>3, LiteralFacts DEF HeapInv
  <2>2. ASSUME NEW v \in Var \ h2 PROVE \E k \in DOMAIN t2 : LitVar(t2[k].lit) = v
    <3>1. PICK k \in DOMAIN tr : LitVar(tr[k].lit) = v
      BY <1>1 DEF HeapInv
    <3>2. k \notin p + 1 .. Len(tr)
      BY <3>1
    <3>3. k \in 1 .. p
      BY <3>2, <1>2, <1>3
    <3>. QED BY <3>1, <3>3, <1>4
  <2>. QED BY <2>1, <2>2 DEF HeapInv
<1>11. StackInv(m, t2, l2, asked, h2)
  BY <1>7, <1>8, <1>9, <1>10 DEF StackInv
<1>12. CutTo(tr, lim, level, t2, l2)
  BY <1>3, <1>4, <1>5, <1>6 DEF p, CutTo
<1>. QED BY <1>11, <1>12 DEF p, t2, l2

-----------------------------------------------------------------------------
(* Analysis of a conflict *)

\* A set of literals that all are false past the root, although every model of
\* what was given satisfies one.  One of the current level alone is left, or
\* those of the current level became false before place k.
Clash(S, k) ==
  /\ S \subseteq Literal
  /\ \A l \in S : TrueBy(trail, Len(trail), -l) /\ Level(LitVar(l)) # 0
  /\ \A tc \in Given : \E l \in S : Holds(tc, l)
  /\ AtTop(S) # {}
  /\ Cardinality(AtTop(S)) = 1 \/ \A l \in AtTop(S) : TrueBy(trail, k - 1, -l)

LEMMA FalseLevel ==
  ASSUME TrailInv(trail, trail_lim), NEW k \in DOMAIN trail, NEW l \in Literal,
         trail[k].lit = -l
  PROVE  /\ PosOf(LitVar(l)) = k
         /\ Level(LitVar(l)) \in Nat /\ Level(LitVar(l)) <= decisionLevel
         /\ Level(LitVar(l)) = 0 <=> AtRoot(trail_lim, k)
         /\ Level(LitVar(l)) = decisionLevel <=>
              (trail_lim = <<>> \/ trail_lim[decisionLevel] < k)
         /\ \A i \in DOMAIN trail_lim : i <= Level(LitVar(l)) <=> trail_lim[i] < k
<1>1. LitVar(l) = LitVar(trail[k].lit)
  BY LiteralFacts
<1>2. decisionLevel \in Nat
  BY TrailTypes DEF decisionLevel
<1>3. /\ PosOf(LitVar(l)) = k
      /\ Level(LitVar(l)) \in 0 .. decisionLevel
      /\ \A i \in DOMAIN trail_lim : i <= Level(LitVar(l)) <=> trail_lim[i] < k
  BY <1>1, PlaceAndLevel
<1>4. Level(LitVar(l)) \in Nat /\ Level(LitVar(l)) <= decisionLevel
  BY <1>2, <1>3
<1>. QED BY <1>1, <1>3, <1>4, LevelByPlace

LEMMA SeveralAtTop ==
  ASSUME NEW S, S \subseteq Literal, Cardinality(AtTop(S)) > 1, NEW p
  PROVE  \E q \in AtTop(S) : q # p
<1>. SUFFICES ASSUME \A q \in AtTop(S) : q = p PROVE FALSE
  OBVIOUS
<1>1. AtTop(S) \in SUBSET {p}
  OBVIOUS
<1>2. IsFiniteSet({p}) /\ Cardinality({p}) = 1
  BY FS_Singleton
<1>3. Cardinality(AtTop(S)) <= 1 /\ IsFiniteSet(AtTop(S))
  BY <1>1, <1>2, FS_Subset
<1>4. Cardinality(AtTop(S)) \in Nat
  BY <1>3, FS_CardinalityType
<1>. QED BY <1>3, <1>4

\* A step of analyze keeps the clash and moves its current level's part back.
LEMMA ClashResolved ==
  ASSUME DatabaseInv(db), StackInv(db, trail, trail_lim, assumptions, order_heap),
         GivenHold(db, trail, trail_lim), trail_lim # <<>>,
         NEW k \in DOMAIN trail, NEW S, Clash(S, k + 1)
  PROVE  Clash(Resolved(S, trail[k]), k)
<1>. DEFINE e == trail[k]
            p == -e.lit
            n == Len(trail)
<1>1. TrailInv(trail, trail_lim) /\ ReasonsInv(db, trail)
  BY DEF StackInv
<1>2. /\ n \in Nat /\ DOMAIN trail = 1 .. n /\ k \in 1 .. n
      /\ \A j \in DOMAIN trail : trail[j].lit \in Literal
      /\ e.lit \in Literal /\ p \in Literal /\ e.lit = -p
  BY <1>1, TrailTypes, LiteralFacts
<1>3. /\ S \subseteq Literal
      /\ \A l \in S : TrueBy(trail, n, -l) /\ Level(LitVar(l)) # 0
      /\ \A tc \in Given : \E l \in S : Holds(tc, l)
      /\ AtTop(S) # {} /\ AtTop(S) \subseteq S
      /\ Cardinality(AtTop(S)) = 1 \/ \A l \in AtTop(S) : TrueBy(trail, k, -l)
  BY <1>2 DEF Clash, AtTop
<1>4. \A j \in 1 .. n : trail[j].lit # -e.lit /\ (trail[j].lit = e.lit => j = k)
  BY <1>1, <1>2, TrailConsistent
<1>5. CASE ~(p \in S /\ Cardinality(AtTop(S)) > 1)
  <2>1. Resolved(S, e) = S
    BY <1>5 DEF Resolved
  <2>2. Cardinality(AtTop(S)) = 1 \/ \A l \in AtTop(S) : TrueBy(trail, k - 1, -l)
    <3>1. CASE p \in S
      <4>1. IsFiniteSet(AtTop(S))
        BY <1>3, LiteralsFinite
      <4>2. Cardinality(AtTop(S)) \in Nat /\ Cardinality(AtTop(S)) # 0
        BY <4>1, <1>3, FS_CardinalityType, FS_EmptySet
      <4>. QED BY <4>2, <3>1, <1>5
    <3>2. CASE p \notin S
      <4>1. ASSUME NEW l \in AtTop(S), TrueBy(trail, k, -l) PROVE TrueBy(trail, k - 1, -l)
        <5>1. PICK j \in 1 .. k : trail[j].lit = -l
          BY <4>1 DEF TrueBy
        <5>2. l \in S /\ l \in Literal /\ -(-l) = l
          BY <1>3, LiteralFacts
        <5>3. j # k
          BY <5>1, <5>2, <3>2
        <5>4. j \in 1 .. k - 1
          BY <5>1, <5>3, <1>2
        <5>. QED BY <5>1, <5>4 DEF TrueBy
      <4>. QED BY <4>1, <1>3
    <3>. QED BY <3>1, <3>2
  <2>. QED BY <2>1, <2>2, <1>3 DEF Clash
<1>6. CASE p \in S /\ Cardinality(AtTop(S)) > 1
  <2>. DEFINE R == db[e.reason].lits
              T == Resolved(S, e)
  <2>1. \A l \in AtTop(S) : TrueBy(trail, k, -l)
    BY <1>3, <1>6
  <2>2. PICK q \in AtTop(S) : q # p
    <3>1. S \subseteq Literal /\ Cardinality(AtTop(S)) > 1
      BY <1>3, <1>6
    <3>. HIDE DEF p
    <3>. QED BY <3>1, SeveralAtTop
  <2>3. PICK j \in 1 .. k : trail[j].lit = -q
    BY <2>1, <2>2 DEF TrueBy
  <2>4. q \in S /\ q \in Literal /\ j # k /\ j \in DOMAIN trail /\ j \in Nat /\ j < k
    <3>1. q \in S /\ q \in Literal /\ -(-q) = q
      BY <1>3, LiteralFacts
    <3>. QED BY <3>1, <2>2, <2>3, <1>2
  <2>5. trail_lim[decisionLevel] < j
    <3>1. Level(LitVar(q)) = decisionLevel
      BY DEF AtTop
    <3>. QED BY <3>1, <2>3, <2>4, <1>1, FalseLevel
  <2>6. e.reason # None
    <3>. SUFFICES ASSUME e.reason = None PROVE FALSE
      OBVIOUS
    <3>1. p \in Literal /\ Level(LitVar(p)) # 0 /\ trail[k].lit = -p
      BY <1>2, <1>3, <1>6
    <3>2. ~AtRoot(trail_lim, k)
      BY <3>1, <1>1, FalseLevel
    <3>3. PICK i \in DOMAIN trail_lim : trail_lim[i] = k - 1
      BY <3>2 DEF StackInv, DecisionsInv
    <3>4. /\ decisionLevel \in DOMAIN trail_lim /\ i <= decisionLevel
          /\ trail_lim[decisionLevel] \in Nat
      <4>1. decisionLevel \in Nat /\ DOMAIN trail_lim = 1 .. decisionLevel
        BY <1>1, TrailTypes DEF decisionLevel
      <4>2. decisionLevel # 0
        BY <3>3, <4>1
      <4>3. decisionLevel \in DOMAIN trail_lim
        BY <4>1, <4>2
      <4>. QED BY <4>1, <4>3, <3>3, <1>1, TrailTypes
    <3>5. trail_lim[i] <= trail_lim[decisionLevel]
      BY <3>3, <3>4, <1>1 DEF TrailInv
    <3>. QED BY <3>3, <3>4, <3>5, <2>4, <2>5, <1>2
  <2>7. /\ e.reason \in DOMAIN db /\ e.lit \in R /\ R \subseteq Literal
        /\ \A l \in R \ {e.lit} : TrueBy(trail, k - 1, -l)
    <3>1. /\ e.reason \in DOMAIN db /\ e.lit \in R
          /\ \A l \in R \ {e.lit} : TrueBy(trail, k - 1, -l)
      BY <2>6, <1>1 DEF ReasonsInv
    <3>2. db[e.reason] \in Entry
      BY <3>1 DEF DatabaseInv, Database
    <3>. QED BY <3>1, <3>2 DEF Entry
  <2>8. T = NonRoot((S \cup R) \ {e.lit, p})
    BY <1>6 DEF Resolved
  <2>. HIDE DEF T, R, e
  <2>9. \A l \in R \ {e.lit} : l # p /\ TrueBy(trail, n, -l)
    <3>. SUFFICES ASSUME NEW l \in R \ {e.lit} PROVE l # p /\ TrueBy(trail, n, -l)
      OBVIOUS
    <3>1. PICK i \in 1 .. k - 1 : trail[i].lit = -l
      BY <2>7 DEF TrueBy
    <3>2. i \in 1 .. n /\ i # k
      BY <3>1, <1>2
    <3>3. -l # e.lit
      BY <3>1, <3>2, <1>4
    <3>. QED BY <3>1, <3>2, <3>3, <1>2 DEF TrueBy
  <2>10. e.lit \notin S
    <3>1. ASSUME e.lit \in S PROVE FALSE
      <4>1. PICK i \in 1 .. n : trail[i].lit = -e.lit
        BY <3>1, <1>3 DEF TrueBy
      <4>. QED BY <4>1, <1>4
    <3>. QED BY <3>1
  <2>11. ASSUME NEW l \in (S \cup R) \ {e.lit, p}
         PROVE  l \in Literal /\ TrueBy(trail, n, -l)
    BY <1>3, <2>7, <2>9
  <2>12. ASSUME NEW l \in (S \cup R) \ {e.lit, p} PROVE l \in T <=> Level(LitVar(l)) # 0
    <3>1. PICK i \in 1 .. n : trail[i].lit = -l
      BY <2>11 DEF TrueBy
    <3>2. Level(LitVar(l)) \in Nat
      BY <3>1, <2>11, <1>1, <1>2, FalseLevel
    <3>. QED BY <3>2, <2>8 DEF NonRoot
  <2>13. T \subseteq (S \cup R) \ {e.lit, p}
    BY <2>8 DEF NonRoot
  <2>14. ASSUME NEW tc \in Given PROVE \E l \in T : Holds(tc, l)
    <3>0. tc \in TestCase
      BY DEF Given, Models
    <3>1. PICK l \in S : Holds(tc, l)
      BY <1>3
    <3>2. CASE l # p
      <4>1. l \in T
        BY <3>2, <2>10, <2>12, <1>3
      <4>. QED BY <4>1, <3>1
    <3>3. CASE l = p
      <4>1. ~Holds(tc, e.lit)
        BY <3>0, <3>1, <3>3, <1>2, LiteralFacts
      <4>2. PICK m \in R : Holds(tc, m)
        BY <2>7 DEF GivenHold, SatisfiedBy, R
      <4>3. m # e.lit /\ m # p /\ m \in Literal
        BY <4>1, <4>2, <2>7, <2>9
      <4>4. PICK i \in 1 .. n : trail[i].lit = -m
        BY <4>3, <2>11 DEF TrueBy
      <4>5. ~Holds(tc, trail[i].lit)
        BY <4>2, <4>3, <4>4, <3>0, LiteralFacts
      <4>6. ~AtRoot(trail_lim, i)
        BY <4>5, <4>4, <1>2 DEF GivenHold, RootHolds
      <4>7. Level(LitVar(m)) # 0
        BY <4>3, <4>4, <4>6, <1>1, <1>2, FalseLevel
      <4>. QED BY <4>2, <4>3, <4>7, <2>12
    <3>. QED BY <3>2, <3>3
  <2>15. q \in AtTop(T)
    <3>1. q \in T
      BY <2>2, <2>4, <2>10, <2>12, <1>3
    <3>. QED BY <3>1 DEF AtTop
  <2>16. ASSUME NEW l \in AtTop(T) PROVE TrueBy(trail, k - 1, -l)
    <3>1. l \in T /\ l # p /\ l # e.lit /\ (l \in S \/ l \in R)
      BY <2>13 DEF AtTop
    <3>2. CASE l \in R
      BY <3>1, <3>2, <2>7
    <3>3. CASE l \in S
      <4>1. l \in AtTop(S) /\ l \in Literal /\ -(-l) = l
        BY <3>3, <1>3, LiteralFacts DEF AtTop
      <4>2. PICK i \in 1 .. k : trail[i].lit = -l
        BY <4>1, <2>1 DEF TrueBy
      <4>3. i # k
        BY <3>1, <4>1, <4>2 DEF e
      <4>4. i \in 1 .. k - 1
        BY <4>3, <1>2
      <4>. QED BY <4>2, <4>4 DEF TrueBy
    <3>. QED BY <3>1, <3>2, <3>3
  <2>17. T \subseteq Literal /\ \A l \in T : TrueBy(trail, n, -l) /\ Level(LitVar(l)) # 0
    BY <2>11, <2>12, <2>13
  <2>18. Clash(T, k)
    BY <2>14, <2>15, <2>16, <2>17 DEF Clash
  <2>. QED BY <2>18 DEF T, e
<1>. QED BY <1>5, <1>6

\* analyze ends with a clash of one literal of the current level.
LEMMA FirstUIPClash ==
  ASSUME DatabaseInv(db), StackInv(db, trail, trail_lim, assumptions, order_heap),
         GivenHold(db, trail, trail_lim), ConflictInv, trail_lim # <<>>, confl # None
  PROVE  Clash(FirstUIP(confl), 1) /\ Cardinality(AtTop(FirstUIP(confl))) = 1
<1>. DEFINE n   == Len(trail)
            end == Len(trail) + 1
            IsFrom(f) == f = [k \in 1 .. end |-> IF k = end THEN NonRoot(db[confl].lits)
                                                 ELSE Resolved(f[k + 1], trail[k])]
            D == SUBSET (Literal \cup UNION {db[trail[k].reason].lits : k \in DOMAIN trail})
<1>1. TrailInv(trail, trail_lim)
  BY DEF StackInv
<1>2. n \in Nat /\ DOMAIN trail = 1 .. n /\ \A k \in DOMAIN trail : trail[k].lit \in Literal
  BY <1>1, TrailTypes
<1>3. /\ confl \in DOMAIN db /\ db[confl].lits \subseteq Literal
      /\ \A l \in db[confl].lits : TrueBy(trail, n, -l)
      /\ \E l \in db[confl].lits : ~TrueBy(trail, trail_lim[decisionLevel], -l)
  <2>1. /\ confl \in DOMAIN db
        /\ \A l \in db[confl].lits : TrueBy(trail, n, -l)
        /\ \E l \in db[confl].lits : ~TrueBy(trail, trail_lim[decisionLevel], -l)
    BY DEF ConflictInv
  <2>2. db[confl] \in Entry
    BY <2>1 DEF DatabaseInv, Database
  <2>. QED BY <2>1, <2>2 DEF Entry
<1>4. \E f : IsFrom(f)
  <2>. DEFINE step == [a \in (0 .. n) \X [0 .. n -> D] |->
                         IF a[1] = 0 THEN NonRoot(db[confl].lits)
                         ELSE Resolved(a[2][a[1] - 1], trail[end - a[1]])]
  <2>1. NonRoot(db[confl].lits) \in D
    BY <1>3 DEF NonRoot
  <2>2. ASSUME NEW S \in D, NEW k \in DOMAIN trail PROVE Resolved(S, trail[k]) \in D
    BY DEF Resolved, NonRoot
  <2>. HIDE DEF D
  <2>3. ASSUME NEW k \in 0 .. n, k # 0 PROVE k - 1 \in 0 .. n /\ end - k \in DOMAIN trail
    BY <2>3, <1>2
  <2>4. step \in [(0 .. n) \X [0 .. n -> D] -> D]
    <3>1. ASSUME NEW k \in 0 .. n, NEW f \in [0 .. n -> D]
          PROVE  (IF k = 0 THEN NonRoot(db[confl].lits)
                  ELSE Resolved(f[k - 1], trail[end - k])) \in D
      BY <2>1, <2>2, <2>3
    <3>. QED BY <3>1
  <2>5. ASSUME NEW k \in 0 .. n, NEW f \in [0 .. n -> D], NEW g \in [0 .. n -> D],
               \A j \in 0 .. n : j < k => f[j] = g[j]
        PROVE  step[<<k, f>>] = step[<<k, g>>]
    <3>1. k # 0 => f[k - 1] = g[k - 1]
      <4>. SUFFICES ASSUME k # 0 PROVE f[k - 1] = g[k - 1]
        OBVIOUS
      <4>1. k - 1 \in 0 .. n /\ k - 1 < k
        BY <2>3
      <4>. QED BY <4>1, <2>5
    <3>. QED BY <3>1
  <2>. HIDE DEF step
  <2>6. PICK g \in [0 .. n -> D] : \A k \in 0 .. n : g[k] = step[<<k, g>>]
    <3>1. LooksBack(0 .. n, D, step)
      BY <2>4, <2>5 DEF LooksBack
    <3>2. NonRoot(db[confl].lits) \in D /\ n \in Nat /\ 0 .. n \in SUBSET (0 .. n)
      BY <2>1, <1>2
    <3>. HIDE DEF n
    <3>3. \E g : Recursive(0 .. n, D, step, g)
      BY <3>1, <3>2, RecursiveFunction
    <3>. QED BY <3>3 DEF Recursive
  <2>7. \A k \in 0 .. n : g[k] = IF k = 0 THEN NonRoot(db[confl].lits)
                                 ELSE Resolved(g[k - 1], trail[end - k])
    BY <2>6 DEF step
  <2>. DEFINE f == [k \in 1 .. end |-> g[end - k]]
  <2>8. ASSUME NEW k \in 1 .. end
        PROVE  f[k] = IF k = end THEN NonRoot(db[confl].lits) ELSE Resolved(f[k + 1], trail[k])
    <3>1. end - k \in 0 .. n /\ f[k] = g[end - k]
      BY <1>2
    <3>2. CASE k = end
      <4>1. end - k = 0
        BY <3>2, <1>2
      <4>. QED BY <3>1, <3>2, <4>1, <2>7
    <3>3. CASE k # end
      <4>1. k + 1 \in 1 .. end /\ end - (k + 1) = (end - k) - 1 /\ end - k # 0
            /\ end - (end - k) = k
        BY <3>3, <1>2
      <4>2. f[k + 1] = g[(end - k) - 1]
        BY <4>1
      <4>. HIDE DEF f
      <4>. QED BY <3>1, <3>3, <4>1, <4>2, <2>7
    <3>. QED BY <3>2, <3>3
  <2>. QED BY <2>8
<1>. DEFINE from == CHOOSE f : IsFrom(f)
<1>5. IsFrom(from)
  BY <1>4, Zenon
<1>6. FirstUIP(confl) = from[1]
  BY Zenon DEF FirstUIP
<1>. HIDE DEF from
<1>7. /\ from[end] = NonRoot(db[confl].lits)
      /\ \A k \in 1 .. n : from[k] = Resolved(from[k + 1], trail[k])
  BY <1>2, <1>5
<1>8. Clash(from[end], end)
  <2>. DEFINE L == db[confl].lits
              S == NonRoot(L)
  <2>1. S = {l \in L : Level(LitVar(l)) > 0} /\ S \subseteq L
    BY DEF NonRoot
  <2>2. ASSUME NEW l \in L
        PROVE  /\ l \in Literal /\ Level(LitVar(l)) \in Nat
               /\ \E k \in 1 .. n : trail[k].lit = -l
    <3>1. PICK k \in 1 .. n : trail[k].lit = -l
      BY <1>3 DEF TrueBy
    <3>. QED BY <3>1, <1>1, <1>2, <1>3, FalseLevel
  <2>. HIDE DEF L, S
  <2>3. \A l \in L : l \in S <=> Level(LitVar(l)) # 0
    BY <2>1, <2>2
  <2>4. ASSUME NEW tc \in Given PROVE \E l \in S : Holds(tc, l)
    <3>0. tc \in TestCase
      BY DEF Given, Models
    <3>1. PICK m \in L : Holds(tc, m)
      BY <1>3 DEF GivenHold, SatisfiedBy, L
    <3>2. PICK k \in 1 .. n : trail[k].lit = -m
      BY <2>2
    <3>3. ~Holds(tc, trail[k].lit)
      BY <3>0, <3>1, <3>2, <2>2, LiteralFacts
    <3>4. ~AtRoot(trail_lim, k)
      BY <3>3, <1>2 DEF GivenHold, RootHolds
    <3>5. Level(LitVar(m)) # 0
      BY <3>2, <3>4, <2>2, <1>1, <1>2, FalseLevel
    <3>. QED BY <3>1, <3>5, <2>3
  <2>5. AtTop(S) # {}
    <3>1. PICK m \in L : ~TrueBy(trail, trail_lim[decisionLevel], -m)
      BY <1>3 DEF L
    <3>2. PICK k \in 1 .. n : trail[k].lit = -m
      BY <2>2
    <3>3. decisionLevel \in Nat /\ decisionLevel # 0 /\ decisionLevel \in DOMAIN trail_lim
          /\ trail_lim[decisionLevel] \in Nat
      <4>1. trail_lim \in Seq(Nat)
        BY <1>1 DEF TrailInv
      <4>. QED BY <4>1 DEF decisionLevel
    <3>4. trail_lim[decisionLevel] < k
      <4>1. k \notin 1 .. trail_lim[decisionLevel]
        BY <3>1, <3>2 DEF TrueBy
      <4>. QED BY <4>1, <3>3, <1>2
    <3>5. Level(LitVar(m)) = decisionLevel
      BY <3>2, <3>4, <2>2, <1>1, <1>2, FalseLevel
    <3>6. m \in S
      BY <3>3, <3>5, <2>3
    <3>. QED BY <3>5, <3>6 DEF AtTop
  <2>6. S \subseteq Literal /\ \A l \in S : TrueBy(trail, n, -l) /\ Level(LitVar(l)) # 0
    BY <2>1, <2>2, <2>3, <1>3 DEF L
  <2>7. \A l \in AtTop(S) : TrueBy(trail, end - 1, -l)
    <3>1. end - 1 = n
      BY <1>2
    <3>. QED BY <3>1, <2>6 DEF AtTop
  <2>. QED BY <1>7, <2>4, <2>5, <2>6, <2>7 DEF Clash, S, L
<1>9. \A k \in 1 .. end : Clash(from[k], k)
  <2>. DEFINE Bad == {j \in Nat : j <= n /\ ~Clash(from[end - j], end - j)}
  <2>. SUFFICES ASSUME NEW k0 \in 1 .. end, ~Clash(from[k0], k0) PROVE FALSE
    OBVIOUS
  <2>1. Bad # {} /\ Bad \subseteq Nat
    <3>1. end - k0 \in Nat /\ end - k0 <= n /\ end - (end - k0) = k0
      BY <1>2
    <3>2. end - k0 \in Bad
      BY <3>1
    <3>. QED BY <3>2
  <2>2. PICK j \in Bad : \A i \in Bad : j <= i
    <3>. HIDE DEF Bad
    <3>. QED BY <2>1, NatMinimum
  <2>3. j \in Nat /\ j <= n /\ ~Clash(from[end - j], end - j)
    OBVIOUS
  <2>4. j # 0
    <3>1. end - 0 = end
      BY <1>2
    <3>. QED BY <3>1, <2>3, <1>8
  <2>5. j - 1 \in Nat /\ j - 1 <= n /\ ~(j <= j - 1)
    BY <2>3, <2>4, <1>2
  <2>6. Clash(from[end - (j - 1)], end - (j - 1))
    BY <2>2, <2>5
  <2>7. end - j \in 1 .. n /\ end - (j - 1) = (end - j) + 1
    BY <2>3, <2>4, <1>2
  <2>. DEFINE k == end - j
  <2>8. k \in DOMAIN trail /\ Clash(from[k + 1], k + 1)
    BY <2>6, <2>7, <1>2
  <2>. HIDE DEF k
  <2>9. Clash(Resolved(from[k + 1], trail[k]), k)
    BY <2>8, ClashResolved
  <2>10. from[k] = Resolved(from[k + 1], trail[k])
    BY <2>8, <1>7, <1>2
  <2>. QED BY <2>3, <2>9, <2>10 DEF k
<1>10. Clash(from[1], 1)
  <2>1. 1 \in 1 .. end
    BY <1>2
  <2>. QED BY <2>1, <1>9
<1>11. Cardinality(AtTop(from[1])) = 1
  <2>1. \A x : ~TrueBy(trail, 1 - 1, x)
    BY DEF TrueBy
  <2>. QED BY <2>1, <1>10 DEF Clash
<1>. QED BY <1>6, <1>10, <1>11

\* litRedundant keeps the literal of the current level, and what it removes
\* holds in no model of what was given that falsifies all the rest.
LEMMA MinimisedClash ==
  ASSUME DatabaseInv(db), StackInv(db, trail, trail_lim, assumptions, order_heap),
         GivenHold(db, trail, trail_lim), NEW S, Clash(S, 1)
  PROVE  /\ Minimised(S) \subseteq S
         /\ AtTop(Minimised(S)) = AtTop(S)
         /\ \A tc \in Given : \E l \in Minimised(S) : Holds(tc, l)
<1>. DEFINE n      == Len(trail)
            seen   == {LitVar(l) : l \in S}
            levels == {Level(v) : v \in seen}
            Follows(k, f) ==
              /\ trail[k].reason # None
              /\ \A r \in db[trail[k].reason].lits \ {trail[k].lit} :
                   LET v == LitVar(r)
                   IN  Level(v) = 0 \/ v \in seen \/ (Level(v) \in levels /\ f[PosOf(v)])
            IsGone(f) == f = [k \in DOMAIN trail |-> Follows(k, f)]
<1>1. TrailInv(trail, trail_lim) /\ ReasonsInv(db, trail)
  BY DEF StackInv
<1>2. n \in Nat /\ DOMAIN trail = 1 .. n /\ \A k \in DOMAIN trail : trail[k].lit \in Literal
  BY <1>1, TrailTypes
<1>3. S \subseteq Literal /\ \A l \in S : TrueBy(trail, n, -l)
  BY DEF Clash
<1>4. ASSUME NEW k \in DOMAIN trail, trail[k].reason # None,
             NEW r \in db[trail[k].reason].lits \ {trail[k].lit}
      PROVE  /\ trail[k].reason \in DOMAIN db /\ r \in Literal
             /\ \E j \in DOMAIN trail : j < k /\ trail[j].lit = -r /\ PosOf(LitVar(r)) = j
                                      /\ (Level(LitVar(r)) = 0 <=> AtRoot(trail_lim, j))
  <2>1. trail[k].reason \in DOMAIN db /\ TrueBy(trail, k - 1, -r)
    BY <1>1, <1>4 DEF ReasonsInv
  <2>2. db[trail[k].reason] \in Entry
    BY <2>1 DEF DatabaseInv, Database
  <2>3. r \in Literal
    BY <2>2 DEF Entry
  <2>4. PICK j \in 1 .. k - 1 : trail[j].lit = -r
    BY <2>1 DEF TrueBy
  <2>5. j \in DOMAIN trail /\ j < k
    BY <1>2, <2>4
  <2>. QED BY <2>1, <2>3, <2>4, <2>5, <1>1, FalseLevel
<1>5. \E f : IsGone(f)
  <2>. DEFINE I    == DOMAIN trail
              step == [a \in I \X [I -> BOOLEAN] |-> Follows(a[1], a[2])]
  <2>. HIDE DEF seen, levels
  <2>1. ASSUME NEW k \in I, NEW f \in [I -> BOOLEAN], NEW g \in [I -> BOOLEAN],
               \A j \in I : j < k => f[j] = g[j], Follows(k, f)
        PROVE  Follows(k, g)
    <3>1. ASSUME trail[k].reason # None, NEW r \in db[trail[k].reason].lits \ {trail[k].lit}
          PROVE  f[PosOf(LitVar(r))] = g[PosOf(LitVar(r))]
      <4>1. PosOf(LitVar(r)) \in I /\ PosOf(LitVar(r)) < k
        BY <3>1, <1>4
      <4>. QED BY <4>1, <2>1
    <3>. QED BY <3>1, <2>1
  <2>2. ASSUME NEW k \in I, NEW f \in [I -> BOOLEAN], NEW g \in [I -> BOOLEAN],
               \A j \in I : j < k => f[j] = g[j]
        PROVE  Follows(k, f) = Follows(k, g)
    <3>1. Follows(k, f) => Follows(k, g)
      BY <2>1, <2>2
    <3>2. Follows(k, g) => Follows(k, f)
      <4>1. \A j \in I : j < k => g[j] = f[j]
        BY <2>2
      <4>. QED BY <4>1, <2>1
    <3>. QED BY <3>1, <3>2
  <2>3. \A k \in I, f \in [I -> BOOLEAN] : Follows(k, f) \in BOOLEAN
    OBVIOUS
  <2>. HIDE DEF Follows
  <2>4. /\ step \in [I \X [I -> BOOLEAN] -> BOOLEAN]
        /\ \A k \in I, f \in [I -> BOOLEAN] : step[<<k, f>>] = Follows(k, f)
    BY <2>3
  <2>. HIDE DEF step
  <2>5. LooksBack(I, BOOLEAN, step)
    <3>1. ASSUME NEW k \in I, NEW f \in [I -> BOOLEAN], NEW g \in [I -> BOOLEAN],
                 \A j \in I : j < k => f[j] = g[j]
          PROVE  step[<<k, f>>] = step[<<k, g>>]
      <4>1. Follows(k, f) = Follows(k, g)
        BY <2>2, <3>1
      <4>. QED BY <4>1, <2>4
    <3>. QED BY <3>1, <2>4 DEF LooksBack
  <2>6. PICK g : Recursive(I, BOOLEAN, step, g)
    <3>1. n \in Nat /\ I \in SUBSET (0 .. n) /\ TRUE \in BOOLEAN
      BY <1>2
    <3>. HIDE DEF I, n
    <3>. QED BY <3>1, <2>5, RecursiveFunction
  <2>7. g \in [I -> BOOLEAN] /\ \A k \in I : g[k] = Follows(k, g)
    BY <2>4, <2>6 DEF Recursive
  <2>8. IsGone(g)
    BY <2>7
  <2>. QED BY <2>8
<1>. DEFINE gone == CHOOSE f : IsGone(f)
<1>6. IsGone(gone)
  BY <1>5, Zenon
<1>7. Minimised(S) = AtTop(S) \cup {l \in S : ~gone[PosOf(LitVar(l))]}
  BY Zenon DEF Minimised
<1>. HIDE DEF gone
<1>8. \A k \in DOMAIN trail : gone[k] <=> Follows(k, gone)
  <2>. HIDE DEF Follows
  <2>. QED BY <1>6
<1>9. Minimised(S) \subseteq S /\ AtTop(Minimised(S)) = AtTop(S)
  BY <1>7 DEF AtTop
<1>10. ASSUME NEW tc \in Given PROVE \E l \in Minimised(S) : Holds(tc, l)
  <2>. SUFFICES ASSUME \A l \in Minimised(S) : ~Holds(tc, l) PROVE FALSE
    OBVIOUS
  <2>0. tc \in TestCase
    BY DEF Given, Models
  <2>1. ASSUME NEW l \in S, Holds(tc, l) PROVE gone[PosOf(LitVar(l))]
    BY <1>7, <2>1
  <2>2. \A k \in DOMAIN trail : gone[k] => Holds(tc, trail[k].lit)
    <3>. DEFINE Bad == {k \in DOMAIN trail : gone[k] /\ ~Holds(tc, trail[k].lit)}
    <3>. SUFFICES ASSUME Bad # {} PROVE FALSE
      OBVIOUS
    <3>1. PICK k \in Bad : \A j \in Bad : k <= j
      <4>1. Bad \subseteq Nat
        BY <1>2
      <4>. HIDE DEF Bad
      <4>. QED BY <4>1, NatMinimum
    <3>2. k \in DOMAIN trail /\ gone[k] /\ ~Holds(tc, trail[k].lit) /\ Follows(k, gone)
      BY <1>8
    <3>3. trail[k].reason # None /\ trail[k].reason \in DOMAIN db
      BY <3>2, <1>1 DEF ReasonsInv
    <3>4. PICK r \in db[trail[k].reason].lits : Holds(tc, r)
      BY <3>3 DEF GivenHold, SatisfiedBy
    <3>5. r # trail[k].lit
      BY <3>2, <3>4
    <3>6. r \in Literal
      BY <3>2, <3>3, <3>5, <1>4
    <3>7. PICK j \in DOMAIN trail : j < k /\ trail[j].lit = -r /\ PosOf(LitVar(r)) = j
                                  /\ (Level(LitVar(r)) = 0 <=> AtRoot(trail_lim, j))
      BY <3>2, <3>3, <3>5, <1>4
    <3>8. ~Holds(tc, trail[j].lit)
      BY <2>0, <3>4, <3>6, <3>7, LiteralFacts
    <3>9. Level(LitVar(r)) # 0
      BY <3>7, <3>8 DEF GivenHold, RootHolds
    <3>10. gone[j]
      <4>1. LitVar(r) \in seen \/ gone[PosOf(LitVar(r))]
        BY <3>2, <3>3, <3>5, <3>9
      <4>2. CASE LitVar(r) \in seen
        <5>1. PICK l \in S : LitVar(l) = LitVar(r)
          BY <4>2
        <5>2. PICK i \in 1 .. n : trail[i].lit = -l
          BY <1>3 DEF TrueBy
        <5>3. PosOf(LitVar(l)) = i
          BY <5>2, <1>1, <1>2, <1>3, FalseLevel
        <5>4. -l = -r
          BY <5>1, <5>2, <5>3, <3>7
        <5>5. l = r
          BY <5>4, <3>6, <1>3, LiteralFacts
        <5>. QED BY <5>5, <3>4, <3>7, <2>1
      <4>. QED BY <4>1, <4>2, <3>7
    <3>11. ~(k <= j) /\ j \in Bad
      BY <3>7, <3>8, <3>10, <1>2
    <3>. QED BY <3>11, <3>1
  <2>3. PICK l \in S : Holds(tc, l)
    BY DEF Clash
  <2>4. PICK i \in 1 .. n : trail[i].lit = -l
    BY <1>3 DEF TrueBy
  <2>5. PosOf(LitVar(l)) = i
    BY <2>4, <1>1, <1>2, <1>3, FalseLevel
  <2>6. Holds(tc, trail[i].lit)
    BY <2>1, <2>2, <2>3, <2>5, <1>2
  <2>. QED BY <2>0, <2>3, <2>4, <2>6, <1>3, LiteralFacts
<1>. QED BY <1>9, <1>10

-----------------------------------------------------------------------------
(* Watches and assumptions as the trail grows and shrinks *)

LEMMA PassedPushed ==
  ASSUME NEW e, NEW tr, NEW lim, TrailInv(tr, lim), NEW x \in Fact,
         NEW k \in DOMAIN tr, Passed(e, tr, lim, k)
  PROVE  Passed(e, Append(tr, x), lim, k)
<1>. DEFINE t2 == Append(tr, x)
<1>1. tr \in Seq(Fact)
  BY DEF TrailInv
<1>2. \A j \in DOMAIN tr : j \in DOMAIN t2 /\ t2[j] = tr[j]
  BY <1>1
<1>. HIDE DEF t2
<1>3. Passed(e, t2, lim, k)
  BY <1>2 DEF Passed
<1>. QED BY <1>3 DEF t2

LEMMA PassedOpened ==
  ASSUME NEW e, NEW tr, NEW lim, TrailInv(tr, lim), NEW k \in DOMAIN tr, Passed(e, tr, lim, k)
  PROVE  Passed(e, tr, Append(lim, Len(tr)), k)
<1>. DEFINE l2 == Append(lim, Len(tr))
<1>1. Len(tr) \in Nat /\ DOMAIN tr = 1 .. Len(tr) /\ lim \in Seq(Nat)
  BY TrailTypes DEF TrailInv
<1>2. \A i \in DOMAIN l2 : (i \in DOMAIN lim /\ l2[i] = lim[i]) \/ l2[i] = Len(tr)
  BY <1>1
<1>. HIDE DEF l2
<1>3. ASSUME NEW j \in DOMAIN tr, NoLater(lim, j, k) PROVE NoLater(l2, j, k)
  BY <1>1, <1>2, <1>3 DEF NoLater
<1>4. Passed(e, tr, l2, k)
  BY <1>3 DEF Passed
<1>. QED BY <1>4 DEF l2

LEMMA PassedCut ==
  ASSUME NEW m, NEW tr, NEW lim, NEW asked, NEW heap, StackInv(m, tr, lim, asked, heap),
         NEW level \in Nat, level < Len(lim), NEW e,
         NEW k \in 1 .. lim[level + 1], Passed(e, tr, lim, k)
  PROVE  Passed(e, SubSeq(tr, 1, lim[level + 1]), SubSeq(lim, 1, level), k)
<1>. DEFINE p  == lim[level + 1]
            t2 == SubSeq(tr, 1, p)
            l2 == SubSeq(lim, 1, level)
<1>0. CutTo(tr, lim, level, t2, l2)
  BY StackCut
<1>. HIDE DEF t2, l2
<1>1. /\ p \in Nat /\ p <= Len(tr) /\ level + 1 \in DOMAIN lim
      /\ DOMAIN t2 = 1 .. p /\ \A j \in 1 .. p : t2[j] = tr[j]
      /\ DOMAIN l2 = 1 .. level /\ \A i \in 1 .. level : l2[i] = lim[i]
  BY <1>0 DEF CutTo
<1>2. TrailInv(tr, lim)
  BY DEF StackInv
<1>3. Len(tr) \in Nat /\ DOMAIN tr = 1 .. Len(tr) /\ DOMAIN lim = 1 .. Len(lim) /\ Len(lim) \in Nat
  BY <1>2, TrailTypes
<1>4. ASSUME NEW j \in DOMAIN tr, NoLater(lim, j, k) PROVE j \in 1 .. p /\ NoLater(l2, j, k)
  <2>1. j <= p
    BY <1>1, <1>4 DEF NoLater
  <2>2. \A i \in DOMAIN l2 : i \in DOMAIN lim /\ l2[i] = lim[i]
    BY <1>1, <1>3
  <2>. HIDE DEF l2, p
  <2>. QED BY <2>1, <2>2, <1>1, <1>3, <1>4 DEF NoLater
<1>5. t2[k] = tr[k]
  BY <1>1
<1>. HIDE DEF p, t2, l2
<1>6. Passed(e, t2, l2, k)
  BY <1>1, <1>4, <1>5 DEF Passed
<1>. QED BY <1>6 DEF p, t2, l2

LEMMA AssumedCut ==
  ASSUME NEW m, NEW tr, NEW lim, NEW asked, NEW heap, StackInv(m, tr, lim, asked, heap),
         AssumedInv(tr, lim, asked), NEW level \in Nat, level < Len(lim)
  PROVE  AssumedInv(SubSeq(tr, 1, lim[level + 1]), SubSeq(lim, 1, level), asked)
<1>. DEFINE p  == lim[level + 1]
            t2 == SubSeq(tr, 1, p)
            l2 == SubSeq(lim, 1, level)
<1>0. CutTo(tr, lim, level, t2, l2)
  BY StackCut
<1>. HIDE DEF t2, l2
<1>1. p \in Nat /\ p <= Len(tr) /\ level + 1 \in DOMAIN lim
  BY <1>0 DEF CutTo
<1>2. Len(t2) = p /\ \A j \in 1 .. p : t2[j] = tr[j]
  BY <1>0 DEF CutTo
<1>3. Len(l2) = level /\ \A i \in 1 .. level : l2[i] = lim[i] /\ lim[i] <= p
  BY <1>0 DEF CutTo
<1>4. Len(lim) \in Nat /\ \A i \in 1 .. Len(lim) : lim[i] \in Nat
  BY TrailTypes DEF StackInv
<1>5. lim[level + 1] = p
  OBVIOUS
<1>. HIDE DEF p, t2, l2
<1>6. ASSUME NEW i \in 1 .. level, i \in DOMAIN asked
      PROVE  /\ i < level => TrueBy(t2, l2[i + 1], asked[i])
             /\ i = level => TrueBy(t2, p, asked[i])
  <2>1. i \in 1 .. Len(lim) /\ i < Len(lim)
    BY <1>4
  <2>2. TrueBy(tr, lim[i + 1], asked[i])
    BY <2>1, <1>6 DEF AssumedInv
  <2>3. ASSUME i < level PROVE TrueBy(t2, l2[i + 1], asked[i])
    <3>1. /\ i + 1 \in 1 .. level /\ i + 1 \in 1 .. Len(lim)
          /\ l2[i + 1] = lim[i + 1] /\ lim[i + 1] <= p /\ lim[i + 1] \in Nat
      BY <1>3, <1>4, <2>3
    <3>2. \A j \in 1 .. lim[i + 1] : t2[j] = tr[j]
      BY <3>1, <1>1, <1>2
    <3>. QED BY <3>1, <3>2, <2>2 DEF TrueBy
  <2>4. ASSUME i = level PROVE TrueBy(t2, p, asked[i])
    BY <2>2, <2>4, <1>2, <1>5 DEF TrueBy
  <2>. QED BY <2>3, <2>4
<1>7. AssumedInv(t2, l2, asked)
  BY <1>2, <1>3, <1>6 DEF AssumedInv
<1>. QED BY <1>7 DEF p, t2, l2

LEMMA AssumedPushed ==
  ASSUME NEW tr, NEW lim, NEW asked, NEW x \in Fact, TrailInv(tr, lim), AssumedInv(tr, lim, asked)
  PROVE  AssumedInv(Append(tr, x), lim, asked)
<1>. DEFINE t2 == Append(tr, x)
<1>1. tr \in Seq(Fact)
  BY DEF TrailInv
<1>2. /\ Len(tr) \in Nat /\ Len(t2) = Len(tr) + 1 /\ \A j \in 1 .. Len(tr) : t2[j] = tr[j]
      /\ Len(lim) \in Nat
      /\ \A i \in 1 .. Len(lim) : lim[i] \in Nat /\ lim[i] <= Len(tr)
  BY <1>1, TrailTypes
<1>. HIDE DEF t2
<1>3. ASSUME NEW i \in 1 .. Len(lim), i \in DOMAIN asked, i < Len(lim)
      PROVE  TrueBy(t2, lim[i + 1], asked[i])
  <2>1. i + 1 \in 1 .. Len(lim)
    BY <1>2, <1>3
  <2>2. TrueBy(tr, lim[i + 1], asked[i])
    BY <1>3, Zenon DEF AssumedInv
  <2>3. \A j \in 1 .. lim[i + 1] : t2[j] = tr[j]
    BY <2>1, <1>2
  <2>. QED BY <2>2, <2>3 DEF TrueBy
<1>4. ASSUME NEW i \in 1 .. Len(lim), i \in DOMAIN asked, i = Len(lim)
      PROVE  TrueBy(t2, Len(t2), asked[i])
  <2>1. TrueBy(tr, Len(tr), asked[i])
    BY <1>4 DEF AssumedInv
  <2>2. PICK j \in 1 .. Len(tr) : tr[j].lit = asked[i]
    BY <2>1 DEF TrueBy
  <2>3. t2[j].lit = asked[i]
    BY <2>2, <1>2
  <2>4. j \in 1 .. Len(t2)
    BY <1>2
  <2>. QED BY <2>3, <2>4 DEF TrueBy
<1>5. AssumedInv(t2, lim, asked)
  BY <1>3, <1>4 DEF AssumedInv
<1>. QED BY <1>5 DEF t2

\* A level begins; if it is one of the assumptions', its literal is true.
LEMMA AssumedOpened ==
  ASSUME NEW tr, NEW lim, NEW asked, TrailInv(tr, lim), AssumedInv(tr, lim, asked),
         NEW t2, Len(t2) \in Nat, Len(tr) <= Len(t2),
         \A j \in 1 .. Len(tr) : t2[j] = tr[j],
         Len(lim) + 1 \in DOMAIN asked => TrueBy(t2, Len(t2), asked[Len(lim) + 1])
  PROVE  AssumedInv(t2, Append(lim, Len(tr)), asked)
<1>. DEFINE l2 == Append(lim, Len(tr))
            n  == Len(lim) + 1
<1>1. /\ lim \in Seq(Nat) /\ Len(tr) \in Nat /\ Len(lim) \in Nat /\ n \in Nat
      /\ \A i \in 1 .. Len(lim) : lim[i] \in Nat /\ lim[i] <= Len(tr)
  BY TrailTypes DEF TrailInv
<1>2. /\ Len(l2) = n /\ l2[n] = Len(tr) /\ \A i \in 1 .. Len(lim) : l2[i] = lim[i]
  BY <1>1
<1>3. \A i \in 1 .. n : i \in 1 .. Len(lim) \/ i = n
  BY <1>1
<1>4. ASSUME NEW i \in 1 .. Len(lim), i \in DOMAIN asked PROVE TrueBy(t2, l2[i + 1], asked[i])
  <2>1. CASE i < Len(lim)
    <3>0. TrueBy(tr, lim[i + 1], asked[i])
      BY <1>4, <2>1, Zenon DEF AssumedInv
    <3>1. i + 1 \in 1 .. Len(lim)
      BY <1>1, <2>1
    <3>2. l2[i + 1] = lim[i + 1] /\ lim[i + 1] \in Nat /\ lim[i + 1] <= Len(tr)
      BY <3>1, <1>1, <1>2
    <3>3. \A j \in 1 .. lim[i + 1] : t2[j] = tr[j]
      BY <3>2, <1>1
    <3>. HIDE DEF l2
    <3>. QED BY <3>0, <3>2, <3>3 DEF TrueBy
  <2>2. CASE i = Len(lim)
    <3>1. TrueBy(tr, Len(tr), asked[i])
      BY <1>4, <2>2 DEF AssumedInv
    <3>2. l2[i + 1] = Len(tr)
      BY <2>2, <1>2
    <3>. HIDE DEF l2
    <3>3. TrueBy(t2, Len(tr), asked[i])
      BY <3>1 DEF TrueBy
    <3>. QED BY <3>2, <3>3
  <2>3. i < Len(lim) \/ i = Len(lim)
    BY <1>1
  <2>. HIDE DEF l2
  <2>. QED BY <2>1, <2>2, <2>3
<1>5. n \in DOMAIN asked => TrueBy(t2, Len(t2), asked[n])
  OBVIOUS
<1>. HIDE DEF l2, n
<1>6. \A i \in 1 .. n : i < n => i \in 1 .. Len(lim)
  BY <1>1, <1>3
<1>7. AssumedInv(t2, l2, asked)
  BY <1>2, <1>4, <1>5, <1>6 DEF AssumedInv
<1>. QED BY <1>7 DEF l2

-----------------------------------------------------------------------------
(* Clauses that come and go *)

LEMMA NewRefFresh ==
  ASSUME DatabaseInv(db)
  PROVE  NewRef \in Nat \ {None} /\ NewRef \notin DOMAIN db
<1>. DEFINE N == Cardinality(DOMAIN db)
            F == (1 .. N + 1) \ DOMAIN db
<1>1. IsFiniteSet(DOMAIN db) /\ N \in Nat
  BY FS_CardinalityType DEF DatabaseInv
<1>2. F # {} /\ F \subseteq Nat
  <2>1. CASE F = {}
    <3>1. 1 .. N + 1 \in SUBSET DOMAIN db
      BY <2>1
    <3>2. Cardinality(1 .. N + 1) <= N
      BY <3>1, <1>1, FS_Subset
    <3>3. Cardinality(1 .. N + 1) = N + 1
      BY <1>1, FS_Interval
    <3>. QED BY <3>2, <3>3, <1>1
  <2>. QED BY <2>1
<1>3. PICK c \in F : \A d \in F : c <= d
  <2>. HIDE DEF F
  <2>. QED BY <1>2, NatMinimum
<1>4. c \in 1 .. N + 1 /\ c \notin DOMAIN db
  OBVIOUS
<1>5. ASSUME NEW d \in 1 .. c - 1 PROVE d \in DOMAIN db
  <2>1. d \in 1 .. N + 1 /\ ~(c <= d)
    BY <1>1, <1>4
  <2>. QED BY <2>1, <1>3
<1>6. NewRef \in 1 .. N + 1 /\ NewRef \notin DOMAIN db
  BY <1>4, <1>5 DEF NewRef
<1>. QED BY <1>1, <1>6 DEF None

\* m is the database with one more clause.
AddedTo(m, S, watch, learnt) ==
  /\ DatabaseInv(m) /\ DOMAIN m = DOMAIN db \cup {NewRef}
  /\ \A c \in DOMAIN db : m[c] = db[c]
  /\ m[NewRef].lits = S /\ m[NewRef].watch = watch /\ m[NewRef].learnt = learnt

LEMMA ClauseAdded ==
  ASSUME DatabaseInv(db), NEW S, S \subseteq Literal, NEW a \in S, NEW b \in S, a # b,
         NEW learnt \in BOOLEAN
  PROVE  AddedTo(With(NewRef, S, {a, b}, learnt), S, {a, b}, learnt)
<1>. DEFINE c == NewRef
            m == With(c, S, {a, b}, learnt)
            e == [lits |-> S, watch |-> {a, b}, learnt |-> learnt]
<1>1. c \in Nat \ {None} /\ c \notin DOMAIN db
  BY NewRefFresh
<1>. HIDE DEF c
<1>2. /\ DOMAIN m = DOMAIN db \cup {c} /\ m[c] = e /\ \A d \in DOMAIN db : m[d] = db[d]
      /\ m \in [DOMAIN db \cup {c} -> {e} \cup {db[d] : d \in DOMAIN db}]
  BY <1>1 DEF With
<1>. HIDE DEF m
<1>3. PICK R \in SUBSET (Nat \ {None}) : db \in [R -> Entry]
  BY DEF DatabaseInv, Database
<1>4. e \in Entry /\ \A d \in DOMAIN db : db[d] \in Entry
  BY <1>3 DEF Entry
<1>5. m \in [R \cup {c} -> Entry]
  BY <1>2, <1>3, <1>4
<1>6. m \in Database
  BY <1>1, <1>3, <1>5, ZenonT(40) DEF Database
<1>7. IsFiniteSet(DOMAIN m)
  BY <1>2, FS_AddElement DEF DatabaseInv
<1>8. TwoWatched(e)
  BY DEF TwoWatched
<1>9. DatabaseInv(m)
  BY <1>2, <1>6, <1>7, <1>8 DEF DatabaseInv
<1>. QED BY <1>2, <1>9 DEF c, m, AddedTo

LEMMA ClausesDropped ==
  ASSUME DatabaseInv(db), NEW C
  PROVE  /\ DatabaseInv(Without(C)) /\ DOMAIN Without(C) = DOMAIN db \ C
         /\ \A c \in DOMAIN db \ C : Without(C)[c] = db[c]
<1>. DEFINE m == Without(C)
<1>1. /\ m = [c \in DOMAIN db \ C |-> db[c]]
      /\ DOMAIN m = DOMAIN db \ C /\ \A c \in DOMAIN db \ C : m[c] = db[c]
  BY DEF Without
<1>2. PICK R \in SUBSET (Nat \ {None}) : db \in [R -> Entry]
  BY DEF DatabaseInv, Database
<1>3. m \in [R \ C -> Entry]
  BY <1>1, <1>2
<1>. HIDE DEF m
<1>4. m \in Database
  BY <1>2, <1>3 DEF Database
<1>5. IsFiniteSet(DOMAIN m)
  BY <1>1, FS_Subset DEF DatabaseInv
<1>6. DatabaseInv(m)
  BY <1>1, <1>4, <1>5 DEF DatabaseInv
<1>. QED BY <1>1, <1>6 DEF m

\* The trail depends on the literals of its reasons alone.
LEMMA StackOfReasons ==
  ASSUME NEW m, NEW m2, NEW tr, NEW lim, NEW asked, NEW heap,
         StackInv(m, tr, lim, asked, heap),
         \A k \in DOMAIN tr : tr[k].reason # None =>
           tr[k].reason \in DOMAIN m2 /\ m2[tr[k].reason].lits = m[tr[k].reason].lits
  PROVE  StackInv(m2, tr, lim, asked, heap)
  BY DEF StackInv, ReasonsInv

\* The greatest of some numbers that are bounded.
LEMMA MaxOfSome ==
  ASSUME NEW S, S \subseteq Nat, S # {}, NEW n \in Nat, \A x \in S : x <= n
  PROVE  Max(S) \in S /\ \A x \in S : x <= Max(S)
<1>. DEFINE T == {n - x : x \in S}
<1>0. \A x \in S : n - x \in Nat
  OBVIOUS
<1>1. T \subseteq Nat /\ T # {}
  BY <1>0
<1>2. PICK t \in T : \A u \in T : t <= u
  <2>. HIDE DEF T
  <2>. QED BY <1>1, NatMinimum
<1>3. PICK y \in S : t = n - y
  OBVIOUS
<1>4. ASSUME NEW x \in S PROVE y >= x
  <2>1. n - x \in T
    OBVIOUS
  <2>2. n - y <= n - x
    BY <1>2, <1>3, <2>1
  <2>3. x \in Nat /\ y \in Nat
    OBVIOUS
  <2>. QED BY <2>2, <2>3
<1>5. \E y1 \in S : \A x \in S : y1 >= x
  BY <1>4
<1>6. Max(S) \in S /\ \A x \in S : Max(S) >= x
  BY <1>5 DEF Max
<1>7. \A x \in S : x \in Nat
  OBVIOUS
<1>. QED BY <1>6, <1>7

-----------------------------------------------------------------------------
(* The learnt clause *)

\* What Learn makes of a conflict: a clause of one literal uip that the current
\* level made false and others that became false up to level btlevel.
Learnt(clause, uip, btlevel) ==
  /\ clause \subseteq Literal /\ uip \in clause
  /\ \A tc \in Given : \E l \in clause : Holds(tc, l)
  /\ btlevel \in Nat /\ btlevel < decisionLevel
  /\ \E k \in DOMAIN trail : trail[k].lit = -uip /\ trail_lim[decisionLevel] < k
  /\ \A l \in clause \ {uip} : \E k \in DOMAIN trail :
       trail[k].lit = -l /\ k <= trail_lim[btlevel + 1]
  /\ \A l \in SecondWatches(clause \ {uip}), k \in DOMAIN trail : trail[k].lit = -l =>
       btlevel \in DOMAIN trail_lim /\ trail_lim[btlevel] < k
  /\ clause # {uip} => btlevel # 0 /\ SecondWatches(clause \ {uip}) \subseteq clause \ {uip}
  /\ clause = {uip} => btlevel = 0

LEMMA LearntClause ==
  ASSUME DatabaseInv(db), StackInv(db, trail, trail_lim, assumptions, order_heap),
         GivenHold(db, trail, trail_lim), ConflictInv, confl # None, trail_lim # <<>>
  PROVE  LET clause == Minimised(FirstUIP(confl))
             uip    == CHOOSE l \in clause : l \in AtTop(clause)
         IN  Learnt(clause, uip, Max({0} \cup {Level(LitVar(l)) : l \in clause \ {uip}}))
<1>. DEFINE S      == FirstUIP(confl)
            clause == Minimised(S)
            uip    == CHOOSE l \in clause : l \in AtTop(clause)
            low    == clause \ {uip}
            Levels == {0} \cup {Level(LitVar(l)) : l \in low}
            bt     == Max(Levels)
            n      == Len(trail)
            dl     == decisionLevel
<1>1. Clash(S, 1) /\ Cardinality(AtTop(S)) = 1
  BY FirstUIPClash
<1>2. TrailInv(trail, trail_lim)
  BY DEF StackInv
<1>3. /\ n \in Nat /\ DOMAIN trail = 1 .. n
      /\ dl \in Nat /\ dl # 0 /\ DOMAIN trail_lim = 1 .. dl
      /\ \A i \in DOMAIN trail_lim : trail_lim[i] \in Nat
  <2>1. trail_lim \in Seq(Nat)
    BY <1>2 DEF TrailInv
  <2>2. Len(trail_lim) # 0
    BY <2>1
  <2>. QED BY <2>2, <1>2, TrailTypes DEF decisionLevel
<1>. HIDE DEF S
<1>4. /\ clause \subseteq S /\ AtTop(clause) = AtTop(S)
      /\ \A tc \in Given : \E l \in clause : Holds(tc, l)
  BY <1>1, MinimisedClash
<1>. HIDE DEF clause
<1>5. /\ S \subseteq Literal /\ \A l \in S : TrueBy(trail, n, -l) /\ Level(LitVar(l)) # 0
  BY <1>1 DEF Clash
<1>6. PICK u : AtTop(S) = {u}
  <2>1. IsFiniteSet(AtTop(S))
    BY <1>5, LiteralsFinite DEF AtTop
  <2>. QED BY <2>1, <1>1, FS_Singleton
<1>7. uip = u /\ uip \in clause /\ uip \in AtTop(clause)
  <2>1. u \in clause /\ u \in AtTop(clause) /\ \A l \in clause : l \in AtTop(clause) => l = u
    BY <1>4, <1>6 DEF AtTop
  <2>. QED BY <2>1
<1>. HIDE DEF uip
<1>8. ASSUME NEW l \in clause
      PROVE  \E k \in DOMAIN trail :
               /\ trail[k].lit = -l /\ l \in Literal
               /\ Level(LitVar(l)) \in Nat /\ Level(LitVar(l)) # 0 /\ Level(LitVar(l)) <= dl
               /\ \A i \in DOMAIN trail_lim : i <= Level(LitVar(l)) <=> trail_lim[i] < k
  <2>1. PICK k \in 1 .. n : trail[k].lit = -l
    BY <1>4, <1>5 DEF TrueBy
  <2>2. k \in DOMAIN trail /\ l \in Literal /\ Level(LitVar(l)) # 0
    BY <1>3, <1>4, <1>5
  <2>. QED BY <2>1, <2>2, <1>2, FalseLevel
<1>9. \E k \in DOMAIN trail : trail[k].lit = -uip /\ trail_lim[dl] < k
  <2>1. PICK k \in DOMAIN trail :
          /\ trail[k].lit = -uip
          /\ \A i \in DOMAIN trail_lim : i <= Level(LitVar(uip)) <=> trail_lim[i] < k
    BY <1>7, <1>8
  <2>2. Level(LitVar(uip)) = dl
    BY <1>7 DEF AtTop
  <2>3. dl \in DOMAIN trail_lim /\ dl <= Level(LitVar(uip))
    BY <2>2, <1>3
  <2>. QED BY <2>1, <2>3
<1>10. ASSUME NEW l \in low
       PROVE  Level(LitVar(l)) \in Nat /\ Level(LitVar(l)) # 0 /\ Level(LitVar(l)) <= dl - 1
  <2>1. Level(LitVar(l)) \in Nat /\ Level(LitVar(l)) # 0 /\ Level(LitVar(l)) <= dl
    BY <1>8
  <2>2. l \in S /\ l \notin AtTop(S)
    BY <1>4, <1>6, <1>7
  <2>3. Level(LitVar(l)) # dl
    BY <2>2 DEF AtTop
  <2>. QED BY <2>1, <2>3, <1>3
<1>11. bt \in Levels /\ \A x \in Levels : x <= bt
  <2>1. Levels \subseteq Nat /\ Levels # {} /\ dl - 1 \in Nat /\ \A x \in Levels : x <= dl - 1
    BY <1>3, <1>10
  <2>. HIDE DEF Levels
  <2>. QED BY <2>1, MaxOfSome
<1>12. bt \in Nat /\ bt < dl
  BY <1>3, <1>10, <1>11
<1>13. low = {} => bt = 0
  BY <1>11
<1>14. \A l \in low : Level(LitVar(l)) <= bt
  BY <1>11
<1>15. bt # 0 => \E m \in low : Level(LitVar(m)) = bt
  BY <1>11
<1>. HIDE DEF bt, Levels
<1>16. low # {} => bt # 0
  BY <1>10, <1>12, <1>14
<1>17. ASSUME NEW l \in low
       PROVE  \E k \in DOMAIN trail : trail[k].lit = -l /\ k <= trail_lim[bt + 1]
  <2>1. PICK k \in DOMAIN trail :
          /\ trail[k].lit = -l
          /\ \A i \in DOMAIN trail_lim : i <= Level(LitVar(l)) <=> trail_lim[i] < k
    BY <1>8
  <2>2. bt + 1 \in DOMAIN trail_lim /\ ~(bt + 1 <= Level(LitVar(l)))
    BY <1>3, <1>10, <1>12, <1>14
  <2>3. ~(trail_lim[bt + 1] < k)
    BY <2>1, <2>2
  <2>. QED BY <2>1, <2>2, <2>3, <1>3
<1>18. ASSUME NEW l \in SecondWatches(low), NEW k \in DOMAIN trail, trail[k].lit = -l
       PROVE  bt \in DOMAIN trail_lim /\ trail_lim[bt] < k
  <2>1. l \in low /\ \A m \in low : Level(LitVar(m)) <= Level(LitVar(l))
    BY DEF SecondWatches
  <2>2. bt # 0 /\ bt \in DOMAIN trail_lim
    BY <2>1, <1>3, <1>12, <1>16
  <2>3. bt <= Level(LitVar(l))
    BY <2>1, <2>2, <1>15
  <2>4. l \in Literal
    BY <2>1, <1>4, <1>5
  <2>5. bt <= Level(LitVar(l)) <=> trail_lim[bt] < k
    BY <2>2, <2>4, <1>2, <1>18, FalseLevel
  <2>. QED BY <2>2, <2>3, <2>5
<1>19. SecondWatches(low) \subseteq low
  BY DEF SecondWatches
<1>20. (clause # {uip} => low # {}) /\ (clause = {uip} => low = {})
  BY <1>7
<1>21. Learnt(clause, uip, bt)
  BY <1>4, <1>5, <1>7, <1>9, <1>12, <1>13, <1>16, <1>17, <1>18, <1>19, <1>20 DEF Learnt
<1>. QED BY <1>21, Zenon DEF bt, Levels, uip, clause, S

-----------------------------------------------------------------------------
(* One lemma for each action *)

LEMMA LearnStep ==
  ASSUME MInv, Learn
  PROVE  MInv'
<1>1. /\ DatabaseInv(db) /\ StackInv(db, trail, trail_lim, assumptions, order_heap)
      /\ TrailInv(trail, trail_lim) /\ AssumedInv(trail, trail_lim, assumptions)
      /\ CallInv /\ QueueInv /\ ConflictInv /\ ok /\ WatchInv
      /\ GivenHold(db, trail, trail_lim) /\ HeldGive(db, trail, trail_lim)
  BY DEF MInv, CallInv, ModelsInv, StackInv, Learn
<1>2. /\ pc = "propagate" /\ visiting = {} /\ qhead = Len(trail) /\ confl # None
      /\ confl' = None /\ UNCHANGED <<callVars, pc, ok, visiting>>
  BY DEF Learn, Propagated
<1>3. /\ Len(trail) \in Nat /\ DOMAIN trail = 1 .. Len(trail)
      /\ decisionLevel \in Nat /\ decisionLevel = Len(trail_lim)
      /\ decisionLevel > 0 /\ trail_lim # <<>>
      /\ DOMAIN trail_lim = 1 .. decisionLevel /\ \A i \in DOMAIN trail_lim : trail_lim[i] \in Nat
  <2>1. decisionLevel > 0
    BY DEF Learn
  <2>2. trail_lim # <<>>
    BY <2>1 DEF decisionLevel
  <2>. QED BY <2>1, <2>2, <1>1, TrailTypes DEF decisionLevel
<1>4. \E clause, uip, bt, r :
        /\ Learnt(clause, uip, bt) /\ r \in Nat
        /\ trail' = Append(SubSeq(trail, 1, trail_lim[bt + 1]), [lit |-> uip, reason |-> r])
        /\ trail_lim' = SubSeq(trail_lim, 1, bt)
        /\ qhead' = Len(SubSeq(trail, 1, trail_lim[bt + 1]))
        /\ order_heap' = order_heap \cup
             {LitVar(trail[k].lit) : k \in trail_lim[bt + 1] + 1 .. Len(trail)}
        /\ \/ clause = {uip} /\ r = None /\ db' = db
           \/ /\ clause # {uip} /\ r = NewRef
              /\ \E l \in SecondWatches(clause \ {uip}) : db' = With(NewRef, clause, {uip, l}, TRUE)
  <2>. DEFINE clause == Minimised(FirstUIP(confl))
              uip    == CHOOSE l \in clause : l \in AtTop(clause)
              bt     == Max({0} \cup {Level(LitVar(l)) : l \in clause \ {uip}})
  <2>1. Learnt(clause, uip, bt)
    BY <1>1, <1>2, <1>3, LearntClause, Zenon
  <2>2. /\ trail_lim' = Cancelled(bt, order_heap).lim /\ order_heap' = Cancelled(bt, order_heap).heap
        /\ qhead' = Len(Cancelled(bt, order_heap).trail)
        /\ IF clause \ {uip} = {}
           THEN trail' = Append(Cancelled(bt, order_heap).trail, [lit |-> uip, reason |-> None]) /\ UNCHANGED db
           ELSE \E l \in SecondWatches(clause \ {uip}) :
                  /\ db' = With(NewRef, clause, {uip, l}, TRUE)
                  /\ trail' = Append(Cancelled(bt, order_heap).trail, [lit |-> uip, reason |-> NewRef])
    BY Zenon DEF Learn
  <2>3. uip \in clause
    BY <2>1 DEF Learnt
  <2>. HIDE DEF clause, uip, bt
  <2>4. /\ Cancelled(bt, order_heap).trail = SubSeq(trail, 1, trail_lim[bt + 1])
        /\ Cancelled(bt, order_heap).lim = SubSeq(trail_lim, 1, bt)
        /\ Cancelled(bt, order_heap).heap = order_heap \cup
             {LitVar(trail[k].lit) : k \in trail_lim[bt + 1] + 1 .. Len(trail)}
    BY DEF Cancelled
  <2>5. NewRef \in Nat /\ None \in Nat
    BY <1>1, NewRefFresh DEF None
  <2>6. CASE clause \ {uip} = {}
    <3>1. clause = {uip} /\ UNCHANGED db
          /\ trail' = Append(Cancelled(bt, order_heap).trail, [lit |-> uip, reason |-> None])
      BY <2>2, <2>3, <2>6
    <3>. QED BY <3>1, <2>1, <2>2, <2>4, <2>5
  <2>7. CASE clause \ {uip} # {}
    <3>1. clause # {uip} /\ trail' = Append(Cancelled(bt, order_heap).trail, [lit |-> uip, reason |-> NewRef])
          /\ \E l \in SecondWatches(clause \ {uip}) : db' = With(NewRef, clause, {uip, l}, TRUE)
      BY <2>2, <2>7
    <3>. QED BY <3>1, <2>1, <2>2, <2>4, <2>5
  <2>. QED BY <2>6, <2>7
<1>5. PICK clause, uip, bt, r :
        /\ Learnt(clause, uip, bt) /\ r \in Nat
        /\ trail' = Append(SubSeq(trail, 1, trail_lim[bt + 1]), [lit |-> uip, reason |-> r])
        /\ trail_lim' = SubSeq(trail_lim, 1, bt)
        /\ qhead' = Len(SubSeq(trail, 1, trail_lim[bt + 1]))
        /\ order_heap' = order_heap \cup
             {LitVar(trail[k].lit) : k \in trail_lim[bt + 1] + 1 .. Len(trail)}
        /\ \/ clause = {uip} /\ r = None /\ db' = db
           \/ /\ clause # {uip} /\ r = NewRef
              /\ \E l \in SecondWatches(clause \ {uip}) : db' = With(NewRef, clause, {uip, l}, TRUE)
  BY <1>4
<1>. DEFINE p  == trail_lim[bt + 1]
            t2 == SubSeq(trail, 1, p)
            l2 == SubSeq(trail_lim, 1, bt)
<1>6. bt \in Nat /\ bt < Len(trail_lim) /\ clause \subseteq Literal /\ uip \in clause
  BY <1>3, <1>5 DEF Learnt
<1>7. CutTo(trail, trail_lim, bt, t2, l2) /\ StackInv(db, t2, l2, assumptions, order_heap')
  <2>1. CutTo(trail, trail_lim, bt, t2, l2)
        /\ StackInv(db, t2, l2, assumptions, order_heap \cup
             {LitVar(trail[k].lit) : k \in trail_lim[bt + 1] + 1 .. Len(trail)})
    BY <1>1, <1>6, StackCut, Zenon
  <2>2. order_heap' = order_heap \cup
             {LitVar(trail[k].lit) : k \in trail_lim[bt + 1] + 1 .. Len(trail)}
    BY <1>5, Zenon
  <2>. QED BY <2>1, <2>2, Zenon
<1>8. AssumedInv(t2, l2, assumptions)
  BY <1>1, <1>6, AssumedCut
<1>9. \A e, k : k \in 1 .. p /\ Passed(e, trail, trail_lim, k) => Passed(e, t2, l2, k)
  BY <1>1, <1>6, PassedCut
<1>. HIDE DEF p, t2, l2
<1>10. /\ p \in Nat /\ p <= Len(trail) /\ Len(t2) = p /\ DOMAIN t2 = 1 .. p
       /\ \A k \in 1 .. p : t2[k] = trail[k]
       /\ Len(l2) = bt /\ DOMAIN l2 = 1 .. bt
       /\ \A i \in 1 .. bt : l2[i] = trail_lim[i] /\ trail_lim[i] <= p
  BY <1>7 DEF CutTo, p
<1>11. /\ trail' = Append(t2, [lit |-> uip, reason |-> r]) /\ trail_lim' = l2 /\ qhead' = p
  BY <1>5, <1>10 DEF t2, l2, p
<1>12. p <= trail_lim[decisionLevel]
  <2>1. bt + 1 \in DOMAIN trail_lim /\ decisionLevel \in DOMAIN trail_lim /\ bt + 1 <= decisionLevel
    BY <1>3, <1>6
  <2>. QED BY <2>1, <1>1 DEF TrailInv, p
<1>13. \A k \in 1 .. p : LitVar(t2[k].lit) # LitVar(uip)
  <2>. SUFFICES ASSUME NEW k \in 1 .. p, LitVar(t2[k].lit) = LitVar(uip) PROVE FALSE
    OBVIOUS
  <2>1. PICK j \in DOMAIN trail : trail[j].lit = -uip /\ trail_lim[decisionLevel] < j
    BY <1>5 DEF Learnt
  <2>2. LitVar(trail[j].lit) = LitVar(trail[k].lit) /\ k \in DOMAIN trail
    BY <2>1, <1>3, <1>6, <1>10, LiteralFacts, SMTT(30)
  <2>3. j = k
    BY <2>1, <2>2, <1>1 DEF TrailInv
  <2>4. trail_lim[decisionLevel] \in Nat
    BY <1>3
  <2>. QED BY <2>1, <2>3, <2>4, <1>3, <1>10, <1>12
<1>14. \A x \in clause \ {uip} : TrueBy(t2, p, -x)
  <2>. SUFFICES ASSUME NEW x \in clause \ {uip} PROVE TrueBy(t2, p, -x)
    OBVIOUS
  <2>1. PICK k \in DOMAIN trail : trail[k].lit = -x /\ k <= p
    BY <1>5 DEF Learnt, p
  <2>2. k \in 1 .. p
    BY <2>1, <1>3, <1>10
  <2>. QED BY <2>1, <2>2, <1>10 DEF TrueBy
<1>15. /\ DatabaseInv(db') /\ DOMAIN db \subseteq DOMAIN db' /\ \A c \in DOMAIN db : db'[c] = db[c]
       /\ \A c \in DOMAIN db' \ DOMAIN db :
            /\ db'[c].lits = clause /\ db'[c].learnt
            /\ \E w \in SecondWatches(clause \ {uip}) : db'[c].watch = {uip, w}
       /\ r # None => r \in DOMAIN db' /\ db'[r].lits = clause
       /\ r = None => clause = {uip} /\ bt = 0
  <2>1. CASE clause = {uip} /\ r = None /\ db' = db
    BY <2>1, <1>1, <1>5 DEF Learnt
  <2>2. CASE clause # {uip} /\ r = NewRef
             /\ \E l \in SecondWatches(clause \ {uip}) : db' = With(NewRef, clause, {uip, l}, TRUE)
    <3>0. PICK w \in SecondWatches(clause \ {uip}) : db' = With(NewRef, clause, {uip, w}, TRUE)
      BY <2>2
    <3>1. w \in clause /\ w # uip
      BY <2>2, <1>5 DEF Learnt
    <3>. DEFINE m == With(NewRef, clause, {uip, w}, TRUE)
    <3>4. /\ DatabaseInv(m) /\ DOMAIN m = DOMAIN db \cup {NewRef}
          /\ \A c \in DOMAIN db : m[c] = db[c]
          /\ m[NewRef].lits = clause /\ m[NewRef].watch = {uip, w} /\ m[NewRef].learnt = TRUE
      <4>1. TRUE \in BOOLEAN /\ uip \in clause /\ w \in clause /\ uip # w /\ clause \subseteq Literal
        BY <3>1, <1>6
      <4>2. AddedTo(m, clause, {uip, w}, TRUE)
        BY <4>1, <1>1, ClauseAdded
      <4>. QED BY <4>2 DEF AddedTo
    <3>. HIDE DEF m
    <3>2. /\ DatabaseInv(db') /\ DOMAIN db' = DOMAIN db \cup {NewRef}
          /\ \A c \in DOMAIN db : db'[c] = db[c]
          /\ db'[NewRef].lits = clause /\ db'[NewRef].watch = {uip, w} /\ db'[NewRef].learnt = TRUE
      <4>1. db' = m
        BY <3>0 DEF m
      <4>. QED BY <3>4, <4>1
    <3>3. NewRef # None
      BY <1>1, NewRefFresh
    <3>. QED BY <3>2, <3>3, <2>2
  <2>. QED BY <2>1, <2>2, <1>5
<1>16. StackInv(db', trail', trail_lim', assumptions', order_heap')
  <2>1. \A k \in DOMAIN t2 : t2[k].reason # None => t2[k].reason \in DOMAIN db
    BY <1>7 DEF StackInv, ReasonsInv
  <2>2. StackInv(db', t2, l2, assumptions, order_heap')
    BY <2>1, <1>7, <1>15, StackOfReasons
  <2>3. r = None => l2 = <<>>
    <3>1. TrailInv(t2, l2)
      BY <1>7 DEF StackInv
    <3>. QED BY <3>1, <1>10, <1>15 DEF TrailInv
  <2>4. StackInv(db', Append(t2, [lit |-> uip, reason |-> r]), l2, assumptions, order_heap')
    <3>1. uip \in Literal /\ r \in Nat
      BY <1>5, <1>6
    <3>2. r # None => /\ r \in DOMAIN db' /\ uip \in db'[r].lits
                      /\ \A x \in db'[r].lits \ {uip} : TrueBy(t2, Len(t2), -x)
      BY <1>6, <1>10, <1>14, <1>15
    <3>3. \A k \in DOMAIN t2 : LitVar(t2[k].lit) # LitVar(uip)
      BY <1>10, <1>13
    <3>. QED BY <2>2, <2>3, <3>1, <3>2, <3>3, FactPushed
  <2>. QED BY <2>4, <1>2, <1>11 DEF callVars
<1>17. /\ trail' \in Seq(Fact) /\ Len(trail') = p + 1 /\ DOMAIN trail' = 1 .. p + 1
       /\ \A k \in 1 .. p : trail'[k] = t2[k]
       /\ trail'[p + 1].lit = uip
  <2>1. t2 \in Seq(Fact)
    BY <1>7 DEF StackInv, TrailInv
  <2>2. [lit |-> uip, reason |-> r] \in Fact
    BY <1>5, <1>6 DEF Fact
  <2>. QED BY <2>1, <2>2, <1>10, <1>11
<1>18. AssumedInv(trail', trail_lim', assumptions')
  <2>1. TrailInv(t2, l2)
    BY <1>7 DEF StackInv
  <2>2. [lit |-> uip, reason |-> r] \in Fact
    BY <1>5, <1>6 DEF Fact
  <2>3. AssumedInv(Append(t2, [lit |-> uip, reason |-> r]), l2, assumptions)
    BY <2>1, <2>2, <1>8, AssumedPushed
  <2>. QED BY <2>3, <1>2, <1>11 DEF callVars
<1>19. QueueInv'
  <2>1. qhead' \in 0 .. Len(trail')
    BY <1>10, <1>11, <1>17
  <2>2. trail_lim' # <<>> => trail_lim'[Len(trail_lim')] <= qhead'
    <3>. SUFFICES ASSUME l2 # <<>> PROVE l2[Len(l2)] <= p
      BY <1>11
    <3>1. TrailInv(t2, l2)
      BY <1>7 DEF StackInv
    <3>2. Len(l2) \in DOMAIN l2
      BY <3>1 DEF TrailInv
    <3>. QED BY <3>1, <3>2, <1>10, TrailTypes
  <2>. QED BY <2>1, <2>2, <1>2 DEF QueueInv, decisionLevel, Propagating
<1>20. WatchInv'
  <2>. SUFFICES ASSUME NEW c \in DOMAIN db', NEW k \in DOMAIN trail', Seen(c, k)'
                PROVE  Passed(db'[c], trail', trail_lim', k)
    BY DEF WatchInv
  <2>1. k \in 1 .. p /\ trail'[k] = trail[k] /\ t2[k] = trail[k]
    <3>1. k \in 1 .. p
      BY <1>2, <1>10, <1>11, <1>17 DEF Seen
    <3>. QED BY <3>1, <1>10, <1>17
  <2>2. k \in DOMAIN trail /\ k <= trail_lim[decisionLevel]
    <3>1. trail_lim[decisionLevel] \in Nat
      BY <1>3
    <3>. QED BY <2>1, <3>1, <1>3, <1>10, <1>12
  <2>3. CASE c \in DOMAIN db
    <3>1. Seen(c, k)
      BY <2>2, <1>2, <1>3 DEF Seen
    <3>2. Passed(db[c], trail, trail_lim, k)
      BY <2>2, <2>3, <3>1, <1>1 DEF WatchInv
    <3>3. Passed(db[c], t2, l2, k)
      BY <2>1, <3>2, <1>9
    <3>4. TrailInv(t2, l2) /\ [lit |-> uip, reason |-> r] \in Fact /\ k \in DOMAIN t2
      BY <2>1, <1>5, <1>6, <1>7, <1>10 DEF Fact, StackInv
    <3>5. Passed(db[c], Append(t2, [lit |-> uip, reason |-> r]), l2, k)
      BY <3>3, <3>4, PassedPushed
    <3>. QED BY <2>3, <3>5, <1>11, <1>15
  <2>4. CASE c \notin DOMAIN db
    <3>1. PICK w \in SecondWatches(clause \ {uip}) : db'[c].watch = {uip, w}
      BY <2>4, <1>15
    <3>2. db'[c].lits = clause
      BY <2>4, <1>15
    <3>. SUFFICES ASSUME -trail[k].lit \in {uip, w}
                  PROVE  \E j \in DOMAIN trail' :
                           trail'[j].lit \in clause /\ NoLater(trail_lim', j, k)
      BY <2>1, <3>1, <3>2 DEF Passed
    <3>3. trail[k].lit \in Literal /\ -(-trail[k].lit) = trail[k].lit
      <4>1. trail[k].lit \in Literal
        BY <2>2, <1>1, TrailTypes
      <4>. QED BY <4>1, LiteralFacts
    <3>4. -trail[k].lit # uip
      <4>1. LitVar(t2[k].lit) # LitVar(uip)
        BY <2>1, <1>13
      <4>. QED BY <4>1, <2>1, <3>3, LiteralFacts
    <3>5. trail[k].lit = -w
      BY <3>3, <3>4
    <3>6. bt \in DOMAIN trail_lim /\ trail_lim[bt] < k
      BY <2>2, <3>5, <1>5 DEF Learnt
    <3>7. NoLater(trail_lim', p + 1, k)
      <4>. SUFFICES ASSUME NEW i \in 1 .. bt, k <= l2[i] PROVE FALSE
        BY <1>10, <1>11 DEF NoLater
      <4>1. l2[i] = trail_lim[i] /\ i \in DOMAIN trail_lim /\ i <= bt
        BY <1>3, <1>6, <1>10
      <4>2. trail_lim[i] <= trail_lim[bt]
        BY <4>1, <3>6, <1>1 DEF TrailInv
      <4>3. trail_lim[i] \in Nat /\ trail_lim[bt] \in Nat
        BY <4>1, <3>6, <1>3
      <4>. QED BY <4>1, <4>2, <4>3, <3>6, <2>1, <1>10
    <3>8. p + 1 \in DOMAIN trail' /\ trail'[p + 1].lit \in clause
      BY <1>6, <1>10, <1>17
    <3>. QED BY <3>7, <3>8
  <2>. QED BY <2>3, <2>4
<1>21. ModelsInv'
  <2>0. Given' = Given
    BY <1>2 DEF Given, callVars
  <2>1. \A k \in 1 .. p : AtRoot(trail_lim, k) => AtRoot(trail_lim', k)
    <3>1. bt = 0 => trail_lim' = <<>>
      <4>1. TrailInv(t2, l2)
        BY <1>7 DEF StackInv
      <4>. QED BY <4>1, <1>10, <1>11 DEF TrailInv
    <3>2. bt # 0 => 1 \in 1 .. bt
      BY <1>6
    <3>. QED BY <3>1, <3>2, <1>3, <1>10, <1>11 DEF AtRoot
  <2>2. \A k \in 1 .. p : AtRoot(trail_lim', k) => AtRoot(trail_lim, k)
    <3>1. CASE bt = 0
      BY <3>1, <1>10 DEF AtRoot, p
    <3>2. CASE bt # 0
      <4>1. 1 \in 1 .. bt /\ l2 # <<>>
        BY <3>2, <1>6, <1>10
      <4>. QED BY <4>1, <1>10, <1>11 DEF AtRoot
    <3>. QED BY <3>1, <3>2
  <2>3. ASSUME NEW tc \in Given PROVE \A c \in DOMAIN db' : SatisfiedBy(tc, db', c)
    <3>1. \A c \in DOMAIN db : SatisfiedBy(tc, db', c)
      BY <1>1, <1>15 DEF GivenHold, SatisfiedBy
    <3>2. \A c \in DOMAIN db' \ DOMAIN db : SatisfiedBy(tc, db', c)
      BY <1>5, <1>15 DEF Learnt, SatisfiedBy
    <3>. QED BY <3>1, <3>2
  <2>4. ASSUME NEW tc \in Given, NEW k \in DOMAIN trail', AtRoot(trail_lim', k)
        PROVE  Holds(tc, trail'[k].lit)
    <3>1. CASE k \in 1 .. p
      <4>1. AtRoot(trail_lim, k) /\ trail'[k] = trail[k] /\ k \in DOMAIN trail
        BY <2>2, <2>4, <3>1, <1>3, <1>10, <1>17
      <4>. QED BY <4>1, <1>1 DEF GivenHold, RootHolds
    <3>2. CASE k = p + 1
      <4>1. bt = 0
        <5>. SUFFICES ASSUME bt # 0 PROVE FALSE
          OBVIOUS
        <5>1. 1 \in 1 .. bt /\ l2 # <<>>
          BY <1>6, <1>10
        <5>2. l2[1] <= p /\ l2[1] \in Nat
          BY <5>1, <1>3, <1>6, <1>10
        <5>. QED BY <5>1, <5>2, <3>2, <2>4, <1>10, <1>11 DEF AtRoot
      <4>2. clause = {uip}
        BY <4>1, <1>5 DEF Learnt
      <4>3. Holds(tc, uip)
        BY <4>2, <1>5 DEF Learnt
      <4>. QED BY <4>3, <3>2, <1>17
    <3>. QED BY <3>1, <3>2, <1>10, <1>17
  <2>5. GivenHold(db, trail, trail_lim)'
    BY <2>0, <2>3, <2>4 DEF GivenHold, RootHolds
  <2>6. HeldGive(db, trail, trail_lim)'
    <3>. SUFFICES ASSUME NEW tc \in TestCase, \A c \in DOMAIN db' : ~db'[c].learnt => SatisfiedBy(tc, db', c),
                         RootHolds(tc, trail', trail_lim')
                  PROVE  tc \in Given
      BY <2>0 DEF HeldGive
    <3>1. \A c \in DOMAIN db : ~db[c].learnt => SatisfiedBy(tc, db, c)
      BY <1>15 DEF SatisfiedBy
    <3>2. RootHolds(tc, trail, trail_lim)
      <4>. SUFFICES ASSUME NEW k \in DOMAIN trail, AtRoot(trail_lim, k) PROVE Holds(tc, trail[k].lit)
        BY DEF RootHolds
      <4>1. k \in 1 .. p
        <5>1. 1 \in DOMAIN trail_lim /\ bt + 1 \in DOMAIN trail_lim /\ 1 <= bt + 1
          BY <1>3, <1>6
        <5>2. trail_lim[1] <= p /\ trail_lim[1] \in Nat
          BY <5>1, <1>1, <1>3 DEF TrailInv, p
        <5>. QED BY <5>2, <1>3, <1>10 DEF AtRoot
      <4>2. AtRoot(trail_lim', k) /\ k \in DOMAIN trail' /\ trail'[k] = trail[k]
        BY <4>1, <2>1, <1>10, <1>17
      <4>. QED BY <4>2 DEF RootHolds
    <3>. QED BY <3>1, <3>2, <1>1 DEF HeldGive
  <2>. QED BY <2>5, <2>6, <1>1, <1>2 DEF ModelsInv
<1>22. CallInv' /\ ConflictInv' /\ AnswersRight'
  BY <1>1, <1>2 DEF CallInv, ConflictInv, AnswersRight, callVars
<1>. QED BY <1>15, <1>16, <1>18, <1>19, <1>20, <1>21, <1>22 DEF MInv

-----------------------------------------------------------------------------
(* What every action needs of the invariant *)

LEMMA InvParts ==
  ASSUME MInv
  PROVE  /\ DatabaseInv(db) /\ StackInv(db, trail, trail_lim, assumptions, order_heap)
         /\ TrailInv(trail, trail_lim) /\ ReasonsInv(db, trail) /\ HeapInv(trail, order_heap)
         /\ DecisionsInv(trail, trail_lim, assumptions)
         /\ AssumedInv(trail, trail_lim, assumptions)
         /\ Len(trail) \in Nat /\ DOMAIN trail = 1 .. Len(trail)
         /\ qhead \in Nat /\ qhead <= Len(trail)
         /\ ok => WatchInv /\ GivenHold(db, trail, trail_lim) /\ HeldGive(db, trail, trail_lim)
         /\ ~ok => Given = {}
<1>1. TrailInv(trail, trail_lim)
  BY DEF MInv, StackInv
<1>2. Len(trail) \in Nat /\ DOMAIN trail = 1 .. Len(trail)
  BY <1>1, TrailTypes
<1>3. qhead \in Nat /\ qhead <= Len(trail)
  <2>1. qhead \in 0 .. Len(trail)
    BY DEF MInv, QueueInv
  <2>. QED BY <2>1, <1>2
<1>. QED BY <1>1, <1>2, <1>3 DEF MInv, StackInv, ModelsInv

LEMMA GivenSame ==
  ASSUME UNCHANGED <<formula, added>>
  PROVE  Given' = Given
  BY DEF Given

\* The root ends where the first level began: only without levels is a new
\* fact one of the root.
LEMMA RootPushed ==
  ASSUME NEW tr, NEW lim, TrailInv(tr, lim), NEW x \in Fact, NEW tc
  PROVE  /\ RootHolds(tc, Append(tr, x), lim) => RootHolds(tc, tr, lim)
         /\ RootHolds(tc, tr, lim) /\ (lim = <<>> => Holds(tc, x.lit))
              => RootHolds(tc, Append(tr, x), lim)
<1>. DEFINE t2 == Append(tr, x)
            n  == Len(tr)
<1>1. n \in Nat /\ DOMAIN tr = 1 .. n /\ tr \in Seq(Fact)
  BY TrailTypes DEF TrailInv
<1>2. /\ DOMAIN t2 = 1 .. n + 1 /\ t2[n + 1] = x
      /\ \A k \in 1 .. n : t2[k] = tr[k]
  BY <1>1
<1>. HIDE DEF t2
<1>3. AtRoot(lim, n + 1) => lim = <<>>
  <2>. SUFFICES ASSUME lim # <<>>, n + 1 <= lim[1] PROVE FALSE
    BY DEF AtRoot
  <2>1. 1 \in DOMAIN lim
    BY DEF TrailInv
  <2>2. lim[1] \in Nat /\ lim[1] <= n
    BY <2>1, TrailTypes
  <2>. QED BY <2>2, <1>1
<1>4. RootHolds(tc, t2, lim) => RootHolds(tc, tr, lim)
  BY <1>1, <1>2 DEF RootHolds
<1>5. ASSUME RootHolds(tc, tr, lim), lim = <<>> => Holds(tc, x.lit), NEW k \in 1 .. n + 1, AtRoot(lim, k)
      PROVE  Holds(tc, t2[k].lit)
  <2>1. CASE k \in 1 .. n
    BY <2>1, <1>1, <1>2, <1>5 DEF RootHolds
  <2>2. CASE k = n + 1
    BY <2>2, <1>2, <1>3, <1>5
  <2>. QED BY <2>1, <2>2, <1>1
<1>6. RootHolds(tc, tr, lim) /\ (lim = <<>> => Holds(tc, x.lit)) => RootHolds(tc, t2, lim)
  BY <1>2, <1>5 DEF RootHolds
<1>. QED BY <1>4, <1>6 DEF t2

LEMMA RootOpened ==
  ASSUME NEW tr, NEW lim, TrailInv(tr, lim), NEW k \in DOMAIN tr
  PROVE  AtRoot(Append(lim, Len(tr)), k) <=> AtRoot(lim, k)
<1>1. /\ Len(tr) \in Nat /\ k \in 1 .. Len(tr) /\ lim \in Seq(Nat)
      /\ Len(lim) \in Nat /\ DOMAIN lim = 1 .. Len(lim)
  BY TrailTypes DEF TrailInv
<1>2. Append(lim, Len(tr)) # <<>> /\ Append(lim, Len(tr)) \in Seq(Nat)
  BY <1>1
<1>3. CASE lim = <<>>
  <2>1. Append(lim, Len(tr))[1] = Len(tr)
    BY <1>1, <1>3
  <2>. QED BY <2>1, <1>1, <1>3 DEF AtRoot
<1>4. CASE lim # <<>>
  <2>1. 1 \in 1 .. Len(lim)
    BY <1>1, <1>4
  <2>2. Append(lim, Len(tr))[1] = lim[1]
    BY <1>1, <2>1
  <2>. QED BY <2>2, <1>2, <1>4 DEF AtRoot
<1>. QED BY <1>3, <1>4

\* Clauses that keep their literals say the same.
LEMMA ModelsOfLits ==
  ASSUME NEW m2, DOMAIN m2 = DOMAIN db,
         \A c \in DOMAIN db : m2[c].lits = db[c].lits /\ m2[c].learnt = db[c].learnt
  PROVE  /\ GivenHold(db, trail, trail_lim) => GivenHold(m2, trail, trail_lim)
         /\ HeldGive(db, trail, trail_lim) => HeldGive(m2, trail, trail_lim)
  BY DEF GivenHold, HeldGive, SatisfiedBy

\* Under visit, the last fact taken is one of the last level: no true literal is
\* of a later one.
LEMMA VisitTop ==
  ASSUME MInv, visiting # {}
  PROVE  /\ Propagating /\ confl = None /\ qhead \in DOMAIN trail
         /\ \A c \in visiting : c \in DOMAIN db /\ -trail[qhead].lit \in db[c].watch
         /\ trail[qhead].lit \in Literal
         /\ trail_lim # <<>> => trail_lim[decisionLevel] < qhead
         /\ \A j : NoLater(trail_lim, j, qhead)
<1>1. /\ Propagating /\ confl = None
      /\ qhead > 0 /\ (trail_lim # <<>> => trail_lim[decisionLevel] < qhead)
      /\ \A c \in visiting : c \in DOMAIN db /\ -trail[qhead].lit \in db[c].watch
  BY DEF MInv, QueueInv
<1>2. qhead \in DOMAIN trail /\ TrailInv(trail, trail_lim)
  BY <1>1, InvParts
<1>3. ASSUME NEW i \in DOMAIN trail_lim PROVE ~(qhead <= trail_lim[i])
  <2>1. /\ i \in 1 .. Len(trail_lim) /\ Len(trail_lim) \in DOMAIN trail_lim
        /\ trail_lim # <<>> /\ Len(trail_lim) = decisionLevel
    BY <1>2 DEF TrailInv, decisionLevel
  <2>2. trail_lim[i] <= trail_lim[decisionLevel]
    BY <2>1, <1>2 DEF TrailInv
  <2>3. trail_lim[i] \in Nat /\ trail_lim[decisionLevel] \in Nat /\ qhead \in Nat
    BY <2>1, <1>2, TrailTypes, InvParts
  <2>. QED BY <2>1, <2>2, <2>3, <1>1
<1>4. trail[qhead].lit \in Literal
  BY <1>2, TrailTypes
<1>. QED BY <1>1, <1>2, <1>3, <1>4 DEF NoLater

-----------------------------------------------------------------------------
(* Propagation keeps the invariant *)

LEMMA TakeLiteralStep ==
  ASSUME MInv, TakeLiteral
  PROVE  MInv'
<1>1. /\ Propagating /\ visiting = {} /\ qhead < Len(trail) /\ qhead' = qhead + 1
      /\ visiting' = {c \in DOMAIN db : -trail[qhead + 1].lit \in db[c].watch}
      /\ UNCHANGED <<callVars, pc, ok, db, trail, trail_lim, confl, order_heap, simpDB_assigns>>
  BY DEF TakeLiteral
<1>2. confl = None
  <2>. SUFFICES ASSUME confl # None PROVE FALSE
    OBVIOUS
  <2>1. qhead = Len(trail)
    BY DEF MInv, ConflictInv
  <2>. QED BY <2>1, <1>1, InvParts
<1>3. QueueInv'
  <2>1. qhead' \in 0 .. Len(trail)
    BY <1>1, InvParts
  <2>2. trail_lim # <<>> => trail_lim[decisionLevel] < qhead'
    <3>. SUFFICES ASSUME trail_lim # <<>> PROVE trail_lim[decisionLevel] < qhead'
      OBVIOUS
    <3>1. trail_lim[decisionLevel] <= qhead
      BY DEF MInv, QueueInv
    <3>2. TrailInv(trail, trail_lim) /\ qhead \in Nat
      BY InvParts
    <3>3. decisionLevel \in DOMAIN trail_lim
      BY <3>2 DEF TrailInv, decisionLevel
    <3>4. trail_lim[decisionLevel] \in Nat
      BY <3>2, <3>3, TrailTypes
    <3>. QED BY <3>1, <3>2, <3>4, <1>1
  <2>3. visiting' \subseteq DOMAIN db
        /\ \A c \in visiting' : -trail[qhead'].lit \in db[c].watch
    BY <1>1
  <2>4. trail_lim # <<>> => trail_lim[decisionLevel] <= qhead'
    <3>. SUFFICES ASSUME trail_lim # <<>> PROVE trail_lim[decisionLevel] <= qhead'
      OBVIOUS
    <3>2. TrailInv(trail, trail_lim) /\ qhead \in Nat
      BY InvParts
    <3>3. decisionLevel \in DOMAIN trail_lim
      BY <3>2 DEF TrailInv, decisionLevel
    <3>4. trail_lim[decisionLevel] \in Nat
      BY <3>2, <3>3, TrailTypes
    <3>. QED BY <2>2, <3>2, <3>4, <1>1
  <2>5. qhead' > 0
    BY <1>1, InvParts
  <2>. QED BY <2>1, <2>2, <2>3, <2>4, <2>5, <1>1, <1>2 DEF QueueInv, decisionLevel, Propagating
<1>4. WatchInv'
  <2>. SUFFICES ASSUME NEW c \in DOMAIN db, NEW k \in DOMAIN trail, Seen(c, k)'
                PROVE  Passed(db[c], trail, trail_lim, k)
    BY <1>1 DEF WatchInv
  <2>1. qhead \in Nat /\ k \in Nat /\ ok /\ WatchInv
    <3>1. ok
      BY <1>1 DEF MInv, CallInv, Propagating
    <3>. QED BY <3>1, InvParts
  <2>2. k < qhead + 1 \/ (k = qhead + 1 /\ c \notin visiting')
    BY <1>1, <1>2 DEF Seen
  <2>3. CASE k < qhead + 1
    <3>1. k < qhead \/ k = qhead
      BY <2>1, <2>3
    <3>2. Seen(c, k)
      BY <3>1, <1>1, <1>2 DEF Seen
    <3>. QED BY <3>2, <2>1 DEF WatchInv
  <2>4. CASE k = qhead + 1 /\ c \notin visiting'
    BY <2>4, <1>1 DEF Passed
  <2>. QED BY <2>2, <2>3, <2>4
<1>. QED BY <1>1, <1>2, <1>3, <1>4
         DEF MInv, CallInv, ConflictInv, ModelsInv, AnswersRight, callVars, GivenHold, HeldGive,
             Given, SatisfiedBy

LEMMA PassSatisfiedStep ==
  ASSUME MInv, NEW c \in visiting, PassSatisfied(c)
  PROVE  MInv'
<1>1. /\ Satisfied(c) /\ visiting' = visiting \ {c}
      /\ UNCHANGED <<callVars, pc, ok, db, trail, trail_lim, qhead, confl, order_heap,
                     simpDB_assigns>>
  BY DEF PassSatisfied
<1>2. QueueInv'
  BY <1>1 DEF MInv, QueueInv, decisionLevel, Propagating
<1>3. ASSUME WatchInv PROVE WatchInv'
  <2>. SUFFICES ASSUME NEW d \in DOMAIN db, NEW k \in DOMAIN trail, Seen(d, k)'
                PROVE  Passed(db[d], trail, trail_lim, k)
    BY <1>1 DEF WatchInv
  <2>1. CASE Seen(d, k)
    BY <2>1, <1>3 DEF WatchInv
  <2>2. CASE ~Seen(d, k)
    <3>1. d = c /\ k = qhead
      BY <2>2, <1>1, VisitTop DEF Seen
    <3>2. \E j \in DOMAIN trail : trail[j].lit \in db[c].lits
      BY <1>1 DEF Satisfied, IsTrue, TrueLits
    <3>3. \A j : NoLater(trail_lim, j, qhead)
      BY VisitTop
    <3>. QED BY <3>1, <3>2, <3>3 DEF Passed
  <2>. QED BY <2>1, <2>2
<1>. QED BY <1>1, <1>2, <1>3
         DEF MInv, CallInv, ConflictInv, ModelsInv, AnswersRight, callVars, GivenHold, HeldGive,
             Given, SatisfiedBy

LEMMA FindConflictStep ==
  ASSUME MInv, NEW c \in visiting, FindConflict(c)
  PROVE  MInv'
<1>1. /\ NewWatches(c) = {} /\ IsFalse(OtherWatch(c))
      /\ confl' = c /\ qhead' = Len(trail) /\ visiting' = {}
      /\ UNCHANGED <<callVars, pc, ok, db, trail, trail_lim, order_heap, simpDB_assigns>>
  BY DEF FindConflict
<1>2. /\ Propagating /\ confl = None /\ qhead \in DOMAIN trail /\ c \in DOMAIN db
      /\ -trail[qhead].lit \in db[c].watch /\ trail[qhead].lit \in Literal
      /\ trail_lim # <<>> => trail_lim[decisionLevel] < qhead
  BY VisitTop
<1>3. /\ DatabaseInv(db) /\ TrailInv(trail, trail_lim) /\ DOMAIN trail = 1 .. Len(trail)
      /\ Len(trail) \in Nat /\ qhead \in Nat
  BY InvParts
<1>4. \A l \in db[c].lits : TrueBy(trail, Len(trail), -l)
  <2>. SUFFICES ASSUME NEW l \in db[c].lits PROVE \E k \in DOMAIN trail : trail[k].lit = -l
    BY <1>3 DEF TrueBy
  <2>1. PICK a, b \in db[c].lits : a # b /\ db[c].watch = {a, b}
    BY <1>2, <1>3 DEF DatabaseInv, TwoWatched
  <2>2. OtherWatch(c) \in {a, b} /\ OtherWatch(c) # -trail[qhead].lit
    BY <2>1, <1>2 DEF OtherWatch
  <2>3. CASE l = -trail[qhead].lit
    BY <2>3, <1>2, LiteralFacts
  <2>4. CASE l = OtherWatch(c)
    BY <2>4, <1>1 DEF IsFalse, TrueLits
  <2>5. CASE l \notin db[c].watch
    BY <2>5, <1>1 DEF NewWatches, IsFalse, TrueLits
  <2>. QED BY <2>1, <2>2, <2>3, <2>4, <2>5, <1>2
<1>5. trail_lim # <<>> => \E l \in db[c].lits : ~TrueBy(trail, trail_lim[decisionLevel], -l)
  <2>. SUFFICES ASSUME trail_lim # <<>>, TrueBy(trail, trail_lim[decisionLevel], trail[qhead].lit)
                PROVE  FALSE
    <3>1. -(-trail[qhead].lit) = trail[qhead].lit /\ -trail[qhead].lit \in db[c].lits
      BY <1>2, <1>3, LiteralFacts DEF DatabaseInv, TwoWatched
    <3>. QED BY <3>1
  <2>1. decisionLevel \in DOMAIN trail_lim
    BY <1>3 DEF TrailInv, decisionLevel
  <2>2. trail_lim[decisionLevel] \in Nat /\ trail_lim[decisionLevel] <= Len(trail)
    BY <1>3, <2>1, TrailTypes
  <2>3. PICK k \in 1 .. trail_lim[decisionLevel] : trail[k].lit = trail[qhead].lit
    BY DEF TrueBy
  <2>4. k \in DOMAIN trail /\ k < qhead
    BY <2>2, <1>2, <1>3
  <2>. QED BY <2>3, <2>4, <1>2, <1>3, TrailConsistent
<1>6. c # None
  BY <1>2, <1>3 DEF DatabaseInv, Database
<1>7. ConflictInv'
  BY <1>1, <1>2, <1>4, <1>5 DEF ConflictInv, decisionLevel
<1>8. QueueInv'
  <2>1. qhead' \in 0 .. Len(trail)
    BY <1>1, <1>3
  <2>2. trail_lim # <<>> => trail_lim[decisionLevel] <= Len(trail)
    BY <1>3, TrailTypes DEF decisionLevel, TrailInv
  <2>. QED BY <2>1, <2>2, <1>1, <1>2 DEF QueueInv, decisionLevel, Propagating
<1>9. ASSUME WatchInv PROVE WatchInv'
  <2>. SUFFICES ASSUME NEW d \in DOMAIN db, NEW k \in DOMAIN trail, Seen(d, k)'
                PROVE  Passed(db[d], trail, trail_lim, k)
    BY <1>1 DEF WatchInv
  <2>1. trail_lim # <<>> /\ k <= trail_lim[decisionLevel]
    BY <1>1, <1>6 DEF Seen, decisionLevel
  <2>2. trail_lim[decisionLevel] \in Nat
    BY <2>1, <1>3, TrailTypes DEF decisionLevel, TrailInv
  <2>3. k < qhead
    BY <2>1, <2>2, <1>2, <1>3
  <2>. QED BY <2>3, <1>2, <1>9 DEF Seen, WatchInv
<1>. QED BY <1>1, <1>2, <1>7, <1>8, <1>9
         DEF MInv, CallInv, ModelsInv, AnswersRight, callVars, GivenHold, HeldGive,
             Given, SatisfiedBy, Propagating

LEMMA MoveWatchStep ==
  ASSUME MInv, NEW c \in visiting, MoveWatch(c)
  PROVE  MInv'
<1>1. PICK l \in NewWatches(c) : db' = [db EXCEPT ![c].watch = {OtherWatch(c), l}]
  BY DEF MoveWatch
<1>2. /\ visiting' = visiting \ {c}
      /\ UNCHANGED <<callVars, pc, ok, trail, trail_lim, qhead, confl, order_heap, simpDB_assigns>>
  BY DEF MoveWatch
<1>3. /\ Propagating /\ confl = None /\ qhead \in DOMAIN trail /\ c \in DOMAIN db
      /\ -trail[qhead].lit \in db[c].watch /\ trail[qhead].lit \in Literal
      /\ \A d \in visiting : d \in DOMAIN db /\ -trail[qhead].lit \in db[d].watch
  BY VisitTop
<1>4. /\ DatabaseInv(db) /\ TrailInv(trail, trail_lim) /\ ReasonsInv(db, trail)
      /\ StackInv(db, trail, trail_lim, assumptions, order_heap)
  BY InvParts
<1>. DEFINE o == OtherWatch(c)
<1>5. PICK a, b \in db[c].lits : a # b /\ db[c].watch = {a, b}
  BY <1>3, <1>4 DEF DatabaseInv, TwoWatched
<1>6. o \in db[c].watch /\ o \in db[c].lits /\ o # -trail[qhead].lit
  BY <1>3, <1>5 DEF OtherWatch
<1>7. l \in db[c].lits /\ l # o /\ -l \notin TrueLits
  BY <1>1, <1>6 DEF NewWatches, IsFalse
<1>. HIDE DEF o
<1>8. db \in [DOMAIN db -> Entry] /\ db[c] \in Entry /\ db[c].lits \subseteq Literal
  BY <1>3, <1>4 DEF DatabaseInv, Database, Entry
<1>9. /\ DOMAIN db' = DOMAIN db /\ \A d \in DOMAIN db : d # c => db'[d] = db[d]
      /\ db'[c] = [db[c] EXCEPT !.watch = {o, l}]
  BY <1>1, <1>3, <1>8 DEF o
<1>10. /\ db'[c].lits = db[c].lits /\ db'[c].learnt = db[c].learnt
       /\ db'[c].watch = {o, l} /\ db'[c] \in Entry
  BY <1>6, <1>7, <1>8, <1>9 DEF Entry
<1>11. DatabaseInv(db')
  <2>1. db' \in [DOMAIN db -> Entry]
    BY <1>1, <1>8, <1>9, <1>10
  <2>2. DOMAIN db \in SUBSET (Nat \ {None}) /\ IsFiniteSet(DOMAIN db)
    BY <1>4 DEF DatabaseInv, Database
  <2>3. \A d \in DOMAIN db' : TwoWatched(db'[d])
    <3>1. TwoWatched(db'[c])
      BY <1>6, <1>7, <1>10 DEF TwoWatched
    <3>2. \A d \in DOMAIN db : d # c => TwoWatched(db'[d])
      BY <1>4, <1>9 DEF DatabaseInv
    <3>. QED BY <3>1, <3>2, <1>9
  <2>. QED BY <2>1, <2>2, <2>3, <1>9 DEF DatabaseInv, Database
<1>12. \A d \in DOMAIN db : db'[d].lits = db[d].lits /\ db'[d].learnt = db[d].learnt
  BY <1>9, <1>10
<1>13. StackInv(db', trail, trail_lim, assumptions, order_heap)
  BY <1>4, <1>9, <1>12, StackOfReasons DEF ReasonsInv
<1>14. QueueInv'
  <2>1. \A d \in visiting' : d \in DOMAIN db' /\ -trail[qhead].lit \in db'[d].watch
    BY <1>2, <1>3, <1>9
  <2>. QED BY <2>1, <1>2 DEF MInv, QueueInv, decisionLevel, Propagating
<1>15. ok /\ WatchInv /\ GivenHold(db, trail, trail_lim) /\ HeldGive(db, trail, trail_lim)
  <2>1. ok
    BY <1>3 DEF MInv, CallInv, Propagating
  <2>. QED BY <2>1, InvParts
<1>16. WatchInv'
  <2>. SUFFICES ASSUME NEW d \in DOMAIN db, NEW k \in DOMAIN trail, Seen(d, k)'
                PROVE  Passed(db'[d], trail, trail_lim, k)
    BY <1>2, <1>9 DEF WatchInv
  <2>1. CASE d # c
    <3>1. Seen(d, k)
      BY <2>1, <1>2, <1>3 DEF Seen
    <3>. QED BY <2>1, <3>1, <1>9, <1>15 DEF WatchInv
  <2>2. CASE d = c
    <3>. SUFFICES ASSUME -trail[k].lit \in {o, l}
                  PROVE  \E j \in DOMAIN trail :
                           trail[j].lit \in db[c].lits /\ NoLater(trail_lim, j, k)
      BY <2>2, <1>10 DEF Passed
    <3>1. trail[k].lit \in Literal
      BY <1>4, TrailTypes
    <3>2. -trail[k].lit # l
      <4>1. trail[k].lit \in TrueLits
        BY DEF TrueLits
      <4>. QED BY <4>1, <3>1, <1>7, LiteralFacts
    <3>3. k # qhead
      BY <3>2, <1>6
    <3>4. Seen(c, k)
      BY <2>2, <3>3, <1>2, <1>3 DEF Seen
    <3>5. Passed(db[c], trail, trail_lim, k)
      BY <3>4, <1>3, <1>15 DEF WatchInv
    <3>. QED BY <3>2, <3>5, <1>6 DEF Passed
  <2>. QED BY <2>1, <2>2
<1>17. ModelsInv'
  <2>1. GivenHold(db', trail, trail_lim) /\ HeldGive(db', trail, trail_lim)
    BY <1>9, <1>12, <1>15, ModelsOfLits
  <2>2. Given' = Given
    BY <1>2, GivenSame DEF callVars
  <2>3. GivenHold(db, trail, trail_lim)' /\ HeldGive(db, trail, trail_lim)'
    BY <2>1, <2>2, <1>2 DEF GivenHold, HeldGive
  <2>. QED BY <2>3, <1>2, <1>15 DEF ModelsInv
<1>. QED BY <1>2, <1>3, <1>11, <1>13, <1>14, <1>16, <1>17
         DEF MInv, CallInv, ConflictInv, AnswersRight, callVars, Propagating

LEMMA ImplyOtherStep ==
  ASSUME MInv, NEW c \in visiting, ImplyOther(c)
  PROVE  MInv'
<1>. DEFINE o == OtherWatch(c)
            x == [lit |-> o, reason |-> c]
<1>1. /\ NewWatches(c) = {} /\ ~IsTrue(o) /\ ~IsFalse(o)
      /\ trail' = Append(trail, x) /\ visiting' = visiting \ {c}
      /\ UNCHANGED <<callVars, pc, ok, db, trail_lim, qhead, confl, order_heap, simpDB_assigns>>
  BY DEF ImplyOther, uncheckedEnqueue
<1>2. /\ Propagating /\ confl = None /\ qhead \in DOMAIN trail /\ c \in DOMAIN db
      /\ -trail[qhead].lit \in db[c].watch /\ trail[qhead].lit \in Literal
      /\ trail_lim # <<>> => trail_lim[decisionLevel] < qhead
      /\ \A j : NoLater(trail_lim, j, qhead)
      /\ \A d \in visiting : d \in DOMAIN db /\ -trail[qhead].lit \in db[d].watch
  BY VisitTop
<1>3. /\ DatabaseInv(db) /\ TrailInv(trail, trail_lim)
      /\ StackInv(db, trail, trail_lim, assumptions, order_heap)
      /\ AssumedInv(trail, trail_lim, assumptions)
      /\ Len(trail) \in Nat /\ DOMAIN trail = 1 .. Len(trail) /\ qhead \in Nat
  BY InvParts
<1>4. ok /\ WatchInv /\ GivenHold(db, trail, trail_lim) /\ HeldGive(db, trail, trail_lim)
  <2>1. ok
    BY <1>2 DEF MInv, CallInv, Propagating
  <2>. QED BY <2>1, InvParts
<1>5. PICK a, b \in db[c].lits : a # b /\ db[c].watch = {a, b}
  BY <1>2, <1>3 DEF DatabaseInv, TwoWatched
<1>6. o \in db[c].watch /\ o \in db[c].lits /\ o # -trail[qhead].lit
  BY <1>2, <1>5 DEF OtherWatch
<1>7. db[c].lits \subseteq Literal /\ c \in Nat /\ c # None
  BY <1>2, <1>3 DEF DatabaseInv, Database, Entry
<1>. HIDE DEF o
<1>8. \A l \in db[c].lits \ {o} : TrueBy(trail, Len(trail), -l)
  <2>. SUFFICES ASSUME NEW l \in db[c].lits, l # o PROVE \E k \in DOMAIN trail : trail[k].lit = -l
    BY <1>3 DEF TrueBy
  <2>1. CASE l = -trail[qhead].lit
    BY <2>1, <1>2, LiteralFacts
  <2>2. CASE l \notin db[c].watch
    BY <2>2, <1>1 DEF NewWatches, IsFalse, TrueLits
  <2>. QED BY <2>1, <2>2, <1>2, <1>5, <1>6
<1>9. \A k \in DOMAIN trail : LitVar(trail[k].lit) # LitVar(o)
  <2>. SUFFICES ASSUME NEW k \in DOMAIN trail, LitVar(trail[k].lit) = LitVar(o) PROVE FALSE
    OBVIOUS
  <2>1. trail[k].lit \in TrueLits /\ trail[k].lit \in Literal
    BY <1>3, TrailTypes DEF TrueLits
  <2>2. trail[k].lit = o \/ trail[k].lit = -o
    BY <2>1, <1>6, <1>7, LiteralFacts
  <2>. QED BY <2>1, <2>2, <1>1 DEF IsTrue, IsFalse
<1>10. StackInv(db, Append(trail, x), trail_lim, assumptions, order_heap)
  BY <1>2, <1>3, <1>6, <1>7, <1>8, <1>9, FactPushed
<1>11. x \in Fact
  BY <1>6, <1>7 DEF Fact
<1>12. AssumedInv(Append(trail, x), trail_lim, assumptions)
  BY <1>3, <1>11, AssumedPushed
<1>13. /\ Len(Append(trail, x)) = Len(trail) + 1 /\ Append(trail, x)[Len(trail) + 1] = x
       /\ DOMAIN Append(trail, x) = 1 .. Len(trail) + 1
       /\ \A k \in 1 .. Len(trail) : Append(trail, x)[k] = trail[k]
  <2>1. trail \in Seq(Fact)
    BY <1>3 DEF TrailInv
  <2>. QED BY <2>1, <1>11
<1>14. x.lit = o
  OBVIOUS
<1>. HIDE DEF x
<1>15. QueueInv'
  <2>1. qhead \in 0 .. Len(trail) + 1
    BY <1>3, InvParts
  <2>2. trail'[qhead] = trail[qhead]
    BY <1>1, <1>2, <1>3, <1>13
  <2>3. \A d \in visiting' : d \in DOMAIN db /\ -trail'[qhead].lit \in db[d].watch
    BY <2>2, <1>1, <1>2
  <2>. QED BY <2>1, <2>3, <1>1, <1>2, <1>13 DEF MInv, QueueInv, decisionLevel, Propagating
<1>16. WatchInv'
  <2>. SUFFICES ASSUME NEW d \in DOMAIN db, NEW k \in 1 .. Len(trail) + 1, Seen(d, k)'
                PROVE  Passed(db[d], Append(trail, x), trail_lim, k)
    BY <1>1, <1>13 DEF WatchInv
  <2>1. k < qhead \/ (k = qhead /\ d \notin visiting')
    BY <1>1, <1>2 DEF Seen
  <2>2. k \in DOMAIN trail
    BY <2>1, <1>2, <1>3
  <2>3. CASE Seen(d, k)
    <3>1. Passed(db[d], trail, trail_lim, k)
      BY <2>2, <2>3, <1>4 DEF WatchInv
    <3>. QED BY <3>1, <2>2, <1>3, <1>11, PassedPushed
  <2>4. CASE ~Seen(d, k)
    <3>1. d = c /\ k = qhead
      BY <2>1, <2>4, <1>1, <1>2 DEF Seen
    <3>2. /\ Len(trail) + 1 \in DOMAIN Append(trail, x)
          /\ Append(trail, x)[Len(trail) + 1].lit \in db[c].lits
          /\ NoLater(trail_lim, Len(trail) + 1, qhead)
      BY <1>2, <1>3, <1>6, <1>13, <1>14
    <3>. QED BY <3>1, <3>2 DEF Passed
  <2>. QED BY <2>3, <2>4
<1>17. ModelsInv'
  <2>1. Given' = Given
    BY <1>1, GivenSame DEF callVars
  <2>2. ASSUME NEW tc \in Given PROVE RootHolds(tc, Append(trail, x), trail_lim)
    <3>1. RootHolds(tc, trail, trail_lim) /\ SatisfiedBy(tc, db, c) /\ tc \in TestCase
      BY <1>2, <1>4 DEF GivenHold, Given, Models
    <3>2. ASSUME trail_lim = <<>> PROVE Holds(tc, o)
      <4>1. PICK l \in db[c].lits : Holds(tc, l)
        BY <3>1 DEF SatisfiedBy
      <4>. SUFFICES ASSUME l # o PROVE FALSE
        BY <4>1
      <4>2. PICK k \in 1 .. Len(trail) : trail[k].lit = -l
        BY <1>8 DEF TrueBy
      <4>3. Holds(tc, -l)
        BY <4>2, <3>1, <3>2, <1>3 DEF RootHolds, AtRoot
      <4>. QED BY <4>1, <4>3, <3>1, <1>7, LiteralFacts
    <3>. QED BY <3>1, <3>2, <1>3, <1>11, <1>14, RootPushed
  <2>3. GivenHold(db, trail, trail_lim)'
    BY <2>1, <2>2, <1>1, <1>4 DEF GivenHold
  <2>4. \A tc : RootHolds(tc, Append(trail, x), trail_lim) => RootHolds(tc, trail, trail_lim)
    BY <1>3, <1>11, RootPushed
  <2>5. HeldGive(db, trail, trail_lim)'
    BY <2>1, <2>4, <1>1, <1>4 DEF HeldGive
  <2>. QED BY <2>3, <2>5, <1>1, <1>4 DEF ModelsInv
<1>18. StackInv(db, trail, trail_lim, assumptions, order_heap)'
       /\ AssumedInv(trail, trail_lim, assumptions)'
  BY <1>1, <1>10, <1>12 DEF callVars
<1>. QED BY <1>1, <1>2, <1>15, <1>16, <1>17, <1>18
         DEF MInv, CallInv, ConflictInv, AnswersRight, callVars, Propagating

\* At the root, a clause with false literals alone refutes what was given.
LEMMA RootRefutes ==
  ASSUME MInv, ok, trail_lim = <<>>, confl # None
  PROVE  Given = {}
<1>. SUFFICES ASSUME NEW tc \in Given PROVE FALSE
  OBVIOUS
<1>1. confl \in DOMAIN db /\ \A l \in db[confl].lits : TrueBy(trail, Len(trail), -l)
  BY DEF MInv, ConflictInv
<1>2. DatabaseInv(db) /\ GivenHold(db, trail, trail_lim) /\ DOMAIN trail = 1 .. Len(trail)
  BY InvParts
<1>3. db[confl].lits \subseteq Literal
  BY <1>1, <1>2 DEF DatabaseInv, Database, Entry
<1>4. PICK l \in db[confl].lits : Holds(tc, l)
  BY <1>1, <1>2 DEF GivenHold, SatisfiedBy
<1>5. PICK k \in 1 .. Len(trail) : trail[k].lit = -l
  BY <1>1 DEF TrueBy
<1>6. Holds(tc, -l)
  BY <1>2, <1>5 DEF GivenHold, RootHolds, AtRoot
<1>. QED BY <1>3, <1>4, <1>6, LiteralFacts DEF Given, Models

LEMMA PropagatedClauseStep ==
  ASSUME MInv, PropagatedClause
  PROVE  MInv'
<1>1. /\ pc = "add_propagate" /\ visiting = {} /\ qhead = Len(trail)
      /\ ok' = (confl = None) /\ confl' = None /\ pc' = "add"
      /\ UNCHANGED <<callVars, db, trail, trail_lim, qhead, visiting, order_heap, simpDB_assigns>>
  BY DEF PropagatedClause, Propagated
<1>2. trail_lim = <<>> /\ ok /\ answer = <<>>
  BY <1>1 DEF MInv, CallInv
<1>3. Given' = Given
  BY <1>1, GivenSame DEF callVars
<1>4. ModelsInv'
  <2>1. CASE confl = None
    <3>1. GivenHold(db, trail, trail_lim) /\ HeldGive(db, trail, trail_lim)
      BY <1>2, InvParts
    <3>2. GivenHold(db, trail, trail_lim)' /\ HeldGive(db, trail, trail_lim)'
      BY <3>1, <1>1, <1>3 DEF GivenHold, HeldGive
    <3>. QED BY <3>2, <2>1, <1>1 DEF ModelsInv
  <2>2. CASE confl # None
    BY <2>2, <1>1, <1>2, <1>3, RootRefutes DEF ModelsInv
  <2>. QED BY <2>1, <2>2
<1>5. ok' => WatchInv'
  <2>1. ASSUME confl = None PROVE WatchInv'
    <3>1. WatchInv
      BY <1>2, InvParts
    <3>. QED BY <3>1, <2>1, <1>1 DEF WatchInv, Seen
  <2>. QED BY <2>1, <1>1
<1>6. QueueInv' /\ ConflictInv'
  BY <1>1 DEF MInv, QueueInv, ConflictInv, decisionLevel, Propagating
<1>7. CallInv' /\ AnswersRight'
  <2>1. ok' \in BOOLEAN
    BY <1>1
  <2>. QED BY <2>1, <1>1, <1>2 DEF MInv, CallInv, AnswersRight, callVars
<1>. QED BY <1>1, <1>4, <1>5, <1>6, <1>7 DEF MInv, callVars

\* When all clauses were added, Given are the models of the formula.
LEMMA AllGiven ==
  ASSUME CallInv, added = Len(formula)
  PROVE  Given = Models(formula)
<1>1. formula \in Seq(Clause)
  BY SolverAssumption DEF CallInv, Formula
<1>2. SubSeq(formula, 1, Len(formula)) = formula
  BY <1>1
<1>. QED BY <1>2 DEF Given

LEMMA RootConflictStep ==
  ASSUME MInv, RootConflict
  PROVE  MInv'
<1>1. /\ pc = "propagate" /\ visiting = {} /\ qhead = Len(trail)
      /\ confl # None /\ decisionLevel = 0 /\ ok' = FALSE /\ confl' = None
      /\ answer' = <<"unsat">> /\ pc' = "idle"
      /\ UNCHANGED <<formula, added, assumptions, starts, db, trail, trail_lim, qhead, visiting,
                     order_heap, simpDB_assigns>>
  BY DEF RootConflict, Propagated
<1>2. trail_lim = <<>> /\ ok /\ added = Len(formula) /\ CallInv
  <2>1. trail_lim = <<>>
    <3>1. TrailInv(trail, trail_lim)
      BY InvParts
    <3>. QED BY <3>1, <1>1 DEF decisionLevel, TrailInv
  <2>. QED BY <2>1, <1>1 DEF MInv, CallInv
<1>3. Given' = Given /\ Given = {}
  BY <1>1, <1>2, GivenSame, RootRefutes
<1>4. ModelsInv'
  BY <1>1, <1>3 DEF ModelsInv
<1>5. AnswersRight'
  <2>1. Models(formula) = {}
    BY <1>2, <1>3, AllGiven
  <2>. QED BY <2>1, <1>1 DEF AnswersRight
<1>6. QueueInv' /\ ConflictInv'
  BY <1>1 DEF MInv, QueueInv, ConflictInv, decisionLevel, Propagating
<1>7. CallInv'
  BY <1>1, <1>2 DEF CallInv
<1>. QED BY <1>1, <1>4, <1>5, <1>6, <1>7 DEF MInv

-----------------------------------------------------------------------------
(* Calls keep the invariant *)

\* Outside of a call there are no levels, and of a call nothing but the
\* assumptions is remembered.
LEMMA NewAssumptions ==
  ASSUME MInv, trail_lim = <<>>, UNCHANGED searchVars, assumptions' \in AssumptionLists
  PROVE  /\ assumptions' \in Seq(Literal)
         /\ StackInv(db, trail, trail_lim, assumptions, order_heap)'
         /\ AssumedInv(trail, trail_lim, assumptions)'
<1>1. assumptions' \in Seq(Literal)
  BY SolverAssumption
<1>2. TrailInv(trail, trail_lim) /\ ReasonsInv(db, trail) /\ HeapInv(trail, order_heap)
  BY InvParts
<1>3. DecisionsInv(trail, trail_lim, assumptions')
  BY DEF DecisionsInv, AtRoot
<1>4. AssumedInv(trail, trail_lim, assumptions')
  BY DEF AssumedInv
<1>. QED BY <1>1, <1>2, <1>3, <1>4 DEF StackInv, searchVars

LEMMA SolveRefusedStep ==
  ASSUME MInv, SolveRefused
  PROVE  MInv'
<1>1. /\ pc = "idle" /\ ~ok /\ assumptions' \in AssumptionLists /\ answer' = <<"unsat">>
      /\ UNCHANGED <<formula, added, starts, pc, searchVars>>
  BY DEF SolveRefused
<1>2. trail_lim = <<>> /\ added = Len(formula) /\ CallInv
  BY <1>1 DEF MInv, CallInv
<1>3. Given' = Given /\ Given = {}
  BY <1>1, GivenSame, InvParts
<1>4. ModelsInv'
  BY <1>1, <1>3 DEF ModelsInv, searchVars
<1>5. AnswersRight'
  <2>1. Models(formula) = {}
    BY <1>2, <1>3, AllGiven
  <2>. QED BY <2>1, <1>1 DEF AnswersRight
<1>6. QueueInv' /\ ConflictInv'
  BY <1>1 DEF MInv, QueueInv, ConflictInv, decisionLevel, Propagating, searchVars
<1>7. CallInv'
  BY <1>1, <1>2, NewAssumptions DEF CallInv, searchVars
<1>. QED BY <1>1, <1>2, <1>4, <1>5, <1>6, <1>7, NewAssumptions DEF MInv, searchVars

LEMMA SolveStep ==
  ASSUME MInv, Solve
  PROVE  MInv'
<1>1. /\ pc = "idle" /\ ok /\ assumptions' \in AssumptionLists /\ answer' = <<>>
      /\ pc' = "propagate" /\ UNCHANGED <<formula, added, searchVars>>
  BY DEF Solve
<1>2. trail_lim = <<>> /\ added = Len(formula) /\ CallInv
  BY <1>1 DEF MInv, CallInv
<1>3. Given' = Given
  BY <1>1, GivenSame
<1>4. ModelsInv'
  <2>1. GivenHold(db, trail, trail_lim) /\ HeldGive(db, trail, trail_lim)
    BY <1>1, InvParts
  <2>. QED BY <2>1, <1>1, <1>3 DEF ModelsInv, GivenHold, HeldGive, searchVars
<1>5. QueueInv' /\ ConflictInv'
  <2>1. visiting = {}
    BY <1>1 DEF MInv, QueueInv, Propagating
  <2>. QED BY <2>1, <1>1 DEF MInv, QueueInv, ConflictInv, decisionLevel, Propagating, searchVars
<1>6. CallInv' /\ AnswersRight'
  BY <1>1, <1>2, NewAssumptions DEF CallInv, AnswersRight, searchVars
<1>7. WatchInv'
  BY <1>1, InvParts DEF WatchInv, Seen, decisionLevel, searchVars
<1>. QED BY <1>1, <1>2, <1>4, <1>5, <1>6, <1>7, NewAssumptions DEF MInv, searchVars

LEMMA AllAddedStep ==
  ASSUME MInv, AllAdded
  PROVE  MInv'
<1>1. /\ pc = "add" /\ added = Len(formula) /\ pc' = "idle" /\ UNCHANGED <<callVars, searchVars>>
  BY DEF AllAdded
<1>2. answer = <<>> /\ CallInv
  BY <1>1 DEF MInv, CallInv
<1>3. CallInv' /\ AnswersRight'
  BY <1>1, <1>2 DEF CallInv, AnswersRight, searchVars, callVars
<1>4. QueueInv' /\ ConflictInv'
  BY <1>1 DEF MInv, QueueInv, ConflictInv, decisionLevel, Propagating, searchVars
<1>5. ok => WatchInv'
  BY <1>1, InvParts DEF WatchInv, Seen, decisionLevel, searchVars
<1>6. ModelsInv'
  BY <1>1 DEF MInv, ModelsInv, GivenHold, HeldGive, Given, searchVars, callVars
<1>. QED BY <1>1, <1>3, <1>4, <1>5, <1>6 DEF MInv, searchVars, callVars

LEMMA StutterStep ==
  ASSUME MInv, UNCHANGED vars
  PROVE  MInv'
<1>1. UNCHANGED <<formula, added, assumptions, starts, answer, pc, ok, db, trail, trail_lim, qhead,
                  visiting, confl, order_heap, simpDB_assigns>>
  BY DEF vars, callVars, searchVars
<1>2. CallInv' /\ AnswersRight'
  BY <1>1 DEF MInv, CallInv, AnswersRight
<1>3. QueueInv' /\ ConflictInv'
  BY <1>1 DEF MInv, QueueInv, ConflictInv, decisionLevel, Propagating
<1>4. ok => WatchInv'
  BY <1>1, InvParts DEF WatchInv, Seen, decisionLevel
<1>5. ModelsInv'
  BY <1>1 DEF MInv, ModelsInv, GivenHold, HeldGive, Given
<1>. QED BY <1>1, <1>2, <1>3, <1>4, <1>5 DEF MInv

-----------------------------------------------------------------------------
(* Jumps back to the root *)

\* cancelUntil(0) leaves the facts of the root, and keeps all that is held.
LEMMA RootAgain ==
  ASSUME MInv, ok, visiting = {}, confl = None, qhead = Len(trail),
         NEW heap, HeapInv(trail, heap), BackToRoot(heap),
         UNCHANGED <<formula, added, assumptions, ok, db, visiting, confl>>
  PROVE  /\ DatabaseInv(db)' /\ StackInv(db, trail, trail_lim, assumptions, order_heap)'
         /\ AssumedInv(trail, trail_lim, assumptions)'
         /\ trail_lim' = <<>> /\ QueueInv' /\ ConflictInv' /\ WatchInv' /\ ModelsInv'
<1>1. /\ DatabaseInv(db) /\ StackInv(db, trail, trail_lim, assumptions, order_heap)
      /\ TrailInv(trail, trail_lim) /\ AssumedInv(trail, trail_lim, assumptions)
      /\ Len(trail) \in Nat /\ DOMAIN trail = 1 .. Len(trail)
      /\ WatchInv /\ GivenHold(db, trail, trail_lim) /\ HeldGive(db, trail, trail_lim)
  BY InvParts
<1>2. ConflictInv'
  BY DEF ConflictInv
<1>3. Given' = Given
  BY GivenSame
<1>4. CASE decisionLevel = 0
  <2>1. order_heap' = heap /\ UNCHANGED <<trail, trail_lim, qhead>>
    BY <1>4 DEF BackToRoot
  <2>2. trail_lim = <<>>
    BY <1>1, <1>4 DEF decisionLevel, TrailInv
  <2>3. StackInv(db, trail, trail_lim, assumptions, heap)
    BY <1>1 DEF StackInv
  <2>4. QueueInv'
    BY <2>1, <2>2, <1>1 DEF QueueInv
  <2>5. WatchInv'
    BY <2>1, <1>1 DEF WatchInv, Seen, decisionLevel
  <2>6. ModelsInv'
    BY <2>1, <1>1, <1>3 DEF ModelsInv, GivenHold, HeldGive
  <2>. QED BY <2>1, <2>2, <2>3, <2>4, <2>5, <2>6, <1>1, <1>2
<1>5. CASE decisionLevel # 0
  <2>. DEFINE p  == trail_lim[1]
              t2 == SubSeq(trail, 1, trail_lim[0 + 1])
              l2 == SubSeq(trail_lim, 1, 0)
              freed == {LitVar(trail[k].lit) : k \in trail_lim[0 + 1] + 1 .. Len(trail)}
  <2>1. /\ trail' = t2 /\ trail_lim' = <<>> /\ qhead' = p
        /\ order_heap' = heap \cup freed
    BY <1>5 DEF BackToRoot, Cancelled
  <2>2. 0 \in Nat /\ 0 < Len(trail_lim)
    BY <1>1, <1>5 DEF decisionLevel, TrailInv
  <2>3. CutTo(trail, trail_lim, 0, t2, l2)
        /\ StackInv(db, t2, l2, assumptions, heap \cup freed)
    <3>1. StackInv(db, trail, trail_lim, assumptions, heap)
      BY <1>1 DEF StackInv
    <3>. QED BY <3>1, <2>2, StackCut, Zenon
  <2>4. AssumedInv(t2, l2, assumptions)
    BY <2>2, <1>1, AssumedCut, Zenon
  <2>5. \A e, k : k \in 1 .. trail_lim[0 + 1] /\ Passed(e, trail, trail_lim, k)
                    => Passed(e, t2, l2, k)
    BY <2>2, <1>1, PassedCut, Zenon
  <2>. HIDE DEF t2, l2, freed
  <2>6. 0 + 1 = 1
    OBVIOUS
  <2>7. /\ p \in Nat /\ p <= Len(trail) /\ Len(t2) = p /\ DOMAIN t2 = 1 .. p
        /\ \A k \in 1 .. p : t2[k] = trail[k]
    BY <2>3, <2>6 DEF CutTo
  <2>8. l2 = <<>>
    <3>1. l2 \in Seq(Nat) /\ Len(l2) = 0
      BY <2>3 DEF StackInv, TrailInv, CutTo
    <3>. QED BY <3>1
  <2>9. StackInv(db, trail, trail_lim, assumptions, order_heap)'
    BY <2>1, <2>3, <2>8
  <2>10. AssumedInv(trail, trail_lim, assumptions)'
    BY <2>1, <2>4, <2>8
  <2>11. QueueInv'
    <3>1. p \in 0 .. p
      BY <2>7
    <3>. QED BY <3>1, <2>1, <2>7 DEF QueueInv
  <2>12. WatchInv'
    <3>. SUFFICES ASSUME NEW c \in DOMAIN db, NEW k \in 1 .. p PROVE Passed(db[c], t2, l2, k)
      BY <2>1, <2>7, <2>8 DEF WatchInv
    <3>1. k \in DOMAIN trail
      BY <2>7, <1>1
    <3>2. Seen(c, k)
      BY <3>1, <1>1 DEF Seen
    <3>3. Passed(db[c], trail, trail_lim, k)
      BY <3>1, <3>2, <1>1 DEF WatchInv
    <3>. QED BY <3>3, <2>5, <2>6
  <2>13. ASSUME NEW tc PROVE RootHolds(tc, t2, <<>>) <=> RootHolds(tc, trail, trail_lim)
    <3>1. \A k \in DOMAIN trail : AtRoot(trail_lim, k) <=> k \in 1 .. p
      BY <2>2, <2>7, <1>1 DEF AtRoot
    <3>2. \A k \in 1 .. p : k \in DOMAIN trail
      BY <2>7, <1>1
    <3>. QED BY <3>1, <3>2, <2>7 DEF RootHolds, AtRoot
  <2>14. ModelsInv'
    <3>1. GivenHold(db, t2, <<>>)
      BY <2>13, <1>1 DEF GivenHold
    <3>2. HeldGive(db, t2, <<>>)
      BY <2>13, <1>1 DEF HeldGive
    <3>. QED BY <3>1, <3>2, <2>1, <1>3 DEF ModelsInv, GivenHold, HeldGive
  <2>. QED BY <2>1, <2>9, <2>10, <2>11, <2>12, <2>14, <1>1, <1>2
<1>. QED BY <1>4, <1>5

LEMMA RestartStep ==
  ASSUME MInv, Restart
  PROVE  MInv'
<1>1. /\ pc = "propagate" /\ visiting = {} /\ qhead = Len(trail) /\ confl = None
      /\ BackToRoot(order_heap)
      /\ UNCHANGED <<formula, added, assumptions, answer, pc, ok, db, visiting, confl,
                     simpDB_assigns>>
  BY DEF Restart, Propagated
<1>2. ok /\ CallInv /\ HeapInv(trail, order_heap)
  BY <1>1, InvParts DEF MInv, CallInv
<1>3. /\ DatabaseInv(db)' /\ StackInv(db, trail, trail_lim, assumptions, order_heap)'
      /\ AssumedInv(trail, trail_lim, assumptions)'
      /\ trail_lim' = <<>> /\ QueueInv' /\ ConflictInv' /\ WatchInv' /\ ModelsInv'
  BY <1>1, <1>2, RootAgain
<1>4. CallInv' /\ AnswersRight'
  BY <1>1, <1>2, <1>3 DEF CallInv, AnswersRight
<1>. QED BY <1>3, <1>4 DEF MInv

\* Facts of the levels of the assumptions hold in every model that satisfies
\* the assumptions.
LEMMA AssumptionsImply ==
  ASSUME MInv, ok, Len(trail_lim) <= Len(assumptions),
         NEW tc \in Given, \A l \in ToSet(assumptions) : Holds(tc, l),
         NEW k \in DOMAIN trail
  PROVE  Holds(tc, trail[k].lit)
<1>. DEFINE Bad == {j \in DOMAIN trail : ~Holds(tc, trail[j].lit)}
<1>. SUFFICES ASSUME Bad # {} PROVE FALSE
  OBVIOUS
<1>1. /\ DatabaseInv(db) /\ TrailInv(trail, trail_lim) /\ ReasonsInv(db, trail)
      /\ DecisionsInv(trail, trail_lim, assumptions) /\ GivenHold(db, trail, trail_lim)
      /\ Len(trail) \in Nat /\ DOMAIN trail = 1 .. Len(trail)
  BY InvParts
<1>2. PICK b \in Bad : \A j \in Bad : b <= j
  <2>1. Bad \subseteq Nat
    BY <1>1
  <2>. HIDE DEF Bad
  <2>. QED BY <2>1, NatMinimum
<1>3. /\ b \in DOMAIN trail /\ ~Holds(tc, trail[b].lit) /\ trail[b].lit \in Literal
      /\ b \in Nat /\ b <= Len(trail)
  BY <1>1, <1>2, TrailTypes
<1>4. CASE AtRoot(trail_lim, b)
  BY <1>1, <1>3, <1>4 DEF GivenHold, RootHolds
<1>5. CASE ~AtRoot(trail_lim, b) /\ trail[b].reason = None
  <2>1. PICK i \in DOMAIN trail_lim :
          i <= Len(assumptions) => trail[b].lit \in ToSet(assumptions)
    BY <1>1, <1>3, <1>5 DEF DecisionsInv
  <2>2. i \in Nat /\ i <= Len(trail_lim) /\ Len(trail_lim) \in Nat
    BY <1>1, TrailTypes
  <2>3. Len(assumptions) \in Nat
    BY DEF MInv, CallInv
  <2>. QED BY <2>1, <2>2, <2>3, <1>3
<1>6. CASE trail[b].reason # None
  <2>. DEFINE r == trail[b].reason
  <2>1. /\ r \in DOMAIN db
        /\ \A l \in db[r].lits \ {trail[b].lit} : TrueBy(trail, b - 1, -l)
    BY <1>1, <1>3, <1>6 DEF ReasonsInv
  <2>2. PICK l \in db[r].lits : Holds(tc, l)
    BY <2>1, <1>1 DEF GivenHold, SatisfiedBy
  <2>3. l # trail[b].lit /\ l \in Literal
    BY <2>1, <2>2, <1>1, <1>3 DEF DatabaseInv, Database, Entry
  <2>4. PICK j \in 1 .. b - 1 : trail[j].lit = -l
    BY <2>1, <2>2, <2>3 DEF TrueBy
  <2>5. j \in DOMAIN trail /\ ~(b <= j)
    BY <2>4, <1>1, <1>3
  <2>6. Holds(tc, -l)
    BY <2>4, <2>5, <1>2
  <2>. QED BY <2>2, <2>3, <2>6, LiteralFacts DEF Given, Models
<1>. QED BY <1>4, <1>5, <1>6

LEMMA AssumeFalseStep ==
  ASSUME MInv, AssumeFalse
  PROVE  MInv'
<1>1. /\ pc = "decide" /\ decisionLevel < Len(assumptions) /\ IsFalse(NextAssumption)
      /\ answer' = <<"unsat">> /\ BackToRoot(order_heap) /\ pc' = "idle"
      /\ UNCHANGED <<formula, added, assumptions, starts, ok, db, visiting, confl, simpDB_assigns>>
  BY DEF AssumeFalse, Assuming
<1>2. /\ ok /\ CallInv /\ HeapInv(trail, order_heap) /\ added = Len(formula)
      /\ visiting = {} /\ confl = None /\ qhead = Len(trail)
  BY <1>1, InvParts DEF MInv, CallInv, QueueInv, Propagating
<1>3. /\ DatabaseInv(db)' /\ StackInv(db, trail, trail_lim, assumptions, order_heap)'
      /\ AssumedInv(trail, trail_lim, assumptions)'
      /\ trail_lim' = <<>> /\ QueueInv' /\ ConflictInv' /\ WatchInv' /\ ModelsInv'
  BY <1>1, <1>2, RootAgain
<1>4. CallInv'
  BY <1>1, <1>2, <1>3 DEF CallInv
<1>5. {tc \in Models(formula) : \A l \in ToSet(assumptions) : Holds(tc, l)} = {}
  <2>. SUFFICES ASSUME NEW tc \in Given, \A l \in ToSet(assumptions) : Holds(tc, l) PROVE FALSE
    BY <1>2, AllGiven
  <2>1. decisionLevel \in Nat /\ Len(assumptions) \in Nat /\ assumptions \in Seq(Literal)
    BY <1>2, InvParts, TrailTypes DEF CallInv, decisionLevel
  <2>2. decisionLevel + 1 \in DOMAIN assumptions
    BY <2>1, <1>1
  <2>3. NextAssumption \in ToSet(assumptions) /\ NextAssumption \in Literal
    BY <2>1, <2>2 DEF NextAssumption, ToSet
  <2>4. PICK k \in DOMAIN trail : trail[k].lit = -NextAssumption
    BY <1>1 DEF IsFalse, TrueLits
  <2>5. Holds(tc, trail[k].lit)
    <3>1. Len(trail_lim) <= Len(assumptions)
      BY <2>1, <1>1 DEF decisionLevel
    <3>. QED BY <3>1, <1>2, AssumptionsImply
  <2>. QED BY <2>3, <2>4, <2>5, LiteralFacts DEF Given, Models
<1>6. AnswersRight'
  BY <1>1, <1>5 DEF AnswersRight
<1>. QED BY <1>3, <1>4, <1>6 DEF MInv

LEMMA ModelFoundStep ==
  ASSUME MInv, ModelFound
  PROVE  MInv'
<1>. DEFINE tc == [v \in Var |-> IF IsTrue(ToLit(v, 1)) THEN 1
                                 ELSE IF IsTrue(ToLit(v, 0)) THEN 0 ELSE -1]
<1>1. /\ pc = "decide" /\ decisionLevel >= Len(assumptions) /\ order_heap \subseteq Assigned
      /\ answer' = <<"sat", tc>> /\ BackToRoot({}) /\ pc' = "idle"
      /\ UNCHANGED <<formula, added, assumptions, starts, ok, db, visiting, confl, simpDB_assigns>>
  BY DEF ModelFound, Deciding
<1>2. /\ ok /\ CallInv /\ HeapInv(trail, order_heap) /\ added = Len(formula)
      /\ visiting = {} /\ confl = None /\ qhead = Len(trail)
  BY <1>1, InvParts DEF MInv, CallInv, QueueInv, Propagating
<1>3. /\ DatabaseInv(db) /\ TrailInv(trail, trail_lim) /\ WatchInv
      /\ HeldGive(db, trail, trail_lim) /\ AssumedInv(trail, trail_lim, assumptions)
      /\ Len(trail) \in Nat /\ DOMAIN trail = 1 .. Len(trail)
  BY <1>2, InvParts
<1>4. ASSUME NEW v \in Var PROVE \E k \in DOMAIN trail : LitVar(trail[k].lit) = v
  BY <1>1, <1>2 DEF HeapInv, Assigned, TrueLits
<1>5. HeapInv(trail, {})
  BY <1>4 DEF HeapInv
<1>6. /\ DatabaseInv(db)' /\ StackInv(db, trail, trail_lim, assumptions, order_heap)'
      /\ AssumedInv(trail, trail_lim, assumptions)'
      /\ trail_lim' = <<>> /\ QueueInv' /\ ConflictInv' /\ WatchInv' /\ ModelsInv'
  BY <1>1, <1>2, <1>5, RootAgain
<1>7. CallInv'
  BY <1>1, <1>2, <1>6 DEF CallInv
<1>8. ASSUME NEW v \in Var, NEW k \in DOMAIN trail, LitVar(trail[k].lit) = v
      PROVE  tc[v] = LitValue(trail[k].lit) /\ tc[v] \in Bit
  <2>1. trail[k].lit \in Literal /\ trail[k].lit \in TrueLits
    BY <1>3, TrailTypes DEF TrueLits
  <2>2. trail[k].lit = ToLit(v, 1) \/ trail[k].lit = ToLit(v, 0)
    BY <2>1, <1>8, NumVarAssumption DEF ToLit, Literal, LitVar, Var
  <2>3. ASSUME ToLit(v, 1) \in TrueLits, ToLit(v, 0) \in TrueLits PROVE FALSE
    <3>1. PICK i, j \in DOMAIN trail : trail[i].lit = ToLit(v, 1) /\ trail[j].lit = ToLit(v, 0)
      BY <2>3 DEF TrueLits
    <3>2. ToLit(v, 0) = -ToLit(v, 1)
      BY NumVarAssumption DEF ToLit, Var
    <3>. QED BY <3>1, <3>2, <1>3, TrailConsistent
  <2>4. LitValue(ToLit(v, 1)) = 1 /\ LitValue(ToLit(v, 0)) = 0
    BY NumVarAssumption DEF ToLit, Var, LitValue
  <2>. QED BY <2>1, <2>2, <2>3, <2>4 DEF IsTrue, Bit
<1>9. tc \in TestCase
  <2>1. \A v \in Var : tc[v] \in Bit
    BY <1>4, <1>8
  <2>. QED BY <2>1 DEF TestCase
<1>. HIDE DEF tc
<1>10. ASSUME NEW k \in DOMAIN trail PROVE Holds(tc, trail[k].lit)
  <2>1. trail[k].lit \in Literal /\ LitVar(trail[k].lit) \in Var
    BY <1>3, TrailTypes, LiteralFacts
  <2>. QED BY <2>1, <1>8 DEF Holds
<1>11. ASSUME NEW c \in DOMAIN db PROVE SatisfiedBy(tc, db, c)
  <2>1. PICK w \in db[c].lits : w \in db[c].watch
    BY <1>3 DEF DatabaseInv, TwoWatched
  <2>2. w \in Literal
    BY <2>1, <1>3 DEF DatabaseInv, Database, Entry
  <2>3. PICK k \in DOMAIN trail : LitVar(trail[k].lit) = LitVar(w)
    BY <2>2, <1>4, LiteralFacts
  <2>4. w = trail[k].lit \/ w = -trail[k].lit
    BY <2>2, <2>3, <1>3, TrailTypes, LiteralFacts
  <2>5. CASE w = trail[k].lit
    BY <2>1, <2>5, <1>10 DEF SatisfiedBy
  <2>6. CASE w = -trail[k].lit
    <3>1. Seen(c, k)
      BY <2>3, <1>2, <1>3 DEF Seen
    <3>2. PICK j \in DOMAIN trail : trail[j].lit \in db[c].lits
      BY <2>1, <2>6, <3>1, <1>3 DEF WatchInv, Passed
    <3>. QED BY <3>2, <1>10 DEF SatisfiedBy
  <2>. QED BY <2>4, <2>5, <2>6
<1>12. tc \in Models(formula)
  <2>1. tc \in Given
    BY <1>3, <1>9, <1>10, <1>11 DEF HeldGive, RootHolds
  <2>. QED BY <2>1, <1>2, AllGiven
<1>13. ASSUME NEW l \in ToSet(assumptions) PROVE Holds(tc, l)
  <2>1. assumptions \in Seq(Literal) /\ decisionLevel = Len(trail_lim) /\ Len(trail_lim) \in Nat
    BY <1>2, <1>3, TrailTypes DEF CallInv, decisionLevel
  <2>2. PICK i \in 1 .. Len(assumptions) : l = assumptions[i]
    BY <2>1 DEF ToSet
  <2>3. i \in 1 .. Len(trail_lim) /\ i \in DOMAIN assumptions
    BY <2>1, <2>2, <1>1
  <2>4. CASE i < Len(trail_lim)
    <3>1. TrueBy(trail, trail_lim[i + 1], l)
      BY <2>2, <2>3, <2>4, <1>3 DEF AssumedInv
    <3>2. i + 1 \in DOMAIN trail_lim
      BY <2>1, <2>3, <2>4, <1>3, TrailTypes
    <3>3. trail_lim[i + 1] \in Nat /\ trail_lim[i + 1] <= Len(trail)
      BY <3>2, <1>3, TrailTypes
    <3>4. \E k \in DOMAIN trail : trail[k].lit = l
      BY <3>1, <3>3, <1>3 DEF TrueBy
    <3>. QED BY <3>4, <1>10
  <2>5. CASE i = Len(trail_lim)
    <3>1. TrueBy(trail, Len(trail), l)
      BY <2>2, <2>3, <2>5, <1>3 DEF AssumedInv
    <3>. QED BY <3>1, <1>3, <1>10 DEF TrueBy
  <2>. QED BY <2>1, <2>3, <2>4, <2>5
<1>14. AnswersRight'
  BY <1>1, <1>12, <1>13 DEF AnswersRight
<1>. QED BY <1>6, <1>7, <1>14 DEF MInv

\* simplify and reduceDB: what is dropped is satisfied at the root or was learnt,
\* and no literal past the root was implied by it.
LEMMA NoConflictStep ==
  ASSUME MInv, NoConflict
  PROVE  MInv'
<1>1. /\ pc = "propagate" /\ visiting = {} /\ qhead = Len(trail) /\ confl = None
      /\ pc' = "decide" /\ UNCHANGED <<callVars, ok, trail_lim, qhead, visiting, confl>>
  BY DEF NoConflict, Propagated
<1>2. /\ DatabaseInv(db) /\ TrailInv(trail, trail_lim) /\ ReasonsInv(db, trail)
      /\ DecisionsInv(trail, trail_lim, assumptions)
      /\ AssumedInv(trail, trail_lim, assumptions) /\ HeapInv(trail, order_heap)
      /\ Len(trail) \in Nat /\ DOMAIN trail = 1 .. Len(trail)
  BY InvParts
<1>3. /\ ok /\ CallInv /\ WatchInv /\ GivenHold(db, trail, trail_lim)
      /\ HeldGive(db, trail, trail_lim)
  <2>1. ok /\ CallInv
    BY <1>1 DEF MInv, CallInv
  <2>. QED BY <2>1, InvParts
<1>4. \E D \in SUBSET DOMAIN db :
        /\ db' = Without(D) /\ trail' \in Seq(Fact) /\ Len(trail') = Len(trail)
        /\ \A k \in DOMAIN trail : /\ trail'[k].lit = trail[k].lit
                                   /\ trail'[k].reason \in {trail[k].reason, None} \ D
        /\ trail_lim # <<>> => trail' = trail
        /\ \A c \in D : db[c].learnt \/ (trail_lim = <<>> /\ Satisfied(c))
        /\ order_heap' \in {order_heap, Var \ Assigned}
  <2>1. PICK R \in SUBSET Reducible :
          \/ db' = Without(R) /\ UNCHANGED <<trail, order_heap, simpDB_assigns>>
          \/ /\ decisionLevel = 0
             /\ LET C == {c \in DOMAIN db : Satisfied(c)}
                IN  /\ db' = Without(C \cup R)
                    /\ trail' = [k \in DOMAIN trail |->
                                   IF trail[k].reason \in C THEN [trail[k] EXCEPT !.reason = None]
                                   ELSE trail[k]]
             /\ order_heap' = Var \ Assigned
    BY DEF NoConflict
  <2>2. /\ R \subseteq DOMAIN db /\ \A c \in R : db[c].learnt
        /\ \A k \in DOMAIN trail : trail[k].reason \notin R
    BY <2>1 DEF Reducible, Locked
  <2>3. None \notin DOMAIN db /\ trail \in Seq(Fact)
    BY <1>2 DEF DatabaseInv, Database, TrailInv
  <2>4. CASE db' = Without(R) /\ UNCHANGED <<trail, order_heap, simpDB_assigns>>
    <3>1. \A k \in DOMAIN trail : trail'[k].reason \in {trail[k].reason, None} \ R
      BY <2>2, <2>4
    <3>2. R \in SUBSET DOMAIN db
      BY <2>2
    <3>. QED BY <2>2, <2>3, <2>4, <3>1, <3>2
  <2>5. CASE decisionLevel = 0 /\ ~(db' = Without(R) /\ UNCHANGED <<trail, order_heap, simpDB_assigns>>)
    <3>. DEFINE C == {c \in DOMAIN db : Satisfied(c)}
    <3>1. /\ db' = Without(C \cup R) /\ order_heap' = Var \ Assigned
          /\ trail' = [k \in DOMAIN trail |->
                         IF trail[k].reason \in C THEN [trail[k] EXCEPT !.reason = None]
                         ELSE trail[k]]
      BY <2>1, <2>5
    <3>2. trail_lim = <<>>
      BY <2>5, <1>2 DEF decisionLevel, TrailInv
    <3>3. C \cup R \in SUBSET DOMAIN db /\ None \notin C \cup R
          /\ \A c \in C \cup R : db[c].learnt \/ Satisfied(c)
      BY <2>2, <2>3
    <3>. HIDE DEF C
    <3>4. ASSUME NEW k \in DOMAIN trail
          PROVE  /\ trail'[k] \in Fact /\ trail'[k].lit = trail[k].lit
                 /\ trail'[k].reason \in {trail[k].reason, None} \ (C \cup R)
      <4>1. trail[k] \in Fact /\ None \in Nat
        BY <2>3 DEF None
      <4>2. CASE trail[k].reason \in C
        <5>1. trail'[k] = [trail[k] EXCEPT !.reason = None]
          BY <3>1, <4>2
        <5>. QED BY <5>1, <4>1, <3>3 DEF Fact
      <4>3. CASE trail[k].reason \notin C
        BY <4>1, <4>3, <3>1, <2>2
      <4>. QED BY <4>2, <4>3
    <3>5. DOMAIN trail' = 1 .. Len(trail)
      BY <3>1, <1>2
    <3>6. trail' \in Seq(Fact) /\ Len(trail') = Len(trail)
      BY <3>1, <3>4, <3>5, <1>2
    <3>. QED BY <3>1, <3>2, <3>3, <3>4, <3>6
  <2>. QED BY <2>1, <2>4, <2>5
<1>5. PICK D \in SUBSET DOMAIN db :
        /\ db' = Without(D) /\ trail' \in Seq(Fact) /\ Len(trail') = Len(trail)
        /\ \A k \in DOMAIN trail : /\ trail'[k].lit = trail[k].lit
                                   /\ trail'[k].reason \in {trail[k].reason, None} \ D
        /\ trail_lim # <<>> => trail' = trail
        /\ \A c \in D : db[c].learnt \/ (trail_lim = <<>> /\ Satisfied(c))
        /\ order_heap' \in {order_heap, Var \ Assigned}
  BY <1>4
<1>6. DatabaseInv(db') /\ DOMAIN db' = DOMAIN db \ D /\ \A c \in DOMAIN db' : db'[c] = db[c]
  BY <1>2, <1>5, ClausesDropped
<1>7. DOMAIN trail' = DOMAIN trail
  BY <1>2, <1>5
<1>8. TrailInv(trail', trail_lim)
  BY <1>2, <1>5, <1>7 DEF TrailInv
<1>9. \A k, l : k \in 0 .. Len(trail) => (TrueBy(trail', k, l) <=> TrueBy(trail, k, l))
  <2>1. \A k \in 0 .. Len(trail) : \A j \in 1 .. k : j \in DOMAIN trail
    BY <1>2
  <2>. QED BY <2>1, <1>5 DEF TrueBy
<1>10. ReasonsInv(db', trail')
  <2>. SUFFICES ASSUME NEW k \in DOMAIN trail, trail'[k].reason # None
                PROVE  /\ trail'[k].reason \in DOMAIN db'
                       /\ trail'[k].lit \in db'[trail'[k].reason].lits
                       /\ \A l \in db'[trail'[k].reason].lits \ {trail'[k].lit} :
                            TrueBy(trail', k - 1, -l)
    BY <1>7 DEF ReasonsInv
  <2>1. trail'[k].lit = trail[k].lit /\ trail'[k].reason = trail[k].reason
        /\ trail[k].reason \notin D
    BY <1>5
  <2>2. /\ trail[k].reason \in DOMAIN db
        /\ trail[k].lit \in db[trail[k].reason].lits
        /\ \A l \in db[trail[k].reason].lits \ {trail[k].lit} : TrueBy(trail, k - 1, -l)
    BY <2>1, <1>2 DEF ReasonsInv
  <2>3. k - 1 \in 0 .. Len(trail)
    BY <1>2
  <2>4. trail[k].reason \in DOMAIN db' /\ db'[trail[k].reason] = db[trail[k].reason]
    BY <2>1, <2>2, <1>6
  <2>. QED BY <2>1, <2>2, <2>3, <2>4, <1>9
<1>11. DecisionsInv(trail', trail_lim, assumptions)
  <2>1. CASE trail_lim = <<>>
    BY <2>1 DEF DecisionsInv, AtRoot
  <2>2. CASE trail_lim # <<>>
    BY <2>2, <1>2, <1>5
  <2>. QED BY <2>1, <2>2
<1>12. HeapInv(trail', order_heap')
  <2>1. HeapInv(trail, order_heap')
    <3>1. HeapInv(trail, Var \ Assigned)
      BY DEF HeapInv, Assigned, TrueLits
    <3>. QED BY <3>1, <1>2, <1>5
  <2>. QED BY <2>1, <1>5, <1>7 DEF HeapInv
<1>13. StackInv(db, trail, trail_lim, assumptions, order_heap)'
  BY <1>1, <1>8, <1>10, <1>11, <1>12 DEF StackInv, callVars
<1>14. AssumedInv(trail, trail_lim, assumptions)'
  <2>1. CASE trail_lim = <<>>
    BY <2>1, <1>1 DEF AssumedInv
  <2>2. CASE trail_lim # <<>>
    BY <2>2, <1>1, <1>2, <1>5 DEF callVars
  <2>. QED BY <2>1, <2>2
<1>15. QueueInv' /\ ConflictInv'
  <2>1. qhead \in 0 .. Len(trail)
    BY <1>1, <1>2
  <2>. QED BY <2>1, <1>1, <1>5 DEF MInv, QueueInv, ConflictInv, decisionLevel, Propagating
<1>16. WatchInv'
  <2>. SUFFICES ASSUME NEW c \in DOMAIN db', NEW k \in DOMAIN trail
                PROVE  Passed(db'[c], trail', trail_lim', k)
    BY <1>7 DEF WatchInv
  <2>1. Seen(c, k)
    BY <1>1, <1>2 DEF Seen
  <2>2. Passed(db[c], trail, trail_lim, k)
    BY <2>1, <1>3, <1>6 DEF WatchInv
  <2>. QED BY <2>2, <1>1, <1>5, <1>6, <1>7 DEF Passed
<1>17. ModelsInv'
  <2>1. Given' = Given
    BY <1>1, GivenSame DEF callVars
  <2>2. ASSUME NEW tc PROVE RootHolds(tc, trail', trail_lim) <=> RootHolds(tc, trail, trail_lim)
    BY <1>5, <1>7 DEF RootHolds
  <2>3. GivenHold(db, trail, trail_lim)'
    BY <2>1, <2>2, <1>1, <1>3, <1>6 DEF GivenHold, SatisfiedBy
  <2>4. HeldGive(db, trail, trail_lim)'
    <3>. SUFFICES ASSUME NEW tc \in TestCase, RootHolds(tc, trail, trail_lim),
                         \A c \in DOMAIN db' : ~db'[c].learnt => SatisfiedBy(tc, db', c)
                  PROVE  tc \in Given
      BY <2>1, <2>2, <1>1 DEF HeldGive
    <3>1. ASSUME NEW c \in DOMAIN db, ~db[c].learnt PROVE SatisfiedBy(tc, db, c)
      <4>1. CASE c \notin D
        BY <3>1, <4>1, <1>6 DEF SatisfiedBy
      <4>2. CASE c \in D
        <5>1. trail_lim = <<>> /\ Satisfied(c)
          BY <3>1, <4>2, <1>5
        <5>2. PICK k \in DOMAIN trail : trail[k].lit \in db[c].lits
          BY <5>1 DEF Satisfied, IsTrue, TrueLits
        <5>. QED BY <5>1, <5>2 DEF RootHolds, AtRoot, SatisfiedBy
      <4>. QED BY <4>1, <4>2
    <3>. QED BY <3>1, <1>3 DEF HeldGive
  <2>. QED BY <2>3, <2>4, <1>1, <1>3 DEF ModelsInv
<1>18. CallInv' /\ AnswersRight'
  BY <1>1, <1>3 DEF CallInv, AnswersRight, callVars
<1>. QED BY <1>1, <1>3, <1>6, <1>13, <1>14, <1>15, <1>16, <1>17, <1>18 DEF MInv

-----------------------------------------------------------------------------
(* New levels *)

\* A level that takes up what is true already, or begins with one more fact.
LEMMA LevelStep ==
  ASSUME MInv, pc = "decide", NewLevel, NEW l \in Literal,
         \/ UNCHANGED trail /\ IsTrue(l) /\ pc' = "decide"
         \/ /\ ~IsTrue(l) /\ ~IsFalse(l) /\ uncheckedEnqueue(l, None) /\ pc' = "propagate",
         decisionLevel < Len(assumptions) => l = NextAssumption,
         HeapInv(trail, order_heap)',
         UNCHANGED <<callVars, ok, db, qhead, visiting, confl, simpDB_assigns>>
  PROVE  MInv'
<1>1. /\ DatabaseInv(db) /\ TrailInv(trail, trail_lim) /\ ReasonsInv(db, trail)
      /\ StackInv(db, trail, trail_lim, assumptions, order_heap)
      /\ AssumedInv(trail, trail_lim, assumptions)
      /\ Len(trail) \in Nat /\ DOMAIN trail = 1 .. Len(trail)
  BY InvParts
<1>2. /\ ok /\ CallInv /\ WatchInv /\ GivenHold(db, trail, trail_lim)
      /\ HeldGive(db, trail, trail_lim)
      /\ visiting = {} /\ confl = None /\ qhead = Len(trail)
  <2>1. ok /\ CallInv /\ visiting = {} /\ confl = None /\ qhead = Len(trail)
    BY DEF MInv, CallInv, QueueInv, Propagating
  <2>. QED BY <2>1, InvParts
<1>. DEFINE l2 == Append(trail_lim, Len(trail))
            x  == [lit |-> l, reason |-> None]
<1>3. trail_lim' = l2
  BY DEF NewLevel
<1>4. /\ trail \in Seq(Fact) /\ trail_lim \in Seq(Nat) /\ Len(trail_lim) \in Nat
      /\ Len(l2) = Len(trail_lim) + 1 /\ l2[Len(trail_lim) + 1] = Len(trail) /\ l2 # <<>>
      /\ assumptions \in Seq(Literal)
  BY <1>1, <1>2, SMTT(30) DEF TrailInv, CallInv
<1>5. x \in Fact
  BY DEF Fact, None
<1>6. StackInv(db, trail, l2, assumptions, order_heap)
  BY <1>1, LevelOpened
<1>7. \A c \in DOMAIN db, k \in DOMAIN trail : Passed(db[c], trail, l2, k)
  <2>. SUFFICES ASSUME NEW c \in DOMAIN db, NEW k \in DOMAIN trail
                PROVE  Passed(db[c], trail, l2, k)
    OBVIOUS
  <2>1. Seen(c, k)
    BY <1>1, <1>2 DEF Seen
  <2>2. Passed(db[c], trail, trail_lim, k)
    BY <2>1, <1>2 DEF WatchInv
  <2>. QED BY <2>2, <1>1, PassedOpened
<1>8. ASSUME NEW tc PROVE RootHolds(tc, trail, l2) <=> RootHolds(tc, trail, trail_lim)
  BY <1>1, RootOpened DEF RootHolds
<1>9. TrailInv(trail, l2)
  BY <1>6 DEF StackInv
<1>10. Len(trail_lim) + 1 \in DOMAIN assumptions => l = assumptions[Len(trail_lim) + 1]
  <2>. SUFFICES ASSUME Len(trail_lim) + 1 \in DOMAIN assumptions
                PROVE  l = assumptions[Len(trail_lim) + 1]
    OBVIOUS
  <2>1. Len(trail_lim) < Len(assumptions)
    BY <1>4
  <2>. QED BY <2>1 DEF decisionLevel, NextAssumption
<1>. HIDE DEF l2
<1>11. CallInv' /\ AnswersRight' /\ ConflictInv'
  BY <1>2 DEF CallInv, AnswersRight, ConflictInv, callVars
<1>12. Given' = Given
  BY GivenSame DEF callVars
<1>13. CASE UNCHANGED trail /\ IsTrue(l) /\ pc' = "decide"
  <2>1. StackInv(db, trail, trail_lim, assumptions, order_heap)'
    BY <1>3, <1>6, <1>13 DEF StackInv, callVars
  <2>2. TrueBy(trail, Len(trail), l)
    BY <1>1, <1>13 DEF IsTrue, TrueLits, TrueBy
  <2>3. AssumedInv(trail, l2, assumptions)
    <3>1. Len(trail_lim) + 1 \in DOMAIN assumptions =>
            TrueBy(trail, Len(trail), assumptions[Len(trail_lim) + 1])
      BY <2>2, <1>10
    <3>. QED BY <3>1, <1>1, AssumedOpened DEF l2
  <2>4. QueueInv'
    <3>1. qhead \in 0 .. Len(trail) /\ l2[Len(l2)] = Len(trail)
      BY <1>1, <1>2, <1>4
    <3>. QED BY <3>1, <1>1, <1>2, <1>3, <1>13 DEF QueueInv, decisionLevel, Propagating
  <2>5. WatchInv'
    BY <1>3, <1>7, <1>13 DEF WatchInv
  <2>6. GivenHold(db, trail, trail_lim)'
    BY <1>2, <1>3, <1>8, <1>12, <1>13 DEF GivenHold
  <2>7. HeldGive(db, trail, trail_lim)'
    BY <1>2, <1>3, <1>8, <1>12, <1>13 DEF HeldGive
  <2>. QED BY <2>1, <2>3, <2>4, <2>5, <2>6, <2>7, <1>1, <1>2, <1>3, <1>11, <1>13
           DEF MInv, ModelsInv, callVars
<1>14. CASE ~IsTrue(l) /\ ~IsFalse(l) /\ uncheckedEnqueue(l, None) /\ pc' = "propagate"
  <2>1. trail' = Append(trail, x)
    BY <1>14 DEF uncheckedEnqueue
  <2>2. \A k \in DOMAIN trail : LitVar(trail[k].lit) # LitVar(l)
    <3>. SUFFICES ASSUME NEW k \in DOMAIN trail, LitVar(trail[k].lit) = LitVar(l) PROVE FALSE
      OBVIOUS
    <3>1. trail[k].lit \in TrueLits /\ trail[k].lit \in Literal
      BY <1>1, TrailTypes DEF TrueLits
    <3>2. trail[k].lit = l \/ trail[k].lit = -l
      BY <3>1, LiteralFacts
    <3>. QED BY <3>1, <3>2, <1>14 DEF IsTrue, IsFalse
  <2>3. StackInv(db, Append(trail, x), l2, assumptions, order_heap)
    <3>1. /\ l2[Len(l2)] = Len(trail)
          /\ Len(l2) <= Len(assumptions) => l \in ToSet(assumptions)
      <4>1. ASSUME Len(l2) <= Len(assumptions) PROVE Len(trail_lim) + 1 \in DOMAIN assumptions
        BY <4>1, <1>4
      <4>. QED BY <4>1, <1>4, <1>10 DEF ToSet
    <3>2. None \in Nat
      BY DEF None
    <3>. QED BY <3>1, <3>2, <2>2, <1>6, FactPushed
  <2>. HIDE DEF x
  <2>4. StackInv(db, trail, trail_lim, assumptions, order_heap)'
    BY <2>1, <2>3, <1>3 DEF StackInv, callVars
  <2>5. /\ Len(Append(trail, x)) = Len(trail) + 1 /\ Append(trail, x)[Len(trail) + 1] = x
        /\ DOMAIN Append(trail, x) = 1 .. Len(trail) + 1
        /\ \A k \in 1 .. Len(trail) : Append(trail, x)[k] = trail[k]
    BY <1>4, <1>5
  <2>6. AssumedInv(Append(trail, x), l2, assumptions)
    <3>1. TrueBy(Append(trail, x), Len(trail) + 1, l)
      <4>1. Len(trail) + 1 \in 1 .. Len(trail) + 1 /\ x.lit = l
        BY <1>1 DEF x
      <4>. QED BY <4>1, <2>5 DEF TrueBy
    <3>2. Len(trail_lim) + 1 \in DOMAIN assumptions =>
            TrueBy(Append(trail, x), Len(Append(trail, x)), assumptions[Len(trail_lim) + 1])
      BY <3>1, <2>5, <1>10
    <3>3. Len(Append(trail, x)) \in Nat /\ Len(trail) <= Len(Append(trail, x))
      BY <2>5, <1>1
    <3>. QED BY <3>2, <3>3, <2>5, <1>1, AssumedOpened DEF l2
  <2>7. QueueInv'
    <3>1. qhead \in 0 .. Len(trail) + 1 /\ l2[Len(l2)] = Len(trail)
      BY <1>1, <1>2, <1>4
    <3>. QED BY <3>1, <2>1, <2>5, <1>1, <1>2, <1>3, <1>14 DEF QueueInv, decisionLevel, Propagating
  <2>8. WatchInv'
    <3>. SUFFICES ASSUME NEW c \in DOMAIN db, NEW k \in 1 .. Len(trail) + 1, Seen(c, k)'
                  PROVE  Passed(db[c], Append(trail, x), l2, k)
      BY <2>1, <2>5, <1>3 DEF WatchInv
    <3>1. k \in DOMAIN trail
      BY <1>1, <1>2 DEF Seen
    <3>2. Passed(db[c], trail, l2, k)
      BY <3>1, <1>7
    <3>. QED BY <3>1, <3>2, <1>5, <1>9, PassedPushed
  <2>9. ASSUME NEW tc PROVE RootHolds(tc, Append(trail, x), l2) <=> RootHolds(tc, trail, trail_lim)
    BY <1>4, <1>5, <1>8, <1>9, RootPushed
  <2>10. GivenHold(db, trail, trail_lim)'
    BY <2>1, <2>9, <1>2, <1>3, <1>12 DEF GivenHold
  <2>11. HeldGive(db, trail, trail_lim)'
    BY <2>1, <2>9, <1>2, <1>3, <1>12 DEF HeldGive
  <2>. QED BY <2>1, <2>4, <2>6, <2>7, <2>8, <2>10, <2>11, <1>1, <1>2, <1>3, <1>11
           DEF MInv, ModelsInv, callVars
<1>. QED BY <1>13, <1>14

LEMMA AssumeStep ==
  ASSUME MInv, AssumeTrue \/ AssumeNext
  PROVE  MInv'
<1>1. /\ Assuming /\ NewLevel
      /\ \/ UNCHANGED trail /\ IsTrue(NextAssumption) /\ pc' = "decide"
         \/ /\ ~IsTrue(NextAssumption) /\ ~IsFalse(NextAssumption)
            /\ uncheckedEnqueue(NextAssumption, None) /\ pc' = "propagate"
      /\ UNCHANGED <<callVars, ok, db, qhead, visiting, confl, order_heap, simpDB_assigns>>
  BY DEF AssumeTrue, AssumeNext, Assuming
<1>2. NextAssumption \in Literal
  <2>1. decisionLevel \in Nat
    BY InvParts, TrailTypes DEF decisionLevel
  <2>2. assumptions \in Seq(Literal) /\ Len(assumptions) \in Nat
    BY DEF MInv, CallInv
  <2>3. decisionLevel + 1 \in 1 .. Len(assumptions)
    BY <2>1, <2>2, <1>1 DEF Assuming
  <2>. QED BY <2>2, <2>3 DEF NextAssumption
<1>3. HeapInv(trail, order_heap)'
  <2>1. HeapInv(trail, order_heap) /\ TrailInv(trail, trail_lim) /\ DOMAIN trail = 1 .. Len(trail)
        /\ Len(trail) \in Nat
    BY InvParts
  <2>2. CASE UNCHANGED trail
    BY <2>1, <2>2, <1>1
  <2>3. CASE uncheckedEnqueue(NextAssumption, None)
    <3>1. trail \in Seq(Fact) /\ [lit |-> NextAssumption, reason |-> None] \in Fact
      BY <2>1, <1>2 DEF TrailInv, Fact, None
    <3>2. \A k \in DOMAIN trail : k \in DOMAIN trail' /\ trail'[k] = trail[k]
      BY <2>1, <2>3, <3>1 DEF uncheckedEnqueue
    <3>. QED BY <2>1, <3>2, <1>1 DEF HeapInv
  <2>. QED BY <2>2, <2>3, <1>1
<1>. QED BY <1>1, <1>2, <1>3, LevelStep DEF Assuming

LEMMA DecideStep ==
  ASSUME MInv, Decide
  PROVE  MInv'
<1>1. PICK v \in order_heap \ Assigned, popped \in SUBSET (order_heap \cap Assigned), b \in Bit :
        order_heap' = order_heap \ (popped \cup {v}) /\ uncheckedEnqueue(ToLit(v, b), None)
  BY DEF Decide
<1>2. /\ Deciding /\ NewLevel /\ pc' = "propagate"
      /\ UNCHANGED <<callVars, ok, db, qhead, visiting, confl, simpDB_assigns>>
  BY DEF Decide
<1>3. HeapInv(trail, order_heap) /\ TrailInv(trail, trail_lim) /\ DOMAIN trail = 1 .. Len(trail)
      /\ Len(trail) \in Nat
  BY InvParts
<1>. DEFINE l == ToLit(v, b)
            x == [lit |-> l, reason |-> None]
<1>4. v \in Var
  BY <1>3 DEF HeapInv
<1>5. l \in Literal /\ LitVar(l) = v /\ LitVar(-l) = v
  BY <1>4, LiteralFacts
<1>. HIDE DEF l
<1>6. ~IsTrue(l) /\ ~IsFalse(l)
  BY <1>5 DEF IsTrue, IsFalse, Assigned
<1>7. trail \in Seq(Fact) /\ x \in Fact /\ trail' = Append(trail, x)
  BY <1>1, <1>3, <1>5 DEF TrailInv, Fact, None, uncheckedEnqueue, l
<1>8. /\ DOMAIN trail' = 1 .. Len(trail) + 1 /\ trail'[Len(trail) + 1].lit = l
      /\ \A k \in DOMAIN trail : k \in DOMAIN trail' /\ trail'[k] = trail[k]
  BY <1>3, <1>7
<1>9. HeapInv(trail, order_heap)'
  <2>. SUFFICES ASSUME NEW w \in Var \ order_heap' PROVE \E k \in DOMAIN trail' : LitVar(trail'[k].lit) = w
    BY <1>1, <1>3 DEF HeapInv
  <2>1. CASE w = v
    BY <2>1, <1>3, <1>5, <1>8
  <2>2. CASE w \in Assigned
    BY <2>2, <1>8 DEF Assigned, TrueLits
  <2>3. CASE w \notin order_heap
    BY <2>3, <1>3, <1>8 DEF HeapInv
  <2>. QED BY <2>1, <2>2, <2>3, <1>1
<1>10. uncheckedEnqueue(l, None)
  BY <1>1 DEF l
<1>11. ~(decisionLevel < Len(assumptions)) /\ pc = "decide"
  <2>1. decisionLevel \in Nat
    BY <1>3, TrailTypes DEF decisionLevel
  <2>2. Len(assumptions) \in Nat
    BY DEF MInv, CallInv
  <2>. QED BY <2>1, <2>2, <1>2 DEF Deciding
<1>. QED BY <1>2, <1>5, <1>6, <1>9, <1>10, <1>11, LevelStep

-----------------------------------------------------------------------------
(* Clauses are added *)

\* Sorting brings two literals to the front.
LEMMA TwoFirst ==
  ASSUME NEW S, S \subseteq Literal, S # {}, Cardinality(S) # 1,
         \A l, m \in S : LitVar(l) = LitVar(m) => l = m
  PROVE  \E a, b \in S : a # b /\ FirstTwo(S) = {a, b}
<1>1. \A l \in S : LitVar(l) \in Nat
  BY LiteralFacts DEF Var
<1>2. \A T \in SUBSET S : T # {} => \E a \in T : \A l \in T : LitVar(a) <= LitVar(l)
  <2>. SUFFICES ASSUME NEW T \in SUBSET S, T # {}
                PROVE  \E a \in T : \A l \in T : LitVar(a) <= LitVar(l)
    OBVIOUS
  <2>. DEFINE N == {LitVar(l) : l \in T}
  <2>1. N \subseteq Nat /\ N # {}
    BY <1>1
  <2>2. PICK n \in N : \A k \in N : n <= k
    <3>. HIDE DEF N
    <3>. QED BY <2>1, NatMinimum
  <2>. QED BY <2>2
<1>3. PICK a \in S : \A l \in S : LitVar(a) <= LitVar(l)
  BY <1>2
<1>4. S \ {a} # {}
  <2>. SUFFICES ASSUME S = {a} PROVE FALSE
    BY <1>3
  <2>. QED BY FS_Singleton
<1>5. PICK b \in S \ {a} : \A l \in S \ {a} : LitVar(b) <= LitVar(l)
  BY <1>2, <1>4
<1>. DEFINE Before(l) == {m \in S : LitVar(m) < LitVar(l)}
<1>6. Cardinality(Before(a)) = 0
  <2>1. Before(a) = {}
    BY <1>1, <1>3
  <2>. QED BY <2>1, FS_EmptySet
<1>7. Cardinality(Before(b)) = 1
  <2>1. LitVar(a) < LitVar(b)
    <3>1. LitVar(a) <= LitVar(b) /\ LitVar(a) # LitVar(b)
      BY <1>3, <1>5
    <3>. QED BY <3>1, <1>1, <1>3, <1>5
  <2>2. ASSUME NEW m \in S, m # a PROVE ~(LitVar(m) < LitVar(b))
    <3>1. LitVar(b) <= LitVar(m)
      BY <2>2, <1>5
    <3>. QED BY <3>1, <1>1, <1>5, <2>2
  <2>3. Before(b) = {a}
    BY <2>1, <2>2, <1>3
  <2>. QED BY <2>3, FS_Singleton
<1>8. ASSUME NEW l \in S, l # a, l # b PROVE ~(Cardinality(Before(l)) < 2)
  <2>1. LitVar(a) < LitVar(l) /\ LitVar(b) < LitVar(l)
    <3>1. LitVar(a) <= LitVar(l) /\ LitVar(a) # LitVar(l)
      BY <1>3, <1>8
    <3>2. LitVar(b) <= LitVar(l) /\ LitVar(b) # LitVar(l)
      BY <1>5, <1>8
    <3>. QED BY <3>1, <3>2, <1>1, <1>3, <1>5, <1>8
  <2>2. {a, b} \subseteq Before(l)
    BY <2>1, <1>3, <1>5
  <2>3. IsFiniteSet(Before(l))
    BY LiteralsFinite
  <2>4. Cardinality({a, b}) = 2
    <3>1. Cardinality({a}) = 1 /\ IsFiniteSet({a})
      BY FS_Singleton
    <3>2. b \notin {a}
      BY <1>5
    <3>3. Cardinality({a} \cup {b}) = 1 + 1
      BY <3>1, <3>2, FS_AddElement
    <3>4. {a} \cup {b} = {a, b}
      OBVIOUS
    <3>. QED BY <3>3, <3>4
  <2>. HIDE DEF Before
  <2>5. Cardinality({a, b}) <= Cardinality(Before(l))
    BY <2>2, <2>3, FS_Subset
  <2>6. Cardinality(Before(l)) \in Nat
    BY <2>3, FS_CardinalityType
  <2>. QED BY <2>4, <2>5, <2>6
<1>9. FirstTwo(S) = {l \in S : Cardinality(Before(l)) < 2}
  BY DEF FirstTwo
<1>. HIDE DEF Before
<1>10. \A l \in S : Cardinality(Before(l)) < 2 <=> l \in {a, b}
  BY <1>6, <1>7, <1>8
<1>11. FirstTwo(S) = {a, b}
  BY <1>3, <1>5, <1>9, <1>10
<1>. QED BY <1>3, <1>5, <1>11

\* One more clause keeps the models that satisfy it.
LEMMA NextGiven ==
  ASSUME CallInv, added < Len(formula), UNCHANGED formula, added' = added + 1
  PROVE  /\ \A l \in ToSet(formula[added + 1]) : l \in Literal
         /\ \A tc : tc \in Given' <=>
              tc \in Given /\ \E l \in ToSet(formula[added + 1]) : Holds(tc, l)
<1>1. formula \in Seq(Clause) /\ added \in Nat /\ Len(formula) \in Nat
  <2>1. formula \in Seq(Clause) /\ added \in 0 .. Len(formula)
    BY SolverAssumption DEF CallInv, Formula
  <2>. QED BY <2>1
<1>. DEFINE n  == added + 1
            F  == SubSeq(formula, 1, added)
            F2 == SubSeq(formula, 1, n)
<1>2. n \in 1 .. Len(formula) /\ formula[n] \in Seq(Literal)
  BY <1>1 DEF Clause
<1>3. /\ DOMAIN F = 1 .. added /\ \A c \in 1 .. added : F[c] = formula[c]
      /\ DOMAIN F2 = 1 .. n /\ \A c \in 1 .. n : F2[c] = formula[c]
  BY <1>1
<1>. HIDE DEF F, F2
<1>4. ASSUME NEW tc
      PROVE  SatClause(tc, formula[n]) <=> \E l \in ToSet(formula[n]) : Holds(tc, l)
  BY <1>2 DEF SatClause, ToSet
<1>5. ASSUME NEW tc
      PROVE  Satisfies(tc, F2) <=> Satisfies(tc, F) /\ SatClause(tc, formula[n])
  <2>1. \A c : c \in 1 .. n <=> c \in 1 .. added \/ c = n
    BY <1>1
  <2>2. Satisfies(tc, F2) <=> \A c \in 1 .. n : SatClause(tc, formula[c])
    BY <1>3 DEF Satisfies
  <2>3. Satisfies(tc, F) <=> \A c \in 1 .. added : SatClause(tc, formula[c])
    BY <1>3 DEF Satisfies
  <2>. QED BY <2>1, <2>2, <2>3
<1>6. Given = Models(F) /\ Given' = Models(F2)
  BY DEF Given, F, F2
<1>7. \A l \in ToSet(formula[added + 1]) : l \in Literal
  BY <1>2 DEF ToSet
<1>. QED BY <1>4, <1>5, <1>6, <1>7 DEF Models

LEMMA AddClauseStep ==
  ASSUME MInv, AddClause
  PROVE  MInv'
<1>. DEFINE S    == NextLits
            drop == ~ok \/ \E l \in S : IsTrue(l) \/ -l \in S
<1>1. /\ pc = "add" /\ added < Len(formula) /\ added' = added + 1
      /\ UNCHANGED <<formula, assumptions, starts, answer, trail_lim, qhead, visiting, confl,
                     order_heap, simpDB_assigns>>
  BY DEF AddClause
<1>2. \/ drop /\ UNCHANGED <<pc, ok, db, trail>>
      \/ ~drop /\ S = {} /\ ok' = FALSE /\ UNCHANGED <<pc, db, trail>>
      \/ /\ ~drop /\ S # {} /\ Cardinality(S) = 1
         /\ \E l \in S : uncheckedEnqueue(l, None)
         /\ pc' = "add_propagate" /\ UNCHANGED <<ok, db>>
      \/ /\ ~drop /\ S # {} /\ Cardinality(S) # 1
         /\ db' = With(NewRef, S, FirstTwo(S), FALSE) /\ UNCHANGED <<pc, ok, trail>>
  <2>1. IF drop
        THEN UNCHANGED <<pc, ok, db, trail>>
        ELSE CASE S = {} -> ok' = FALSE /\ UNCHANGED <<pc, db, trail>>
               [] Cardinality(S) = 1 ->
                    /\ \E l \in S : uncheckedEnqueue(l, None)
                    /\ pc' = "add_propagate"
                    /\ UNCHANGED <<ok, db>>
               [] OTHER ->
                    /\ db' = With(NewRef, S, FirstTwo(S), FALSE)
                    /\ UNCHANGED <<pc, ok, trail>>
    BY Zenon DEF AddClause
  <2>2. Cardinality({}) = 0
    BY FS_EmptySet
  <2>. HIDE DEF S, drop
  <2>3. S = {} => Cardinality(S) # 1
    BY <2>2
  <2>. QED BY <2>1, <2>3
<1>3. /\ DatabaseInv(db) /\ TrailInv(trail, trail_lim) /\ ReasonsInv(db, trail)
      /\ StackInv(db, trail, trail_lim, assumptions, order_heap)
      /\ AssumedInv(trail, trail_lim, assumptions)
      /\ Len(trail) \in Nat /\ DOMAIN trail = 1 .. Len(trail) /\ trail \in Seq(Fact)
      /\ ok => WatchInv /\ GivenHold(db, trail, trail_lim) /\ HeldGive(db, trail, trail_lim)
      /\ ~ok => Given = {}
  BY InvParts DEF TrailInv
<1>4. /\ CallInv /\ trail_lim = <<>> /\ answer = <<>> /\ ok \in BOOLEAN
      /\ visiting = {} /\ confl = None /\ qhead = Len(trail)
  BY <1>1 DEF MInv, CallInv, QueueInv, Propagating
<1>5. /\ \A l \in ToSet(formula[added + 1]) : l \in Literal
      /\ \A tc : tc \in Given' <=>
           tc \in Given /\ \E l \in ToSet(formula[added + 1]) : Holds(tc, l)
  BY <1>1, <1>4, NextGiven
<1>6. S \subseteq ToSet(formula[added + 1]) /\ S \subseteq Literal
  BY <1>5 DEF NextLits
<1>7. ASSUME ok, NEW tc \in Given, NEW l \in TrueLits
      PROVE  Holds(tc, l)
  BY <1>3, <1>4, <1>7 DEF TrueLits, GivenHold, RootHolds, AtRoot
<1>8. ASSUME ok, NEW tc \in Given, NEW l \in ToSet(formula[added + 1]), Holds(tc, l)
      PROVE  l \in S
  <2>. SUFFICES ASSUME -l \in TrueLits PROVE FALSE
    BY DEF NextLits, IsFalse
  <2>1. Holds(tc, -l)
    BY <1>7, <1>8
  <2>. QED BY <2>1, <1>5, <1>8, LiteralFacts DEF Given, Models
<1>9. ASSUME ok
      PROVE  \A tc : tc \in Given' <=> tc \in Given /\ \E l \in S : Holds(tc, l)
  BY <1>5, <1>6, <1>8, <1>9
<1>. HIDE DEF S
<1>10. AnswersRight' /\ added' \in 0 .. Len(formula)
  <2>1. added \in 0 .. Len(formula) /\ Len(formula) \in Nat
    BY <1>1, <1>4, SolverAssumption DEF CallInv, Formula
  <2>2. added' \in 0 .. Len(formula)
    BY <2>1, <1>1
  <2>. QED BY <2>2, <1>1, <1>4 DEF AnswersRight
<1>11. ASSUME UNCHANGED <<pc, ok>> PROVE CallInv'
  BY <1>1, <1>4, <1>10, <1>11 DEF CallInv
<1>12. CASE drop /\ UNCHANGED <<pc, ok, db, trail>>
  <2>1. ASSUME ok PROVE Given' = Given
    <3>1. PICK l \in S : IsTrue(l) \/ -l \in S
      BY <1>12, <2>1
    <3>2. \A tc \in Given : Holds(tc, l) \/ (-l \in S /\ Holds(tc, -l))
      BY <3>1, <2>1, <1>6, <1>7, LiteralFacts DEF IsTrue, Given, Models
    <3>. QED BY <3>2, <2>1, <1>9
  <2>2. ASSUME ~ok PROVE Given' = {}
    BY <2>2, <1>3, <1>5
  <2>3. ModelsInv'
    <3>1. CASE ok
      BY <3>1, <2>1, <1>1, <1>3, <1>12 DEF ModelsInv, GivenHold, HeldGive
    <3>2. CASE ~ok
      BY <3>2, <2>2, <1>12 DEF ModelsInv
    <3>. QED BY <3>1, <3>2
  <2>4. QueueInv' /\ ConflictInv' /\ (ok' => WatchInv')
    BY <1>1, <1>3, <1>12
       DEF MInv, QueueInv, ConflictInv, WatchInv, Seen, decisionLevel, Propagating
  <2>. QED BY <2>3, <2>4, <1>1, <1>3, <1>10, <1>11, <1>12 DEF MInv
<1>13. CASE ~drop /\ S = {} /\ ok' = FALSE /\ UNCHANGED <<pc, db, trail>>
  <2>1. ok
    BY <1>13, <1>4
  <2>2. Given' = {}
    BY <2>1, <1>9, <1>13
  <2>3. ModelsInv'
    BY <2>2, <1>13 DEF ModelsInv
  <2>4. QueueInv' /\ ConflictInv'
    BY <1>1, <1>13 DEF MInv, QueueInv, ConflictInv, decisionLevel, Propagating
  <2>5. CallInv'
    BY <1>1, <1>4, <1>10, <1>13 DEF CallInv
  <2>. QED BY <2>3, <2>4, <2>5, <1>1, <1>3, <1>10, <1>13 DEF MInv
<1>14. CASE /\ ~drop /\ S # {} /\ Cardinality(S) = 1
            /\ \E l \in S : uncheckedEnqueue(l, None)
            /\ pc' = "add_propagate" /\ UNCHANGED <<ok, db>>
  <2>1. PICK l \in S : uncheckedEnqueue(l, None)
    BY <1>14
  <2>. DEFINE x == [lit |-> l, reason |-> None]
  <2>2. ok /\ l \in Literal /\ ~IsTrue(l) /\ ~IsFalse(l)
    BY <1>4, <1>6, <1>14 DEF S, NextLits
  <2>3. S = {l}
    <3>1. IsFiniteSet(S)
      BY <1>6, LiteralsFinite
    <3>2. PICK u : S = {u}
      BY <3>1, <1>14, FS_Singleton
    <3>. QED BY <3>2
  <2>4. trail' = Append(trail, x) /\ x \in Fact /\ x.lit = l
    BY <2>1, <2>2 DEF uncheckedEnqueue, Fact, None
  <2>5. \A k \in DOMAIN trail : LitVar(trail[k].lit) # LitVar(l)
    <3>. SUFFICES ASSUME NEW k \in DOMAIN trail, LitVar(trail[k].lit) = LitVar(l) PROVE FALSE
      OBVIOUS
    <3>1. trail[k].lit \in TrueLits /\ trail[k].lit \in Literal
      BY <1>3, TrailTypes DEF TrueLits
    <3>2. trail[k].lit = l \/ trail[k].lit = -l
      BY <2>2, <3>1, LiteralFacts
    <3>. QED BY <3>1, <3>2, <2>2 DEF IsTrue, IsFalse
  <2>6. StackInv(db, Append(trail, x), trail_lim, assumptions, order_heap)
    <3>1. None \in Nat
      BY DEF None
    <3>. QED BY <3>1, <2>2, <2>5, <1>3, <1>4, FactPushed
  <2>. HIDE DEF x
  <2>7. AssumedInv(Append(trail, x), trail_lim, assumptions)
    BY <2>4, <1>3, AssumedPushed
  <2>8. /\ Len(Append(trail, x)) = Len(trail) + 1
        /\ DOMAIN Append(trail, x) = 1 .. Len(trail) + 1
    BY <2>4, <1>3
  <2>9. QueueInv' /\ ConflictInv'
    <3>1. qhead \in 0 .. Len(trail) + 1
      BY <1>3, <1>4
    <3>. QED BY <3>1, <2>4, <2>8, <1>1, <1>4, <1>14
         DEF QueueInv, ConflictInv, decisionLevel, Propagating
  <2>10. WatchInv'
    <3>. SUFFICES ASSUME NEW c \in DOMAIN db, NEW k \in 1 .. Len(trail) + 1, Seen(c, k)'
                  PROVE  Passed(db[c], Append(trail, x), trail_lim, k)
      BY <2>4, <2>8, <1>1, <1>14 DEF WatchInv
    <3>1. k \in DOMAIN trail /\ Seen(c, k)
      BY <1>1, <1>3, <1>4 DEF Seen
    <3>2. Passed(db[c], trail, trail_lim, k)
      BY <3>1, <2>2, <1>3 DEF WatchInv
    <3>. QED BY <3>1, <3>2, <2>4, <1>3, PassedPushed
  <2>11. \A tc : tc \in Given' <=> tc \in Given /\ Holds(tc, l)
    BY <2>2, <2>3, <1>9
  <2>12. \A tc : RootHolds(tc, Append(trail, x), trail_lim) <=>
                   RootHolds(tc, trail, trail_lim) /\ Holds(tc, l)
    <3>1. \A tc : RootHolds(tc, Append(trail, x), trail_lim) => RootHolds(tc, trail, trail_lim)
      BY <2>4, <1>3, RootPushed
    <3>2. \A tc : RootHolds(tc, trail, trail_lim) /\ Holds(tc, l)
                    => RootHolds(tc, Append(trail, x), trail_lim)
      BY <2>4, <1>3, RootPushed
    <3>3. \A tc : RootHolds(tc, Append(trail, x), trail_lim) => Holds(tc, l)
      <4>1. Append(trail, x)[Len(trail) + 1] = x /\ Len(trail) + 1 \in 1 .. Len(trail) + 1
        BY <2>4, <1>3
      <4>. QED BY <4>1, <2>4, <2>8, <1>4 DEF RootHolds, AtRoot
    <3>. QED BY <3>1, <3>2, <3>3
  <2>13. GivenHold(db, trail, trail_lim)'
    BY <2>2, <2>4, <2>11, <2>12, <1>1, <1>3, <1>14 DEF GivenHold
  <2>14. HeldGive(db, trail, trail_lim)'
    BY <2>2, <2>4, <2>11, <2>12, <1>1, <1>3, <1>14 DEF HeldGive
  <2>15. CallInv'
    BY <2>2, <1>1, <1>4, <1>10, <1>14 DEF CallInv
  <2>16. StackInv(db, trail, trail_lim, assumptions, order_heap)'
         /\ AssumedInv(trail, trail_lim, assumptions)'
    BY <2>4, <2>6, <2>7, <1>1, <1>14
  <2>. QED BY <2>2, <2>9, <2>10, <2>13, <2>14, <2>15, <2>16, <1>1, <1>3, <1>10, <1>14
           DEF MInv, ModelsInv
<1>15. CASE /\ ~drop /\ S # {} /\ Cardinality(S) # 1
            /\ db' = With(NewRef, S, FirstTwo(S), FALSE) /\ UNCHANGED <<pc, ok, trail>>
  <2>1. ok /\ \A l \in S : -l \notin S /\ -l \notin TrueLits
    BY <1>4, <1>15 DEF S, NextLits, IsFalse
  <2>2. \A l, m \in S : LitVar(l) = LitVar(m) => l = m
    BY <2>1, <1>6, LiteralFacts
  <2>3. PICK a, b \in S : a # b /\ FirstTwo(S) = {a, b}
    BY <2>2, <1>6, <1>15, TwoFirst
  <2>. DEFINE m == With(NewRef, S, {a, b}, FALSE)
  <2>4. /\ DatabaseInv(m) /\ DOMAIN m = DOMAIN db \cup {NewRef}
        /\ \A c \in DOMAIN db : m[c] = db[c]
        /\ m[NewRef].lits = S /\ m[NewRef].watch = {a, b} /\ m[NewRef].learnt = FALSE
    <3>1. a # b
      BY <2>3
    <3>2. DatabaseInv(db)
      BY <1>3
    <3>3. S \subseteq Literal
      BY <1>6
    <3>4. FALSE \in BOOLEAN
      OBVIOUS
    <3>5. AddedTo(m, S, {a, b}, FALSE)
      BY <3>1, <3>2, <3>3, <3>4, ClauseAdded
    <3>. QED BY <3>5 DEF AddedTo
  <2>5. db' = m
    BY <2>3, <1>15
  <2>. HIDE DEF m
  <2>6. NewRef \notin DOMAIN db
    BY <1>3, NewRefFresh
  <2>7. StackInv(m, trail, trail_lim, assumptions, order_heap)
    <3>1. \A k \in DOMAIN trail : trail[k].reason # None => trail[k].reason \in DOMAIN db
      BY <1>3 DEF ReasonsInv
    <3>2. \A k \in DOMAIN trail : trail[k].reason # None =>
            trail[k].reason \in DOMAIN m /\ m[trail[k].reason].lits = db[trail[k].reason].lits
      BY <3>1, <2>4
    <3>. QED BY <3>2, <1>3, StackOfReasons
  <2>8. QueueInv' /\ ConflictInv'
    <3>1. qhead \in 0 .. Len(trail)
      BY <1>3, <1>4
    <3>. QED BY <3>1, <1>1, <1>4, <1>15 DEF QueueInv, ConflictInv, decisionLevel, Propagating
  <2>9. WatchInv'
    <3>. SUFFICES ASSUME NEW c \in DOMAIN m, NEW k \in DOMAIN trail, Seen(c, k)'
                  PROVE  Passed(m[c], trail, trail_lim, k)
      BY <2>5, <1>1, <1>15 DEF WatchInv
    <3>1. CASE c \in DOMAIN db
      <4>1. Seen(c, k)
        BY <1>1 DEF Seen, decisionLevel
      <4>2. Passed(db[c], trail, trail_lim, k)
        BY <4>1, <3>1, <2>1, <1>3 DEF WatchInv
      <4>. QED BY <4>2, <3>1, <2>4
    <3>2. CASE c = NewRef
      <4>1. trail[k].lit \in TrueLits /\ trail[k].lit \in Literal
        BY <1>3, TrailTypes DEF TrueLits
      <4>2. -trail[k].lit \notin S
        BY <4>1, <2>1, LiteralFacts
      <4>. QED BY <4>2, <3>2, <2>3, <2>4 DEF Passed
    <3>. QED BY <3>1, <3>2, <2>4
  <2>10. GivenHold(db, trail, trail_lim)'
    <3>. SUFFICES ASSUME NEW tc \in Given'
                  PROVE  /\ \A c \in DOMAIN m : SatisfiedBy(tc, m, c)
                         /\ RootHolds(tc, trail, trail_lim)
      BY <2>5, <1>1, <1>15 DEF GivenHold, SatisfiedBy
    <3>1. tc \in Given /\ \E l \in S : Holds(tc, l)
      BY <2>1, <1>9
    <3>2. \A c \in DOMAIN db : SatisfiedBy(tc, db, c)
      BY <3>1, <2>1, <1>3 DEF GivenHold
    <3>3. RootHolds(tc, trail, trail_lim)
      BY <3>1, <2>1, <1>3 DEF GivenHold
    <3>4. SatisfiedBy(tc, m, NewRef)
      BY <3>1, <2>4 DEF SatisfiedBy
    <3>5. \A c \in DOMAIN db : SatisfiedBy(tc, m, c)
      BY <3>2, <2>4 DEF SatisfiedBy
    <3>. QED BY <3>3, <3>4, <3>5, <2>4
  <2>11. HeldGive(db, trail, trail_lim)'
    <3>. SUFFICES ASSUME NEW tc \in TestCase, RootHolds(tc, trail, trail_lim),
                         \A c \in DOMAIN m : ~m[c].learnt => SatisfiedBy(tc, m, c)
                  PROVE  tc \in Given'
      BY <2>5, <1>1, <1>15 DEF HeldGive, SatisfiedBy
    <3>1. \A c \in DOMAIN db : ~db[c].learnt => SatisfiedBy(tc, db, c)
      BY <2>4 DEF SatisfiedBy
    <3>2. SatisfiedBy(tc, m, NewRef)
      BY <2>4
    <3>3. \E l \in S : Holds(tc, l)
      BY <3>2, <2>4 DEF SatisfiedBy
    <3>4. tc \in Given
      BY <3>1, <2>1, <1>3 DEF HeldGive
    <3>. QED BY <3>3, <3>4, <2>1, <1>9
  <2>. QED BY <2>1, <2>4, <2>5, <2>7, <2>8, <2>9, <2>10, <2>11, <1>1, <1>3, <1>10, <1>11, <1>15
           DEF MInv, ModelsInv
<1>. QED BY <1>2, <1>12, <1>13, <1>14, <1>15

-----------------------------------------------------------------------------
(* The invariant, and what it says *)

LEMMA MInvInit == Init => MInv
<1>. SUFFICES ASSUME Init PROVE MInv
  OBVIOUS
<1>1. /\ formula \in Formulas /\ added = 0 /\ pc = "add" /\ ok = TRUE
      /\ db = [c \in {} |-> None] /\ trail = <<>> /\ trail_lim = <<>> /\ qhead = 0
      /\ visiting = {} /\ confl = None /\ order_heap = Var
      /\ assumptions = <<>> /\ answer = <<>>
  BY DEF Init
<1>2. formula \in Seq(Clause)
  BY <1>1, SolverAssumption DEF Formula
<1>3. CallInv
  BY <1>1, <1>2 DEF CallInv
<1>4. DOMAIN db = {} /\ db \in [{} -> Entry]
  BY <1>1
<1>5. DatabaseInv(db)
  <2>1. {} \in SUBSET (Nat \ {None}) /\ IsFiniteSet({})
    BY FS_EmptySet
  <2>. QED BY <2>1, <1>4 DEF DatabaseInv, Database
<1>6. StackInv(db, trail, trail_lim, assumptions, order_heap)
  BY <1>1 DEF StackInv, TrailInv, ReasonsInv, DecisionsInv, HeapInv
<1>7. AssumedInv(trail, trail_lim, assumptions)
  BY <1>1 DEF AssumedInv
<1>8. QueueInv /\ ConflictInv /\ WatchInv /\ AnswersRight
  BY <1>1, <1>4 DEF QueueInv, ConflictInv, WatchInv, AnswersRight, Propagating
<1>9. Given = TestCase
  <2>1. SubSeq(formula, 1, 0) = <<>>
    BY <1>2
  <2>2. \A tc : Satisfies(tc, <<>>)
    BY DEF Satisfies
  <2>. QED BY <2>1, <2>2, <1>1 DEF Given, Models
<1>10. ModelsInv
  BY <1>1, <1>4, <1>9 DEF ModelsInv, GivenHold, HeldGive, RootHolds
<1>. QED BY <1>3, <1>5, <1>6, <1>7, <1>8, <1>10 DEF MInv

LEMMA MInvNext == MInv /\ [Next]_vars => MInv'
<1>. SUFFICES ASSUME MInv, [Next]_vars PROVE MInv'
  OBVIOUS
<1>1. CASE AddClause
  BY <1>1, AddClauseStep
<1>2. CASE AllAdded
  BY <1>2, AllAddedStep
<1>3. CASE PropagatedClause
  BY <1>3, PropagatedClauseStep
<1>4. CASE TakeLiteral
  BY <1>4, TakeLiteralStep
<1>5. CASE \E c \in visiting : PassSatisfied(c) \/ MoveWatch(c) \/ ImplyOther(c) \/ FindConflict(c)
  BY <1>5, PassSatisfiedStep, MoveWatchStep, ImplyOtherStep, FindConflictStep
<1>6. CASE Learn
  BY <1>6, LearnStep
<1>7. CASE RootConflict
  BY <1>7, RootConflictStep
<1>8. CASE Solve
  BY <1>8, SolveStep
<1>9. CASE SolveRefused
  BY <1>9, SolveRefusedStep
<1>10. CASE NoConflict
  BY <1>10, NoConflictStep
<1>11. CASE Restart
  BY <1>11, RestartStep
<1>12. CASE NoMoreCalls \/ UNCHANGED vars
  BY <1>12, StutterStep DEF NoMoreCalls
<1>13. CASE AssumeTrue \/ AssumeNext
  BY <1>13, AssumeStep
<1>14. CASE AssumeFalse
  BY <1>14, AssumeFalseStep
<1>15. CASE Decide
  BY <1>15, DecideStep
<1>16. CASE ModelFound
  BY <1>16, ModelFoundStep
<1>. QED BY <1>1, <1>2, <1>3, <1>4, <1>5, <1>6, <1>7, <1>8, <1>9, <1>10, <1>11, <1>12, <1>13,
            <1>14, <1>15, <1>16 DEF Next

\* The solver's data are well-formed at every step, and what it holds has the
\* models of what it was given.
THEOREM SearchInvariant == Spec => []MInv
  BY MInvInit, MInvNext, PTL DEF Spec

LEMMA WatchesCompleteFromInv == MInv => WatchesComplete
<1>. SUFFICES ASSUME MInv, pc \in {"idle", "decide"}, ok, NEW c \in DOMAIN db
              PROVE  /\ db[c].watch \subseteq db[c].lits /\ Cardinality(db[c].watch) = 2
                     /\ \A w \in db[c].watch :
                          IsFalse(w) => \E l \in db[c].lits :
                                          IsTrue(l) /\ Level(LitVar(l)) <= Level(LitVar(w))
  BY DEF WatchesComplete
<1>1. /\ DatabaseInv(db) /\ TrailInv(trail, trail_lim) /\ WatchInv
      /\ Len(trail) \in Nat /\ DOMAIN trail = 1 .. Len(trail)
  BY InvParts
<1>2. visiting = {} /\ confl = None /\ qhead = Len(trail)
  BY DEF MInv, QueueInv, Propagating
<1>3. PICK a, b \in db[c].lits : a # b /\ db[c].watch = {a, b}
  BY <1>1 DEF DatabaseInv, TwoWatched
<1>4. Cardinality(db[c].watch) = 2
  <2>1. Cardinality({a}) = 1 /\ IsFiniteSet({a})
    BY FS_Singleton
  <2>2. Cardinality({a} \cup {b}) = 1 + 1
    BY <2>1, <1>3, FS_AddElement
  <2>3. {a} \cup {b} = db[c].watch
    BY <1>3
  <2>. QED BY <2>2, <2>3
<1>5. ASSUME NEW w \in db[c].watch, IsFalse(w)
      PROVE  \E l \in db[c].lits : IsTrue(l) /\ Level(LitVar(l)) <= Level(LitVar(w))
  <2>1. PICK k \in DOMAIN trail : trail[k].lit = -w
    BY <1>5 DEF IsFalse, TrueLits
  <2>2. w \in Literal
    BY <1>1, <1>3 DEF DatabaseInv, Database, Entry
  <2>3. -trail[k].lit = w /\ LitVar(trail[k].lit) = LitVar(w)
    BY <2>1, <2>2, LiteralFacts
  <2>4. Seen(c, k)
    BY <1>1, <1>2 DEF Seen
  <2>5. PICK j \in DOMAIN trail : trail[j].lit \in db[c].lits /\ NoLater(trail_lim, j, k)
    BY <2>3, <2>4, <1>1 DEF WatchInv, Passed
  <2>6. Level(LitVar(trail[j].lit)) <= Level(LitVar(trail[k].lit))
    BY <2>5, <1>1, NoLaterByLevel
  <2>. QED BY <2>3, <2>5, <2>6 DEF IsTrue, TrueLits
<1>. QED BY <1>3, <1>4, <1>5

LEMMA DatabaseEquivalentFromInv == MInv => DatabaseEquivalent
<1>. SUFFICES ASSUME MInv PROVE Given = IF ok THEN HeldModels ELSE {}
  BY DEF DatabaseEquivalent, Given
<1>1. CASE ~ok
  BY <1>1, InvParts
<1>2. CASE ok
  <2>1. /\ TrailInv(trail, trail_lim) /\ GivenHold(db, trail, trail_lim)
        /\ HeldGive(db, trail, trail_lim) /\ Len(trail) \in Nat /\ DOMAIN trail = 1 .. Len(trail)
    BY <1>2, InvParts
  <2>2. RootLits = {trail[k].lit : k \in {j \in DOMAIN trail : AtRoot(trail_lim, j)}}
    <3>1. CASE trail_lim = <<>>
      <4>1. decisionLevel = 0
        BY <3>1 DEF decisionLevel
      <4>. QED BY <4>1, <3>1, <2>1 DEF RootLits, AtRoot
    <3>2. CASE trail_lim # <<>>
      <4>1. decisionLevel # 0 /\ 1 \in DOMAIN trail_lim
        BY <3>2, <2>1 DEF decisionLevel, TrailInv
      <4>2. trail_lim[1] \in Nat /\ trail_lim[1] <= Len(trail)
        BY <4>1, <2>1, TrailTypes
      <4>3. \A k : k \in 1 .. trail_lim[1] <=> k \in DOMAIN trail /\ AtRoot(trail_lim, k)
        BY <4>2, <3>2, <2>1 DEF AtRoot
      <4>4. RootLits = {trail[k].lit : k \in 1 .. trail_lim[1]}
        BY <4>1 DEF RootLits
      <4>. QED BY <4>3, <4>4
    <3>. QED BY <3>1, <3>2
  <2>3. ASSUME NEW tc PROVE RootHolds(tc, trail, trail_lim) <=> \A l \in RootLits : Holds(tc, l)
    BY <2>2 DEF RootHolds
  <2>4. ASSUME NEW tc \in Given PROVE tc \in HeldModels
    BY <2>1, <2>3, <2>4 DEF GivenHold, HeldModels, SatisfiedBy, Given, Models
  <2>5. ASSUME NEW tc \in HeldModels PROVE tc \in Given
    BY <2>1, <2>3, <2>5 DEF HeldGive, HeldModels, SatisfiedBy
  <2>. QED BY <2>4, <2>5, <1>2
<1>. QED BY <1>1, <1>2

\* Whatever the solver is given and however often it is called: when propagation
\* is done, every clause is watched in two literals and a false one only where a
\* literal set no later makes the clause true, so that no jump back misses an
\* implication.
THEOREM WatchesCompleteAlways == Spec => []WatchesComplete
  BY SearchInvariant, WatchesCompleteFromInv, PTL

\* At every step of every call the clauses, learnt ones and root facts together
\* have exactly the models of the clauses added so far.
THEOREM DatabaseEquivalentAlways == Spec => []DatabaseEquivalent
  BY SearchInvariant, DatabaseEquivalentFromInv, PTL

\* "sat" always comes with a model of the formula and the assumptions of the
\* call, "unsat" only if there is none.
THEOREM AnswersRightAlways == Spec => []AnswersRight
<1>1. MInv => AnswersRight
  BY DEF MInv
<1>. QED BY <1>1, SearchInvariant, PTL
=============================================================================
