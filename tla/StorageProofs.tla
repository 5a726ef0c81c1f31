--------------------------- MODULE StorageProofs ---------------------------
(***************************************************************************)
(* Proofs about what the program keeps in memory it manages by hand and in *)
(* files, for every number of options.  First the region of ClauseArena:   *)
(* whatever the formula and the learnt clauses, the solver leaves no       *)
(* reference to a clause behind.  Then SimpleBitSet: for any width of the  *)
(* words, Get2TupleMapIndex gives every 2-tuple a bit of its own inside    *)
(* them; and for any objects and any heap every array has one owner, the   *)
(* counter is exact, and an object is a set of tuples held by value.  Then *)
(* the heap of options: its array and its indices agree, and it is a set   *)
(* that hands out each member once, in order while its order was left      *)
(* alone.  Last the files: whatever the reducer leaves, both readers hold  *)
(* the input's formula, or nothing wrong is saved.                         *)
(***************************************************************************)
EXTENDS ClauseArena, TupleBitSet, OrderHeap, Startup, CNFProofs

-----------------------------------------------------------------------------
(* Clause references: the inductive invariant *)

ProperSeq == {lits \in Seq(Literal) : ProperClause(lits)}

ArenaClause == [lits : ProperSeq, learnt : BOOLEAN, mark : {0, 1}]

Region(m, next) ==
  next \in Nat /\ DOMAIN m \subseteq 0 .. next - 1 /\ m \in [DOMAIN m -> ArenaClause]

\* Literals of options of their own.
OwnOptions(tr) ==
  tr \in Seq(Literal) /\ \A i, j \in DOMAIN tr : LitVar(tr[i]) = LitVar(tr[j]) => i = j

TrailInv ==
  /\ OwnOptions(trail)
  /\ trail_lim \in Seq(Nat) /\ \A i \in DOMAIN trail_lim : trail_lim[i] <= Len(trail)
  /\ \A i, j \in DOMAIN trail_lim : i <= j => trail_lim[i] <= trail_lim[j]
  /\ qhead \in 0 .. Len(trail)

\* RefsSound in two parts, for the clauses m, the lists ws and the like: the
\* watch lists and the reasons.
InUse(m) == {c \in DOMAIN m : m[c].mark = 0}
Heads(m, c) == {m[c].lits[1], m[c].lits[2]}

ListsSound(m, ws, ds, held) ==
  /\ held = InUse(m)
  /\ \A c \in InUse(m), l \in Literal : c \in ws[l] <=> -l \in Heads(m, c)
  /\ \A l \in Literal : ws[l] \subseteq DOMAIN m /\ (l \notin ds => ws[l] \subseteq InUse(m))

ReasonOf(m, tr, k, c) ==
  /\ c \in InUse(m) /\ m[c].lits[1] = tr[k]
  /\ \A i \in 2 .. Len(m[c].lits) : \E j \in 1 .. k - 1 : tr[j] = -m[c].lits[i]

ReasonsSound(m, tr, rs) ==
  \A k \in DOMAIN tr : rs[LitVar(tr[k])] # CRef_Undef => ReasonOf(m, tr, k, rs[LitVar(tr[k])])

\* What propagate still has to visit is in the list it walks.
VisitInv ==
  /\ watches \in [Literal -> SUBSET Nat] /\ dirty \subseteq Literal
  /\ reason \in [Var -> Int]
  /\ pc \in {"propagate", "conflict"} => dirty = {}
  /\ pc = "conflict" => trail_lim # <<>>
  /\ visiting # {} =>
       /\ pc = "propagate" /\ qhead \in DOMAIN trail
       /\ visiting \subseteq watches[trail[qhead]]

AddedInv == formula \in Formulas /\ added \in Nat

AInv ==
  /\ Region(ca, top) /\ TrailInv /\ VisitInv
  /\ ListsSound(ca, watches, dirty, clauses \cup learnts)
  /\ ReasonsSound(ca, trail, reason)

LEMMA AInvRefsSound == AInv => RefsSound
  BY DEF AInv, RefsSound, ListsSound, ReasonsSound, ReasonOf, InUse, Live, Heads, FirstTwo

-----------------------------------------------------------------------------
(* Literals, trails and relocation *)

\* A trail that is cut short keeps its reasons.
LEMMA PrefixSound ==
  ASSUME NEW m, NEW tr, NEW rs, OwnOptions(tr), ReasonsSound(m, tr, rs), NEW n \in 0 .. Len(tr)
  PROVE  /\ OwnOptions(SubSeq(tr, 1, n)) /\ Len(SubSeq(tr, 1, n)) = n
         /\ ReasonsSound(m, SubSeq(tr, 1, n), rs)
<1>. DEFINE kept == SubSeq(tr, 1, n)
<1>1. kept \in Seq(Literal) /\ Len(kept) = n /\ \A k \in 1 .. n : kept[k] = tr[k]
  BY DEF OwnOptions
<1>2. OwnOptions(kept)
  BY <1>1, SMTT(30) DEF OwnOptions
<1>3. ASSUME NEW k \in DOMAIN kept, rs[LitVar(kept[k])] # CRef_Undef
      PROVE  ReasonOf(m, kept, k, rs[LitVar(kept[k])])
  <2>1. k \in DOMAIN tr /\ kept[k] = tr[k] /\ k \in 1 .. n
    BY <1>1 DEF OwnOptions
  <2>2. ReasonOf(m, tr, k, rs[LitVar(tr[k])])
    BY <2>1, <1>3 DEF ReasonsSound
  <2>3. \A j \in 1 .. k - 1 : kept[j] = tr[j]
    BY <1>1, <2>1
  <2>. QED
    BY <2>1, <2>2, <2>3 DEF ReasonOf
<1>. QED
  BY <1>1, <1>2, <1>3 DEF ReasonsSound

LEMMA AppendOwn ==
  ASSUME NEW tr, OwnOptions(tr), NEW l \in Literal, UnsetIn(tr, l)
  PROVE  OwnOptions(Append(tr, l)) /\ Len(Append(tr, l)) = Len(tr) + 1
<1>1. /\ tr \in Seq(Literal) /\ Append(tr, l) \in Seq(Literal)
      /\ Len(Append(tr, l)) = Len(tr) + 1 /\ Append(tr, l)[Len(tr) + 1] = l
      /\ \A k \in 1 .. Len(tr) : Append(tr, l)[k] = tr[k]
  BY DEF OwnOptions
<1>2. \A k \in 1 .. Len(tr) : tr[k] \in Literal /\ LitVar(tr[k]) # LitVar(l)
  BY <1>1, LiteralFacts DEF UnsetIn
<1>. QED
  BY <1>1, <1>2 DEF OwnOptions

\* uncheckedEnqueue of a literal without a value, with a clause that implies
\* it or none.
LEMMA EnqueueSound ==
  ASSUME NEW m, NEW tr, NEW rs \in [Var -> Int], OwnOptions(tr), ReasonsSound(m, tr, rs),
         NEW l \in Literal, NEW from \in Int, UnsetIn(tr, l),
         from # CRef_Undef =>
           /\ from \in InUse(m) /\ m[from].lits[1] = l
           /\ \A i \in 2 .. Len(m[from].lits) : FalseIn(tr, m[from].lits[i]),
         NEW tr2, tr2 = Append(tr, l), NEW rs2, rs2 = [rs EXCEPT ![LitVar(l)] = from]
  PROVE  ReasonsSound(m, tr2, rs2)
<1>1. /\ tr \in Seq(Literal) /\ tr2 \in Seq(Literal) /\ Len(tr2) = Len(tr) + 1
      /\ tr2[Len(tr) + 1] = l /\ \A k \in 1 .. Len(tr) : tr2[k] = tr[k]
  BY DEF OwnOptions
<1>2. \A k \in 1 .. Len(tr) : tr[k] \in Literal /\ LitVar(tr[k]) # LitVar(l)
  BY <1>1, LiteralFacts DEF UnsetIn
<1>5. ASSUME NEW k \in DOMAIN tr2, rs2[LitVar(tr2[k])] # CRef_Undef
      PROVE  ReasonOf(m, tr2, k, rs2[LitVar(tr2[k])])
  <2>1. CASE k = Len(tr) + 1
    <3>1. rs2[LitVar(tr2[k])] = from /\ tr2[k] = l
      BY <2>1, <1>1, LiteralFacts
    <3>2. ASSUME NEW i \in 2 .. Len(m[from].lits)
          PROVE  \E j \in 1 .. k - 1 : tr2[j] = -m[from].lits[i]
      <4>1. FalseIn(tr, m[from].lits[i])
        BY <3>1, <1>5
      <4>2. PICK j \in DOMAIN tr : tr[j] = -m[from].lits[i]
        BY <4>1 DEF FalseIn
      <4>3. j \in 1 .. k - 1 /\ tr2[j] = tr[j]
        BY <1>1, <2>1, <4>2
      <4>. QED BY <4>2, <4>3
    <3>. QED
      BY <3>1, <3>2, <1>5 DEF ReasonOf
  <2>2. CASE k # Len(tr) + 1
    <3>1. k \in 1 .. Len(tr) /\ tr2[k] = tr[k] /\ k \in DOMAIN tr
      BY <2>2, <1>1
    <3>2. rs2[LitVar(tr2[k])] = rs[LitVar(tr[k])]
      BY <3>1, <1>2, LiteralFacts
    <3>3. ReasonOf(m, tr, k, rs[LitVar(tr[k])])
      BY <3>1, <3>2, <1>5 DEF ReasonsSound
    <3>4. \A j \in 1 .. k - 1 : tr2[j] = tr[j]
      BY <1>1, <3>1
    <3>. QED
      BY <3>1, <3>2, <3>3, <3>4 DEF ReasonOf
  <2>. QED
    BY <2>1, <2>2
<1>. QED
  BY <1>5 DEF ReasonsSound

\* Reasons do not mind what happens to other clauses.
LEMMA FrameSound ==
  ASSUME NEW m, NEW m2, NEW tr, NEW rs, ReasonsSound(m, tr, rs),
         \A k \in DOMAIN tr :
           LET c == rs[LitVar(tr[k])]
           IN  c # CRef_Undef /\ c \in InUse(m) =>
                 c \in InUse(m2) /\ m2[c].lits = m[c].lits
  PROVE  ReasonsSound(m2, tr, rs)
  BY DEF ReasonsSound, ReasonOf

\* Relocation in order gives different clauses different places, below the
\* new top.
LEMMA RelocationInjective ==
  ASSUME NEW S \in SUBSET Nat, IsFiniteSet(S)
  PROVE  LET new(c) == Cardinality({d \in S : d < c})
         IN  /\ \A c \in S : new(c) \in 0 .. Cardinality(S) - 1
             /\ \A c, d \in S : new(c) = new(d) => c = d
<1>. DEFINE below(c) == {d \in S : d < c}
            new(c) == Cardinality(below(c))
<1>1. Cardinality(S) \in Nat
  BY FS_CardinalityType
<1>2. \A c \in S : IsFiniteSet(below(c)) /\ new(c) \in Nat /\ new(c) <= Cardinality(S)
  BY FS_Subset, FS_CardinalityType
<1>3. \A c \in S : new(c) # Cardinality(S)
  <2>. SUFFICES ASSUME NEW c \in S, new(c) = Cardinality(S) PROVE FALSE
    OBVIOUS
  <2>1. below(c) = S
    BY FS_Subset
  <2>. QED
    BY <2>1
<1>4. ASSUME NEW c \in S, NEW d \in S, c < d PROVE new(c) # new(d)
  <2>0. c \in Nat /\ d \in Nat /\ \A x \in S : x \in Nat
    OBVIOUS
  <2>1. below(c) \in SUBSET below(d) /\ c \in below(d) /\ c \notin below(c)
    <3>1. \A x \in S : x < c => x < d
      BY <2>0, <1>4
    <3>2. ~(c < c)
      BY <2>0
    <3>. QED
      BY <3>1, <3>2, <1>4, Zenon
  <2>2. below(c) # below(d)
    BY <2>1
  <2>. QED
    BY <2>1, <2>2, <1>2, FS_Subset
<1>5. ASSUME NEW c \in S, NEW d \in S, new(c) = new(d) PROVE c = d
  <2>1. c < d \/ d < c \/ c = d
    OBVIOUS
  <2>. QED
    BY <2>1, <1>4, <1>5
<1>. QED
  BY <1>1, <1>2, <1>3, <1>5

-----------------------------------------------------------------------------
(* Lists and clauses *)

\* After cleanAll no list leads to a removed clause.
LEMMA CleanedSound ==
  ASSUME AInv
  PROVE  /\ Cleaned \in [Literal -> SUBSET Nat]
         /\ \A l \in Literal : Cleaned[l] \subseteq InUse(ca)
         /\ ListsSound(ca, Cleaned, {}, clauses \cup learnts)
<1>1. \A l \in Literal : watches[l] \subseteq DOMAIN ca /\ DOMAIN ca \subseteq Nat
  BY DEF AInv, Region, ListsSound
<1>2. \A l \in Literal : Cleaned[l] \subseteq watches[l] /\ Cleaned[l] \subseteq InUse(ca)
  BY <1>1 DEF Cleaned, AInv, ListsSound, InUse
<1>3. \A l \in Literal, c \in InUse(ca) : c \in Cleaned[l] <=> c \in watches[l]
  BY DEF Cleaned, InUse
<1>4. Cleaned \in [Literal -> SUBSET Nat]
  BY <1>1, <1>2 DEF Cleaned
<1>. QED
  BY <1>1, <1>2, <1>3, <1>4 DEF AInv, ListsSound

\* A step that starts to propagate and leaves the clauses alone.
LEMMA StartSound ==
  ASSUME AInv, visiting = {}, StartPropagate, UNCHANGED <<arenaVars, visiting>>,
         TrailInv', reason' \in [Var -> Int], ReasonsSound(ca, trail', reason')
  PROVE  AInv'
<1>1. Region(ca, top)' /\ ListsSound(ca, watches, dirty, clauses \cup learnts)'
  BY CleanedSound DEF AInv, StartPropagate, arenaVars, Region, ListsSound, InUse, Heads,
    ArenaClause, ProperSeq
<1>2. VisitInv'
  BY CleanedSound DEF StartPropagate, VisitInv, arenaVars
<1>3. ReasonsSound(ca, trail, reason)'
  BY DEF arenaVars, ReasonsSound, ReasonOf, InUse
<1>. QED
  BY <1>1, <1>2, <1>3 DEF AInv

\* alloc and attachClause.
LEMMA AttachSound ==
  ASSUME AInv, NEW lits \in ProperSeq, NEW learnt \in BOOLEAN, Attach(lits, learnt),
         (clauses \cup learnts)' = (clauses \cup learnts) \cup {top}, dirty' = dirty
  PROVE  /\ Region(ca, top)' /\ watches' \in [Literal -> SUBSET Nat]
         /\ ListsSound(ca, watches, dirty, clauses \cup learnts)'
         /\ top \in InUse(ca') /\ ca'[top].lits = lits
         /\ \A c \in InUse(ca) : c \in InUse(ca') /\ ca'[c] = ca[c]
<1>. DEFINE new == [lits |-> lits, learnt |-> learnt, mark |-> 0]
<1>1. /\ top \in Nat /\ top \notin DOMAIN ca /\ DOMAIN ca \subseteq 0 .. top - 1
      /\ \A c \in DOMAIN ca : ca[c] \in ArenaClause
  BY DEF AInv, Region
<1>2. /\ DOMAIN ca' = DOMAIN ca \cup {top} /\ ca'[top] = new
      /\ \A c \in DOMAIN ca : ca'[c] = ca[c]
      /\ ca' = [c \in DOMAIN ca' |-> ca'[c]]
  BY <1>1 DEF Attach
<1>3. new \in ArenaClause
  BY DEF ArenaClause
<1>4. Region(ca, top)'
  <2>1. top' = top + 1 /\ DOMAIN ca' \subseteq 0 .. top' - 1
    BY <1>1, <1>2 DEF Attach
  <2>2. \A c \in DOMAIN ca' : ca'[c] \in ArenaClause
    BY <1>1, <1>2, <1>3
  <2>3. ca' \in [DOMAIN ca' -> ArenaClause]
    BY <2>2, <1>2
  <2>. QED
    BY <1>1, <2>1, <2>3 DEF Region, ArenaClause, ProperSeq
<1>5. InUse(ca') = InUse(ca) \cup {top}
  BY <1>1, <1>2 DEF InUse
<1>6. \A l \in Literal : watches'[l] = IF -l \in {lits[1], lits[2]} THEN watches[l] \cup {top}
                                       ELSE watches[l]
  BY DEF Attach
<1>7. watches' \in [Literal -> SUBSET Nat]
  BY <1>1 DEF AInv, VisitInv, Attach
<1>8. ListsSound(ca, watches, dirty, clauses \cup learnts)'
  <2>1. (clauses \cup learnts)' = InUse(ca')
    BY <1>5 DEF AInv, ListsSound
  <2>2. \A c \in InUse(ca'), l \in Literal : c \in watches'[l] <=> -l \in Heads(ca', c)
    <3>1. ASSUME NEW c \in InUse(ca), NEW l \in Literal
          PROVE  c \in watches'[l] <=> -l \in Heads(ca', c)
      <4>1. c # top /\ Heads(ca', c) = Heads(ca, c)
        BY <1>1, <1>2 DEF InUse, Heads
      <4>. QED
        BY <4>1, <1>6, ZenonT(40) DEF AInv, ListsSound
    <3>2. ASSUME NEW l \in Literal PROVE top \in watches'[l] <=> -l \in Heads(ca', top)
      <4>1. Heads(ca', top) = {lits[1], lits[2]} /\ top \notin watches[l]
        BY <1>1, <1>2 DEF Heads, AInv, ListsSound
      <4>. QED
        BY <4>1, <1>6
    <3>. QED
      BY <3>1, <3>2, <1>5
  <2>3. ASSUME NEW l \in Literal, NEW d \in watches'[l]
        PROVE  d \in DOMAIN ca' /\ (l \notin dirty' => d \in InUse(ca'))
    <3>1. d = top \/ d \in watches[l]
      BY <1>6
    <3>2. d \in watches[l] => d \in DOMAIN ca /\ (l \notin dirty => d \in InUse(ca))
      BY DEF AInv, ListsSound
    <3>. QED
      BY <3>1, <3>2, <1>2, <1>5
  <2>. QED
    BY <2>1, <2>2, <2>3 DEF ListsSound, InUse, Heads
<1>. QED
  BY <1>1, <1>2, <1>4, <1>5, <1>7, <1>8 DEF InUse

\* The literals of one clause are exchanged, and it is watched by the ones
\* that come first then.
LEMMA RewriteSound ==
  ASSUME AInv, NEW c \in InUse(ca), NEW s \in ProperSeq, ca' = [ca EXCEPT ![c].lits = s],
         UNCHANGED <<top, clauses, learnts, dirty>>, watches' \in [Literal -> SUBSET Nat],
         \A l \in Literal : c \in watches'[l] <=> -l \in {s[1], s[2]},
         \A l \in Literal : \A d : d # c => (d \in watches'[l] <=> d \in watches[l])
  PROVE  /\ Region(ca, top)' /\ ListsSound(ca, watches, dirty, clauses \cup learnts)'
         /\ InUse(ca') = InUse(ca) /\ ca'[c].lits = s
         /\ \A d \in DOMAIN ca : d # c => ca'[d] = ca[d]
<1>1. /\ DOMAIN ca' = DOMAIN ca /\ c \in DOMAIN ca /\ ca' = [d \in DOMAIN ca' |-> ca'[d]]
      /\ \A d \in DOMAIN ca : d # c => ca'[d] = ca[d]
      /\ ca[c] \in ArenaClause /\ ca'[c] = [ca[c] EXCEPT !.lits = s]
      /\ \A d \in DOMAIN ca : ca[d] \in ArenaClause
  BY DEF AInv, Region, InUse
<1>2. ca'[c] \in ArenaClause /\ ca'[c].lits = s /\ ca'[c].mark = ca[c].mark
  BY <1>1 DEF ArenaClause
<1>3. InUse(ca') = InUse(ca)
  BY <1>1, <1>2 DEF InUse
<1>4. Region(ca, top)'
  <2>1. \A d \in DOMAIN ca' : ca'[d] \in ArenaClause
    BY <1>1, <1>2
  <2>. QED
    BY <2>1, <1>1 DEF AInv, Region, ArenaClause, ProperSeq
<1>5. ASSUME NEW d \in InUse(ca), NEW l \in Literal PROVE d \in watches'[l] <=> -l \in Heads(ca', d)
  <2>1. CASE d = c
    BY <2>1, <1>2 DEF Heads
  <2>2. CASE d # c
    <3>1. Heads(ca', d) = Heads(ca, d)
      BY <2>2, <1>1 DEF Heads, InUse
    <3>. QED
      BY <3>1, <2>2 DEF AInv, ListsSound
  <2>. QED
    BY <2>1, <2>2
<1>6. ASSUME NEW l \in Literal, NEW d \in watches'[l]
      PROVE  d \in DOMAIN ca' /\ (l \notin dirty' => d \in InUse(ca'))
  <2>1. d = c \/ d \in watches[l]
    OBVIOUS
  <2>2. d \in watches[l] => d \in DOMAIN ca /\ (l \notin dirty => d \in InUse(ca))
    BY DEF AInv, ListsSound
  <2>. QED
    BY <2>1, <2>2, <1>1, <1>3
<1>7. ListsSound(ca, watches, dirty, clauses \cup learnts)'
  BY <1>3, <1>5, <1>6 DEF AInv, ListsSound, InUse, Heads
<1>. QED
  BY <1>1, <1>2, <1>3, <1>4, <1>7

-----------------------------------------------------------------------------
(* propagate *)

\* The clause propagate visits is in use, and once the false literal is second
\* it has the literals it had; one that is the reason of a literal on the trail
\* stays as it is.
LEMMA VisitFacts ==
  ASSUME AInv, NEW c \in visiting
  PROVE  LET lits == FalseSecond(c)
             p == trail[qhead]
         IN  /\ pc = "propagate" /\ c \in InUse(ca) /\ p \in Literal /\ c \in watches[p]
             /\ lits \in ProperSeq /\ lits[2] = -p /\ {lits[1], lits[2]} = Heads(ca, c)
             /\ lits[1] \in Literal /\ LitVar(lits[1]) # LitVar(p)
             /\ \A k \in DOMAIN trail : reason[LitVar(trail[k])] = c =>
                  lits = ca[c].lits /\ IsTrue(lits[1])
<1>. DEFINE p == trail[qhead]
            lits == FalseSecond(c)
            old == ca[c].lits
<1>1. pc = "propagate" /\ dirty = {} /\ qhead \in DOMAIN trail /\ c \in watches[p]
  BY DEF AInv, VisitInv
<1>2. p \in Literal
  BY <1>1 DEF AInv, TrailInv, OwnOptions
<1>3. c \in InUse(ca) /\ -p \in Heads(ca, c) /\ ca[c] \in ArenaClause
  BY <1>1, <1>2 DEF AInv, ListsSound, InUse, Region
<1>4. /\ old \in Seq(Literal) /\ Len(old) >= 2 /\ 1 \in DOMAIN old /\ 2 \in DOMAIN old
      /\ \A i, j \in DOMAIN old : LitVar(old[i]) = LitVar(old[j]) => i = j
  BY <1>3 DEF ArenaClause, ProperSeq, ProperClause
<1>5. CASE old[1] = -p
  <2>1. lits = [old EXCEPT ![1] = old[2], ![2] = old[1]]
    BY <1>5 DEF FalseSecond, Exchanged
  <2>2. /\ lits \in Seq(Literal) /\ Len(lits) = Len(old) /\ DOMAIN lits = DOMAIN old
        /\ lits[1] = old[2] /\ lits[2] = old[1]
        /\ \A i \in DOMAIN old : i # 1 /\ i # 2 => lits[i] = old[i]
    BY <2>1, <1>4
  <2>3. \A i, j \in DOMAIN lits : LitVar(lits[i]) = LitVar(lits[j]) => i = j
    BY <2>2, <1>4
  <2>4. lits \in ProperSeq
    BY <2>2, <2>3, <1>4 DEF ProperSeq, ProperClause
  <2>5. lits[2] = -p /\ {lits[1], lits[2]} = Heads(ca, c) /\ lits[1] \in Literal
    BY <2>2, <1>4, <1>5 DEF Heads
  <2>6. LitVar(lits[1]) # LitVar(p)
    BY <2>2, <2>3, <2>5, <1>2, <1>4, LiteralFacts
  <2>7. \A k \in DOMAIN trail : reason[LitVar(trail[k])] # c
    <3>. SUFFICES ASSUME NEW k \in DOMAIN trail, reason[LitVar(trail[k])] = c PROVE FALSE
      OBVIOUS
    <3>1. c # CRef_Undef
      BY <1>3 DEF InUse, AInv, Region, CRef_Undef
    <3>2. trail[k] = -p
      BY <3>1, <1>5 DEF AInv, ReasonsSound, ReasonOf
    <3>3. LitVar(trail[k]) = LitVar(p)
      BY <3>2, <1>2, LiteralFacts
    <3>4. k = qhead
      BY <3>3, <1>1 DEF AInv, TrailInv, OwnOptions
    <3>. QED
      BY <3>2, <3>4, <1>2, LiteralFacts
  <2>. QED
    BY <1>1, <1>2, <1>3, <2>4, <2>5, <2>6, <2>7
<1>6. CASE old[1] # -p
  <2>1. lits = old
    BY <1>6 DEF FalseSecond
  <2>2. old[2] = -p
    BY <1>3, <1>6 DEF Heads
  <2>3. lits \in ProperSeq /\ {lits[1], lits[2]} = Heads(ca, c) /\ lits[1] \in Literal
    BY <2>1, <1>3, <1>4 DEF ArenaClause, Heads
  <2>4. LitVar(lits[1]) # LitVar(p)
    BY <2>1, <2>2, <1>2, <1>4, LiteralFacts
  <2>5. ASSUME NEW k \in DOMAIN trail, reason[LitVar(trail[k])] = c PROVE IsTrue(lits[1])
    <3>1. c # CRef_Undef
      BY <1>3 DEF InUse, AInv, Region, CRef_Undef
    <3>. QED
      BY <3>1, <2>1, <2>5 DEF AInv, ReasonsSound, ReasonOf, IsTrue
  <2>. QED
    BY <1>1, <1>2, <1>3, <2>1, <2>2, <2>3, <2>4, <2>5
<1>. QED
  BY <1>5, <1>6

LEMMA TakeLiteralStep == AInv /\ TakeLiteral => AInv'
<1>. SUFFICES ASSUME AInv, TakeLiteral PROVE AInv'
  OBVIOUS
<1>. USE DEF AInv
<1>1. /\ UNCHANGED <<addVars, pc, arenaVars, watches, dirty, trailVars>>
      /\ qhead' = qhead + 1 /\ qhead < Len(trail) /\ pc = "propagate"
      /\ visiting' = watches[trail[qhead + 1]]
  BY DEF TakeLiteral
<1>2. TrailInv'
  BY <1>1 DEF TrailInv, trailVars, OwnOptions
<1>3. qhead' \in DOMAIN trail'
  BY <1>1 DEF TrailInv, trailVars, OwnOptions
<1>4. VisitInv'
  BY <1>1, <1>3 DEF VisitInv, trailVars
<1>. QED
  BY <1>1, <1>2, <1>4 DEF arenaVars, trailVars, Region, ListsSound, ReasonsSound, ReasonOf, InUse,
    Heads, ArenaClause, ProperSeq

LEMMA PassBlockedStep == ASSUME AInv, NEW c \in visiting, PassBlocked(c) PROVE AInv'
<1>1. /\ UNCHANGED <<addVars, pc, arenaVars, watches, dirty, trailVars, qhead>>
      /\ visiting' = visiting \ {c}
  BY DEF PassBlocked
<1>2. VisitInv' /\ TrailInv'
  BY <1>1 DEF AInv, VisitInv, TrailInv, trailVars, OwnOptions
<1>. QED
  BY <1>1, <1>2 DEF AInv, arenaVars, trailVars, Region, ListsSound, ReasonsSound, ReasonOf, InUse,
    Heads, ArenaClause, ProperSeq

\* What the three visits that keep the watches have in common: the clause is
\* left with the false literal second.
LEMMA FalseSecondSound ==
  ASSUME AInv, NEW c \in visiting, ca' = [ca EXCEPT ![c].lits = FalseSecond(c)],
         UNCHANGED <<top, clauses, learnts, watches, dirty>>
  PROVE  /\ Region(ca, top)' /\ ListsSound(ca, watches, dirty, clauses \cup learnts)'
         /\ InUse(ca') = InUse(ca) /\ ca'[c].lits = FalseSecond(c)
         /\ ReasonsSound(ca', trail, reason)
<1>. DEFINE lits == FalseSecond(c)
<1>1. c \in InUse(ca) /\ lits \in ProperSeq /\ {lits[1], lits[2]} = Heads(ca, c)
  BY VisitFacts
<1>2. \A l \in Literal : c \in watches'[l] <=> -l \in {lits[1], lits[2]}
  BY <1>1 DEF AInv, ListsSound
<1>3. watches' \in [Literal -> SUBSET Nat]
  BY DEF AInv, VisitInv
<1>4. /\ Region(ca, top)' /\ ListsSound(ca, watches, dirty, clauses \cup learnts)'
      /\ InUse(ca') = InUse(ca) /\ ca'[c].lits = lits
      /\ \A d \in DOMAIN ca : d # c => ca'[d] = ca[d]
  BY <1>1, <1>2, <1>3, RewriteSound
<1>5. ASSUME NEW k \in DOMAIN trail, reason[LitVar(trail[k])] \in InUse(ca)
      PROVE  ca'[reason[LitVar(trail[k])]].lits = ca[reason[LitVar(trail[k])]].lits
  BY <1>4, <1>5, VisitFacts DEF InUse
<1>6. ReasonsSound(ca', trail, reason)
  BY <1>4, <1>5, FrameSound DEF AInv
<1>. QED
  BY <1>4, <1>6

LEMMA PassSatisfiedStep == ASSUME AInv, NEW c \in visiting, PassSatisfied(c) PROVE AInv'
<1>1. /\ UNCHANGED <<top, clauses, learnts, watches, dirty, pc, trail, trail_lim, reason, qhead>>
      /\ ca' = [ca EXCEPT ![c].lits = FalseSecond(c)] /\ visiting' = visiting \ {c}
  BY DEF PassSatisfied, trailVars
<1>2. VisitInv' /\ TrailInv'
  BY <1>1 DEF AInv, VisitInv, TrailInv, OwnOptions
<1>3. /\ ReasonsSound(ca', trail, reason) /\ Region(ca, top)'
      /\ ListsSound(ca, watches, dirty, clauses \cup learnts)'
  BY <1>1, FalseSecondSound
<1>4. ReasonsSound(ca, trail, reason)'
  BY <1>1, <1>3 DEF ReasonsSound, ReasonOf, InUse
<1>. QED
  BY <1>2, <1>3, <1>4 DEF AInv

LEMMA FindConflictStep == ASSUME AInv, NEW c \in visiting, FindConflict(c) PROVE AInv'
<1>1. /\ UNCHANGED <<top, clauses, learnts, watches, dirty, trail, trail_lim, reason>>
      /\ ca' = [ca EXCEPT ![c].lits = FalseSecond(c)] /\ visiting' = {}
      /\ qhead' = Len(trail) /\ pc = "propagate" /\ pc' \in {"stopped", "conflict"}
      /\ pc' = "conflict" => trail_lim # <<>>
  BY DEF FindConflict, trailVars, decisionLevel
<1>2. VisitInv' /\ TrailInv'
  BY <1>1 DEF AInv, VisitInv, TrailInv, OwnOptions
<1>3. /\ ReasonsSound(ca', trail, reason) /\ Region(ca, top)'
      /\ ListsSound(ca, watches, dirty, clauses \cup learnts)'
  BY <1>1, FalseSecondSound
<1>4. ReasonsSound(ca, trail, reason)'
  BY <1>1, <1>3 DEF ReasonsSound, ReasonOf, InUse
<1>. QED
  BY <1>2, <1>3, <1>4 DEF AInv

\* All literals but the first are false.
LEMMA RestFalse ==
  ASSUME AInv, NEW c \in visiting, AllFalse(FalseSecond(c))
  PROVE  \A i \in 2 .. Len(FalseSecond(c)) : IsFalse(FalseSecond(c)[i])
<1>. DEFINE lits == FalseSecond(c)
<1>1. lits \in Seq(Literal) /\ lits[2] = -trail[qhead] /\ trail[qhead] \in Literal
  BY VisitFacts DEF ProperSeq
<1>2. qhead \in DOMAIN trail
  BY DEF AInv, VisitInv
<1>3. IsFalse(lits[2])
  BY <1>1, <1>2, LiteralFacts DEF IsFalse
<1>4. \A i \in 2 .. Len(lits) : i = 2 \/ i \in 3 .. Len(lits)
  BY <1>1
<1>. QED
  BY <1>3, <1>4 DEF AllFalse

LEMMA ImplyFirstStep == ASSUME AInv, NEW c \in visiting, ImplyFirst(c) PROVE AInv'
<1>. DEFINE lits == FalseSecond(c)
<1>1. /\ UNCHANGED <<top, clauses, learnts, watches, dirty, pc, trail_lim, qhead>>
      /\ ca' = [ca EXCEPT ![c].lits = lits] /\ visiting' = visiting \ {c}
      /\ AllFalse(lits) /\ ~IsTrue(lits[1]) /\ ~IsFalse(lits[1])
      /\ trail' = Append(trail, lits[1])
      /\ reason' = [reason EXCEPT ![LitVar(lits[1])] = c]
  BY DEF ImplyFirst, Enqueue
<1>2. /\ InUse(ca') = InUse(ca) /\ ca'[c].lits = lits /\ ReasonsSound(ca', trail, reason)
      /\ Region(ca, top)' /\ ListsSound(ca, watches, dirty, clauses \cup learnts)'
  BY <1>1, FalseSecondSound
<1>3. lits[1] \in Literal /\ c \in InUse(ca) /\ c \in Int
  BY VisitFacts DEF InUse, AInv, Region
<1>4. UnsetIn(trail, lits[1])
  BY <1>1 DEF UnsetIn, IsTrue, IsFalse
<1>5. \A i \in 2 .. Len(lits) : FalseIn(trail, lits[i])
  BY <1>1, RestFalse DEF FalseIn, IsFalse
<1>6. /\ OwnOptions(trail') /\ ReasonsSound(ca', trail', reason')
      /\ reason' \in [Var -> Int] /\ Len(trail') = Len(trail) + 1
  <2>1. OwnOptions(trail) /\ reason \in [Var -> Int]
    BY DEF AInv, TrailInv, VisitInv
  <2>2. c # CRef_Undef =>
          /\ c \in InUse(ca') /\ ca'[c].lits[1] = lits[1]
          /\ \A i \in 2 .. Len(ca'[c].lits) : FalseIn(trail, ca'[c].lits[i])
    BY <1>2, <1>3, <1>5
  <2>3. ReasonsSound(ca', trail, reason)
    BY <1>2
  <2>. HIDE DEF lits
  <2>4. OwnOptions(trail') /\ Len(trail') = Len(trail) + 1
    BY <1>1, <1>3, <1>4, <2>1, AppendOwn
  <2>5. ReasonsSound(ca', trail', reason')
    BY <1>1, <1>3, <1>4, <2>1, <2>2, <2>3, EnqueueSound
  <2>6. reason' \in [Var -> Int]
    BY <1>1, <1>3, <2>1
  <2>. QED
    BY <2>4, <2>5, <2>6
<1>7. TrailInv'
  BY <1>1, <1>6 DEF AInv, TrailInv, OwnOptions
<1>8. VisitInv'
  BY <1>1, <1>6, SMTT(30) DEF AInv, VisitInv, TrailInv, OwnOptions
<1>9. ReasonsSound(ca, trail, reason)'
  BY <1>6 DEF ReasonsSound, ReasonOf, InUse
<1>. QED
  BY <1>2, <1>7, <1>8, <1>9 DEF AInv

\* The clause leaves the list that is walked for that of its new watch.
LEMMA MoveWatchStep == ASSUME AInv, NEW c \in visiting, MoveWatch(c) PROVE AInv'
<1>. DEFINE lits == FalseSecond(c)
            p == trail[qhead]
<1>1. PICK k \in NewWatch(lits) :
        /\ ca' = [ca EXCEPT ![c].lits = Exchanged(lits, 2, k)]
        /\ watches' = [watches EXCEPT ![p] = @ \ {c}, ![-lits[k]] = @ \cup {c}]
  BY DEF MoveWatch
<1>2. /\ UNCHANGED <<top, clauses, learnts, dirty, pc, trail, trail_lim, reason, qhead>>
      /\ visiting' = visiting \ {c} /\ ~IsTrue(lits[1])
  BY DEF MoveWatch, trailVars
<1>. DEFINE s == Exchanged(lits, 2, k)
<1>3. /\ c \in InUse(ca) /\ p \in Literal /\ lits \in ProperSeq /\ lits[2] = -p
      /\ {lits[1], lits[2]} = Heads(ca, c)
  BY VisitFacts
<1>4. /\ lits \in Seq(Literal) /\ Len(lits) >= 2 /\ k \in 3 .. Len(lits)
      /\ \A i, j \in DOMAIN lits : LitVar(lits[i]) = LitVar(lits[j]) => i = j
  BY <1>1, <1>3 DEF ProperSeq, ProperClause, NewWatch
<1>5. /\ s \in Seq(Literal) /\ Len(s) = Len(lits) /\ DOMAIN s = DOMAIN lits
      /\ s[1] = lits[1] /\ s[2] = lits[k] /\ s[k] = lits[2]
      /\ \A i \in DOMAIN lits : i # 2 /\ i # k => s[i] = lits[i]
  BY <1>4 DEF Exchanged
<1>6. s \in ProperSeq
  <2>1. \A i, j \in DOMAIN s : LitVar(s[i]) = LitVar(s[j]) => i = j
    BY <1>4, <1>5, SMTT(30)
  <2>. QED
    BY <2>1, <1>4, <1>5 DEF ProperSeq, ProperClause
<1>7. /\ -lits[k] \in Literal /\ -lits[k] # p /\ lits[k] \in Literal /\ -(-lits[k]) = lits[k]
      /\ lits[1] # lits[2] /\ lits[k] # lits[2] /\ lits[1] \in Literal /\ lits[2] \in Literal
  BY <1>3, <1>4, LiteralFacts
<1>8. watches' \in [Literal -> SUBSET Nat]
  BY <1>1, <1>3, <1>7 DEF AInv, VisitInv, InUse, Region
<1>9. \A l \in Literal : watches'[l] = IF l = p THEN watches[l] \ {c}
                                       ELSE IF l = -lits[k] THEN watches[l] \cup {c}
                                       ELSE watches[l]
  BY <1>1, <1>3, <1>7 DEF AInv, VisitInv
<1>10. ASSUME NEW l \in Literal PROVE c \in watches'[l] <=> -l \in {s[1], s[2]}
  <2>1. c \in watches[l] <=> -l \in {lits[1], lits[2]}
    BY <1>3 DEF AInv, ListsSound
  <2>2. CASE l = p
    BY <2>2, <1>3, <1>5, <1>7, <1>9
  <2>3. CASE l = -lits[k]
    BY <2>3, <1>5, <1>7, <1>9
  <2>4. CASE l # p /\ l # -lits[k]
    <3>1. -l # lits[2] /\ -l # lits[k]
      BY <2>4, <1>3, <1>7, LiteralFacts
    <3>. QED
      BY <3>1, <2>1, <2>4, <1>5, <1>9
  <2>. QED
    BY <2>2, <2>3, <2>4
<1>11. \A l \in Literal : \A d : d # c => (d \in watches'[l] <=> d \in watches[l])
  BY <1>9
<1>12. /\ Region(ca, top)' /\ ListsSound(ca, watches, dirty, clauses \cup learnts)'
       /\ InUse(ca') = InUse(ca) /\ \A d \in DOMAIN ca : d # c => ca'[d] = ca[d]
  BY <1>1, <1>2, <1>3, <1>6, <1>8, <1>10, <1>11, RewriteSound
<1>13. \A j \in DOMAIN trail : reason[LitVar(trail[j])] # c
  BY <1>2, VisitFacts
<1>14. ReasonsSound(ca', trail, reason)
  BY <1>12, <1>13, FrameSound DEF AInv, InUse
<1>15. ReasonsSound(ca, trail, reason)'
  BY <1>2, <1>14 DEF ReasonsSound, ReasonOf, InUse
<1>16. VisitInv' /\ TrailInv'
  <2>1. visiting' \subseteq watches'[p] \/ visiting' = {}
    BY <1>2, <1>3, <1>9 DEF AInv, VisitInv
  <2>. QED
    BY <2>1, <1>2, <1>8 DEF AInv, VisitInv, TrailInv, OwnOptions
<1>. QED
  BY <1>12, <1>15, <1>16 DEF AInv

LEMMA NoConflictStep == AInv /\ NoConflict => AInv'
<1>. SUFFICES ASSUME AInv, NoConflict PROVE AInv'
  OBVIOUS
<1>1. UNCHANGED <<arenaVars, watches, dirty, trailVars, qhead, visiting>> /\ visiting = {}
      /\ pc' \notin {"propagate", "conflict"}
  BY DEF NoConflict
<1>2. VisitInv' /\ TrailInv'
  BY <1>1 DEF AInv, VisitInv, TrailInv, trailVars, OwnOptions
<1>. QED
  BY <1>1, <1>2 DEF AInv, arenaVars, trailVars, Region, ListsSound, ReasonsSound, ReasonOf, InUse,
    Heads, ArenaClause, ProperSeq

-----------------------------------------------------------------------------
(* Adding, learning, deciding *)

LEMMA NotVisiting == AInv /\ pc # "propagate" => visiting = {}
  BY DEF AInv, VisitInv

\* addClause_ leaves literals of options of their own.
LEMMA SortedProper ==
  ASSUME NEW S \in SUBSET Literal, IsFiniteSet(S), Cardinality(S) \notin {0, 1},
         NEW lits \in Sorted(S)
  PROVE  lits \in ProperSeq
<1>1. Cardinality(S) \in Nat /\ Cardinality(S) >= 2
  BY FS_CardinalityType
<1>2. lits \in [1 .. Cardinality(S) -> Literal]
  BY DEF Sorted
<1>3. lits \in Seq(Literal) /\ Len(lits) = Cardinality(S)
  BY <1>1, <1>2
<1>4. ASSUME NEW i \in DOMAIN lits, NEW j \in DOMAIN lits, LitVar(lits[i]) = LitVar(lits[j])
      PROVE  i = j
  <2>1. i \in 1 .. Cardinality(S) /\ j \in 1 .. Cardinality(S)
    BY <1>2
  <2>2. LitVar(lits[i]) \in Int /\ LitVar(lits[j]) \in Int
    BY <1>2, <2>1, LiteralFacts DEF Var
  <2>3. ~(i < j) /\ ~(j < i)
    BY <2>1, <2>2, <1>4 DEF Sorted
  <2>. QED
    BY <2>1, <2>3, <1>1
<1>. QED
  BY <1>1, <1>3, <1>4 DEF ProperSeq, ProperClause

\* A new fact at the end of the trail, without a reason.
LEMMA FactSound ==
  ASSUME AInv, NEW l \in Literal, ~IsTrue(l), ~IsFalse(l), Enqueue(trail, l, CRef_Undef)
  PROVE  /\ OwnOptions(trail') /\ Len(trail') = Len(trail) + 1
         /\ reason' \in [Var -> Int] /\ ReasonsSound(ca, trail', reason')
<1>1. trail' = Append(trail, l) /\ reason' = [reason EXCEPT ![LitVar(l)] = CRef_Undef]
  BY DEF Enqueue
<1>2. OwnOptions(trail) /\ reason \in [Var -> Int] /\ ReasonsSound(ca, trail, reason)
  BY DEF AInv, TrailInv, VisitInv
<1>3. UnsetIn(trail, l) /\ CRef_Undef \in Int
  BY DEF UnsetIn, IsTrue, IsFalse, CRef_Undef
<1>4. OwnOptions(trail') /\ Len(trail') = Len(trail) + 1
  BY <1>1, <1>2, <1>3, AppendOwn
<1>5. ReasonsSound(ca, trail', reason')
  BY <1>1, <1>2, <1>3, EnqueueSound
<1>6. reason' \in [Var -> Int]
  BY <1>1, <1>2, <1>3
<1>. QED
  BY <1>4, <1>5, <1>6

LEMMA AddClauseStep == AInv /\ AddedInv /\ AddClause => AInv'
<1>. SUFFICES ASSUME AInv, AddedInv, AddClause PROVE AInv'
  OBVIOUS
<1>. DEFINE S == {l \in Range(formula[added + 1]) : ~IsFalse(l)}
<1>1. /\ pc = "add" /\ added < Len(formula) /\ UNCHANGED <<formula, qhead, visiting, conflicts>>
      /\ visiting = {}
  BY NotVisiting DEF AddClause
<1>2. S \subseteq Literal /\ IsFiniteSet(S)
  <2>1. formula \in Seq(Clause) /\ added + 1 \in DOMAIN formula
    BY <1>1, ArenaAssumption DEF AddedInv
  <2>2. formula[added + 1] \in Seq(Literal)
    BY <2>1 DEF Clause
  <2>3. S \subseteq Literal
    BY <2>2 DEF Range
  <2>4. Literal \subseteq -NumVar .. NumVar /\ IsFiniteSet(-NumVar .. NumVar)
    BY NumVarAssumption, FS_Interval DEF Literal
  <2>. QED
    BY <2>3, <2>4, FS_Subset
<1>3. CASE pc' \in {pc, "stopped"} /\ UNCHANGED <<arenaVars, watches, dirty, trailVars>>
  <2>1. VisitInv' /\ TrailInv'
    BY <1>1, <1>3 DEF AInv, VisitInv, TrailInv, trailVars, OwnOptions
  <2>. QED
    BY <1>3, <2>1 DEF AInv, arenaVars, trailVars, Region, ListsSound, ReasonsSound, ReasonOf,
      InUse, Heads, ArenaClause, ProperSeq
<1>4. ASSUME NEW lits \in Sorted(S), \A l \in S : ~IsTrue(l), Cardinality(S) = 1,
             Enqueue(trail, lits[1], CRef_Undef), StartPropagate, UNCHANGED <<arenaVars, trail_lim>>
      PROVE  AInv'
  <2>1. lits[1] \in S
    BY <1>4 DEF Sorted
  <2>2. lits[1] \in Literal /\ ~IsTrue(lits[1]) /\ ~IsFalse(lits[1])
    BY <2>1, <1>2, <1>4
  <2>3. /\ OwnOptions(trail') /\ Len(trail') = Len(trail) + 1
        /\ reason' \in [Var -> Int] /\ ReasonsSound(ca, trail', reason')
    BY <2>2, <1>4, FactSound
  <2>4. TrailInv'
    BY <2>3, <1>1, <1>4 DEF AInv, TrailInv, OwnOptions
  <2>. QED
    BY <2>3, <2>4, <1>1, <1>4, StartSound
<1>5. ASSUME NEW lits \in Sorted(S), Cardinality(S) \notin {0, 1}, Attach(lits, FALSE),
             clauses' = clauses \cup {top}, UNCHANGED <<pc, wasted_, learnts, dirty, trailVars>>
      PROVE  AInv'
  <2>1. lits \in ProperSeq
    BY <1>2, <1>5, SortedProper
  <2>2. /\ Region(ca, top)' /\ watches' \in [Literal -> SUBSET Nat]
        /\ ListsSound(ca, watches, dirty, clauses \cup learnts)'
        /\ \A c \in InUse(ca) : c \in InUse(ca') /\ ca'[c] = ca[c]
    BY <2>1, <1>5, AttachSound
  <2>3. ReasonsSound(ca', trail, reason)
    BY <2>2, FrameSound DEF AInv
  <2>4. ReasonsSound(ca, trail, reason)'
    BY <2>3, <1>5 DEF trailVars, ReasonsSound, ReasonOf, InUse
  <2>5. VisitInv' /\ TrailInv'
    BY <1>1, <1>5, <2>2 DEF AInv, VisitInv, TrailInv, trailVars, OwnOptions
  <2>. QED
    BY <2>2, <2>4, <2>5 DEF AInv
<1>6. CASE S = {}
  <2>1. Cardinality(S) # 1 /\ ~ \E l \in S : IsTrue(l) \/ -l \in S
    BY <1>6, FS_EmptySet
  <2>2. pc' \in {pc, "stopped"} /\ UNCHANGED <<arenaVars, watches, dirty, trailVars>>
    BY <1>6, <2>1 DEF AddClause
  <2>. QED
    BY <2>2, <1>3
<1>7. Cardinality(S) = 0 => S = {}
  BY <1>2, FS_EmptySet
<1>8. CASE S # {}
  <2>1. CASE \E l \in S : IsTrue(l) \/ -l \in S
    BY <2>1, <1>3 DEF AddClause
  <2>2. CASE ~ \E l \in S : IsTrue(l) \/ -l \in S
    <3>1. PICK lits \in Sorted(S) :
            CASE S = {} ->
                   pc' = "stopped" /\ UNCHANGED <<arenaVars, watches, dirty, trailVars>>
              [] Cardinality(S) = 1 ->
                   /\ Enqueue(trail, lits[1], CRef_Undef)
                   /\ StartPropagate
                   /\ UNCHANGED <<arenaVars, trail_lim>>
              [] OTHER ->
                   /\ Attach(lits, FALSE)
                   /\ clauses' = clauses \cup {top}
                   /\ UNCHANGED <<pc, wasted_, learnts, dirty, trailVars>>
      BY <2>2 DEF AddClause
    <3>2. CASE Cardinality(S) = 1
      <4>1. /\ Enqueue(trail, lits[1], CRef_Undef) /\ StartPropagate
            /\ UNCHANGED <<arenaVars, trail_lim>>
        BY <3>1, <3>2, <1>8
      <4>. QED
        BY <4>1, <3>2, <2>2, <1>4
    <3>3. CASE Cardinality(S) # 1
      <4>1. /\ Attach(lits, FALSE) /\ clauses' = clauses \cup {top}
            /\ UNCHANGED <<pc, wasted_, learnts, dirty, trailVars>>
        BY <3>1, <3>3, <1>8
      <4>. QED
        BY <4>1, <3>3, <1>7, <1>8, <1>5
    <3>. QED
      BY <3>2, <3>3
  <2>. QED
    BY <2>1, <2>2
<1>. QED
  BY <1>6, <1>8

LEMMA SolveStep == AInv /\ Solve => AInv'
<1>. SUFFICES ASSUME AInv, Solve PROVE AInv'
  OBVIOUS
<1>1. visiting = {} /\ StartPropagate /\ UNCHANGED <<arenaVars, trailVars, qhead, visiting>>
  BY NotVisiting DEF Solve
<1>2. TrailInv' /\ reason' \in [Var -> Int] /\ ReasonsSound(ca, trail', reason')
  BY <1>1 DEF AInv, TrailInv, VisitInv, OwnOptions, trailVars, ReasonsSound, ReasonOf
<1>. QED
  BY <1>1, <1>2, StartSound

LEMMA DecideStep == ASSUME AInv, NEW l \in Literal, Decide(l) PROVE AInv'
<1>1. /\ visiting = {} /\ StartPropagate /\ UNCHANGED <<arenaVars, qhead, visiting>>
      /\ trail_lim' = Append(trail_lim, Len(trail))
  BY NotVisiting DEF Decide
<1>2. /\ OwnOptions(trail') /\ Len(trail') = Len(trail) + 1
      /\ reason' \in [Var -> Int] /\ ReasonsSound(ca, trail', reason')
  BY FactSound DEF Decide
<1>3. TrailInv'
  <2>1. trail_lim \in Seq(Nat) /\ Len(trail) \in Nat
    BY DEF AInv, TrailInv, OwnOptions
  <2>2. /\ trail_lim' \in Seq(Nat) /\ DOMAIN trail_lim' = 1 .. Len(trail_lim) + 1
        /\ trail_lim'[Len(trail_lim) + 1] = Len(trail)
        /\ \A i \in 1 .. Len(trail_lim) : trail_lim'[i] = trail_lim[i]
    BY <1>1, <2>1
  <2>3. /\ \A i \in 1 .. Len(trail_lim) : trail_lim[i] <= Len(trail) /\ trail_lim[i] \in Nat
        /\ \A i, j \in 1 .. Len(trail_lim) : i <= j => trail_lim[i] <= trail_lim[j]
    BY <2>1, SMTT(30) DEF AInv, TrailInv
  <2>4. \A i \in DOMAIN trail_lim' : trail_lim'[i] <= Len(trail)
    BY <2>1, <2>2, <2>3, SMTT(30)
  <2>5. ASSUME NEW i \in DOMAIN trail_lim', NEW j \in DOMAIN trail_lim', i <= j
        PROVE  trail_lim'[i] <= trail_lim'[j]
    <3>1. CASE j = Len(trail_lim) + 1
      BY <3>1, <2>2, <2>4
    <3>2. CASE j # Len(trail_lim) + 1
      <4>1. i \in 1 .. Len(trail_lim) /\ j \in 1 .. Len(trail_lim)
        BY <3>2, <2>1, <2>2, <2>5, SMTT(30)
      <4>. QED
        BY <4>1, <2>2, <2>3, <2>5
    <3>. QED
      BY <3>1, <3>2
  <2>6. \A i \in DOMAIN trail_lim' : trail_lim'[i] <= Len(trail')
    BY <1>2, <2>1, <2>2, <2>4
  <2>7. qhead' \in 0 .. Len(trail')
    BY <1>1, <1>2, <2>1 DEF AInv, TrailInv
  <2>. QED
    BY <1>2, <2>2, <2>5, <2>6, <2>7 DEF TrailInv
<1>. QED
  BY <1>1, <1>2, <1>3, StartSound

\* cancelUntil to a level below the current one.
LEMMA CancelFacts ==
  ASSUME AInv, NEW level \in 0 .. decisionLevel - 1
  PROVE  /\ trail_lim[level + 1] \in 0 .. Len(trail)
         /\ Len(Kept(level)) = trail_lim[level + 1]
         /\ OwnOptions(Kept(level)) /\ ReasonsSound(ca, Kept(level), reason)
         /\ SubSeq(trail_lim, 1, level) \in Seq(Nat)
         /\ \A i \in DOMAIN SubSeq(trail_lim, 1, level) :
              SubSeq(trail_lim, 1, level)[i] <= trail_lim[level + 1]
         /\ \A i, j \in DOMAIN SubSeq(trail_lim, 1, level) :
              i <= j => SubSeq(trail_lim, 1, level)[i] <= SubSeq(trail_lim, 1, level)[j]
<1>1. trail_lim \in Seq(Nat) /\ level + 1 \in DOMAIN trail_lim /\ Len(trail) \in Nat
  BY DEF AInv, TrailInv, OwnOptions, decisionLevel
<1>2. trail_lim[level + 1] \in 0 .. Len(trail)
  BY <1>1 DEF AInv, TrailInv
<1>3. Kept(level) = SubSeq(trail, 1, trail_lim[level + 1])
  BY <1>1 DEF Kept, decisionLevel
<1>. DEFINE n == trail_lim[level + 1]
<1>4. OwnOptions(Kept(level)) /\ Len(Kept(level)) = n /\ ReasonsSound(ca, Kept(level), reason)
  <2>1. OwnOptions(trail) /\ ReasonsSound(ca, trail, reason) /\ n \in 0 .. Len(trail)
    BY <1>2 DEF AInv, TrailInv
  <2>2. /\ OwnOptions(SubSeq(trail, 1, n)) /\ Len(SubSeq(trail, 1, n)) = n
        /\ ReasonsSound(ca, SubSeq(trail, 1, n), reason)
    BY <2>1, PrefixSound
  <2>. QED
    BY <2>2, <1>3
<1>5. /\ SubSeq(trail_lim, 1, level) \in Seq(Nat)
      /\ DOMAIN SubSeq(trail_lim, 1, level) = 1 .. level
      /\ \A i \in 1 .. level : SubSeq(trail_lim, 1, level)[i] = trail_lim[i]
  BY <1>1, SMTT(30)
<1>6. \A i, j \in 1 .. level + 1 : i <= j => trail_lim[i] <= trail_lim[j]
  BY <1>1, SMTT(30) DEF AInv, TrailInv
<1>7. \A i \in 1 .. level : trail_lim[i] <= n
  BY <1>1, <1>6
<1>8. \A i \in DOMAIN SubSeq(trail_lim, 1, level) : SubSeq(trail_lim, 1, level)[i] <= n
  BY <1>5, <1>7
<1>9. \A i, j \in DOMAIN SubSeq(trail_lim, 1, level) :
        i <= j => SubSeq(trail_lim, 1, level)[i] <= SubSeq(trail_lim, 1, level)[j]
  BY <1>5, <1>6
<1>. QED
  BY <1>2, <1>4, <1>5, <1>8, <1>9

LEMMA BackToRootStep == AInv /\ BackToRoot => AInv'
<1>. SUFFICES ASSUME AInv, BackToRoot PROVE AInv'
  OBVIOUS
<1>1. /\ visiting = {} /\ StartPropagate /\ UNCHANGED <<arenaVars, visiting, reason>>
      /\ 0 \in 0 .. decisionLevel - 1
      /\ trail' = Kept(0) /\ trail_lim' = SubSeq(trail_lim, 1, 0) /\ qhead' = trail_lim[1]
  BY NotVisiting DEF BackToRoot, CancelUntil, AInv, TrailInv, decisionLevel
<1>2. /\ trail_lim[1] \in 0 .. Len(trail) /\ Len(trail') = trail_lim[1]
      /\ OwnOptions(trail') /\ ReasonsSound(ca, trail', reason)
      /\ trail_lim' \in Seq(Nat)
      /\ \A i \in DOMAIN trail_lim' : trail_lim'[i] <= Len(trail')
      /\ \A i, j \in DOMAIN trail_lim' : i <= j => trail_lim'[i] <= trail_lim'[j]
  BY <1>1, CancelFacts
<1>3. TrailInv'
  BY <1>1, <1>2 DEF TrailInv
<1>4. reason' \in [Var -> Int] /\ ReasonsSound(ca, trail', reason')
  BY <1>1, <1>2 DEF AInv, VisitInv
<1>. QED
  BY <1>1, <1>3, <1>4, StartSound

\* The trail after a jump back that asserts a literal.
LEMMA JumpFacts ==
  ASSUME AInv, NEW level \in 0 .. decisionLevel - 1, NEW l \in Literal, UnsetIn(Kept(level), l),
         trail_lim' = SubSeq(trail_lim, 1, level), qhead' = trail_lim[level + 1],
         trail' = Append(Kept(level), l)
  PROVE  TrailInv'
<1>1. OwnOptions(trail') /\ Len(trail') = Len(Kept(level)) + 1
  BY CancelFacts, AppendOwn
<1>2. /\ trail_lim[level + 1] \in 0 .. Len(trail) /\ Len(trail') = trail_lim[level + 1] + 1
      /\ trail_lim' \in Seq(Nat) /\ Len(trail) \in Nat
      /\ \A i \in DOMAIN trail_lim' : trail_lim'[i] <= trail_lim[level + 1]
      /\ \A i, j \in DOMAIN trail_lim' : i <= j => trail_lim'[i] <= trail_lim'[j]
  <2>1. Len(trail) \in Nat
    BY DEF AInv, TrailInv, OwnOptions
  <2>. QED BY <1>1, <2>1, CancelFacts
<1>3. \A i \in DOMAIN trail_lim' : trail_lim'[i] <= Len(trail')
  <2>1. \A i \in DOMAIN trail_lim' : trail_lim'[i] \in Nat
    BY <1>2
  <2>. QED BY <1>2, <2>1
<1>4. qhead' \in 0 .. Len(trail')
  BY <1>2
<1>. QED
  BY <1>1, <1>2, <1>3, <1>4 DEF TrailInv

LEMMA LearnUnitStep == ASSUME AInv, NEW l \in Literal, LearnUnit(l) PROVE AInv'
<1>1. /\ visiting = {} /\ visiting' = {} /\ dirty = {} /\ pc' = "propagate"
      /\ UNCHANGED <<arenaVars, watches, dirty>>
      /\ UnsetIn(Kept(0), l) /\ trail_lim' = <<>> /\ qhead' = trail_lim[1]
      /\ trail' = Append(Kept(0), l) /\ trail_lim # <<>>
      /\ reason' = [reason EXCEPT ![LitVar(l)] = CRef_Undef]
  BY NotVisiting DEF LearnUnit, Enqueue, AInv, VisitInv
<1>2. 0 \in 0 .. decisionLevel - 1 /\ SubSeq(trail_lim, 1, 0) = <<>>
  BY <1>1 DEF AInv, TrailInv, decisionLevel
<1>3. TrailInv'
  BY <1>1, <1>2, JumpFacts
<1>4. OwnOptions(Kept(0)) /\ ReasonsSound(ca, Kept(0), reason) /\ reason \in [Var -> Int]
      /\ CRef_Undef \in Int
  BY <1>2, CancelFacts DEF AInv, VisitInv, CRef_Undef
<1>5. ReasonsSound(ca, trail', reason')
  BY <1>1, <1>4, EnqueueSound
<1>6. VisitInv'
  BY <1>1, <1>4 DEF AInv, VisitInv
<1>7. ReasonsSound(ca, trail, reason)'
  <2>1. ca' = ca
    BY <1>1 DEF arenaVars
  <2>. QED
    BY <2>1, <1>5 DEF ReasonsSound, ReasonOf, InUse
<1>8. Region(ca, top)' /\ ListsSound(ca, watches, dirty, clauses \cup learnts)'
  BY <1>1 DEF AInv, arenaVars, Region, ListsSound, InUse, Heads, ArenaClause, ProperSeq
<1>. QED
  BY <1>3, <1>6, <1>7, <1>8 DEF AInv

LEMMA LearnStep ==
  ASSUME AInv, NEW level \in 0 .. decisionLevel - 1, NEW lits \in Lemmas, Learn(level, lits)
  PROVE  AInv'
<1>. DEFINE l == lits[1]
<1>1. /\ visiting = {} /\ visiting' = {} /\ dirty = {} /\ dirty' = {} /\ pc' = "propagate"
      /\ Attach(lits, TRUE) /\ (clauses \cup learnts)' = (clauses \cup learnts) \cup {top}
      /\ UnsetIn(Kept(level), l)
      /\ \A i \in 2 .. Len(lits) : FalseIn(Kept(level), lits[i])
      /\ trail_lim' = SubSeq(trail_lim, 1, level) /\ qhead' = trail_lim[level + 1]
      /\ trail' = Append(Kept(level), l)
      /\ reason' = [reason EXCEPT ![LitVar(l)] = top]
  BY NotVisiting DEF Learn, Enqueue, AInv, VisitInv
<1>2. lits \in ProperSeq /\ l \in Literal
  BY ArenaAssumption DEF ProperSeq, ProperClause
<1>3. TrailInv'
  BY <1>1, <1>2, JumpFacts
<1>4. /\ Region(ca, top)' /\ watches' \in [Literal -> SUBSET Nat]
      /\ ListsSound(ca, watches, dirty, clauses \cup learnts)'
      /\ top \in InUse(ca') /\ ca'[top].lits = lits
      /\ \A c \in InUse(ca) : c \in InUse(ca') /\ ca'[c] = ca[c]
  BY <1>1, <1>2, AttachSound
<1>5. /\ OwnOptions(Kept(level)) /\ ReasonsSound(ca, Kept(level), reason)
      /\ reason \in [Var -> Int] /\ top \in Int
  BY CancelFacts DEF AInv, VisitInv, Region
<1>6. ReasonsSound(ca', Kept(level), reason)
  BY <1>4, <1>5, FrameSound
<1>7. ReasonsSound(ca', trail', reason')
  BY <1>1, <1>2, <1>4, <1>5, <1>6, EnqueueSound
<1>8. ReasonsSound(ca, trail, reason)'
  BY <1>7 DEF ReasonsSound, ReasonOf, InUse
<1>9. VisitInv'
  BY <1>1, <1>2, <1>4, <1>5 DEF VisitInv
<1>. QED
  BY <1>3, <1>4, <1>8, <1>9 DEF AInv

-----------------------------------------------------------------------------
(* Removing and collecting clauses *)

\* removeClause leaves watchers in dirty lists only, and no reason.
LEMMA RemoveSound ==
  ASSUME AInv, NEW R \in SUBSET (clauses \cup learnts), RemoveClauses(R),
         UNCHANGED <<trail, trail_lim, qhead, visiting>>, visiting = {},
         pc' \notin {"propagate", "conflict"}
  PROVE  AInv'
<1>1. /\ reason' = ReasonsWithout(R) /\ UNCHANGED <<top, watches>>
      /\ dirty' = dirty \cup {-l : l \in UNION {FirstTwo(c) : c \in R}}
      /\ ca' = [c \in DOMAIN ca |-> IF c \in R THEN [ca[c] EXCEPT !.mark = 1] ELSE ca[c]]
      /\ (clauses \cup learnts)' = (clauses \cup learnts) \ R
  BY DEF RemoveClauses
<1>2. R \subseteq InUse(ca) /\ R \subseteq DOMAIN ca /\ \A c \in DOMAIN ca : ca[c] \in ArenaClause
  BY DEF AInv, ListsSound, InUse, Region
<1>3. /\ DOMAIN ca' = DOMAIN ca /\ \A c \in DOMAIN ca : ca'[c].lits = ca[c].lits
      /\ \A c \in DOMAIN ca : ca'[c] \in ArenaClause
      /\ \A c \in DOMAIN ca : ca'[c].mark = IF c \in R THEN 1 ELSE ca[c].mark
  BY <1>1, <1>2 DEF ArenaClause
<1>4. InUse(ca') = InUse(ca) \ R
  BY <1>2, <1>3 DEF InUse
<1>5. Region(ca, top)'
  <2>1. ca' \in [DOMAIN ca' -> ArenaClause]
    BY <1>1, <1>3
  <2>. QED
    BY <2>1, <1>1, <1>3 DEF AInv, Region, ArenaClause, ProperSeq
<1>6. dirty' \subseteq Literal
  <2>1. \A c \in R : FirstTwo(c) \subseteq Literal
    BY <1>2 DEF ArenaClause, ProperSeq, ProperClause, FirstTwo
  <2>. QED
    BY <2>1, <1>1, LiteralFacts DEF AInv, VisitInv
<1>7. ASSUME NEW l \in Literal, NEW c \in watches[l], l \notin dirty'
      PROVE  c \in InUse(ca')
  <2>1. l \notin dirty /\ c \in InUse(ca)
    BY <1>1, <1>7 DEF AInv, ListsSound
  <2>2. -l \in FirstTwo(c) /\ l = -(-l)
    BY <2>1, LiteralFacts DEF AInv, ListsSound, Heads, FirstTwo
  <2>3. c \notin R
    BY <2>2, <1>1, <1>7
  <2>. QED
    BY <2>1, <2>3, <1>4
<1>8. ListsSound(ca, watches, dirty, clauses \cup learnts)'
  <2>1. \A c \in InUse(ca'), l \in Literal : c \in watches'[l] <=> -l \in Heads(ca', c)
    <3>1. \A c \in InUse(ca') : c \in InUse(ca) /\ c \in DOMAIN ca
      BY <1>4 DEF InUse
    <3>2. \A c \in InUse(ca') : Heads(ca', c) = Heads(ca, c)
      BY <3>1, <1>3 DEF Heads
    <3>. QED
      BY <3>1, <3>2, <1>1 DEF AInv, ListsSound
  <2>2. (clauses \cup learnts)' = InUse(ca')
    BY <1>1, <1>4 DEF AInv, ListsSound
  <2>3. \A l \in Literal : /\ watches'[l] \subseteq DOMAIN ca'
                          /\ (l \notin dirty' => watches'[l] \subseteq InUse(ca'))
    BY <1>1, <1>3, <1>7 DEF AInv, ListsSound
  <2>. QED
    BY <2>1, <2>2, <2>3 DEF ListsSound, InUse, Heads
<1>9. reason' \in [Var -> Int]
  BY <1>1 DEF ReasonsWithout, AInv, VisitInv, CRef_Undef
<1>10. ASSUME NEW k \in DOMAIN trail, reason'[LitVar(trail[k])] # CRef_Undef
       PROVE  ReasonOf(ca', trail, k, reason'[LitVar(trail[k])])
  <2>. DEFINE v == LitVar(trail[k])
              c == reason[v]
  <2>1. trail[k] \in Literal /\ v \in Var
    BY LiteralFacts DEF AInv, TrailInv, OwnOptions
  <2>2. reason'[v] = c /\ ~ \E d \in R : locked(d) /\ LitVar(ca[d].lits[1]) = v
    BY <1>1, <1>10, <2>1 DEF ReasonsWithout
  <2>3. ReasonOf(ca, trail, k, c)
    BY <1>10, <2>2 DEF AInv, ReasonsSound
  <2>4. c \in InUse(ca) /\ ca[c].lits[1] = trail[k]
    BY <2>3 DEF ReasonOf
  <2>5. locked(c)
    BY <2>4 DEF locked, IsTrue
  <2>6. c \notin R
    BY <2>2, <2>4, <2>5
  <2>. QED
    BY <2>2, <2>3, <2>6, <1>3, <1>4 DEF ReasonOf, InUse
<1>11. ReasonsSound(ca, trail, reason)'
  <2>1. ReasonsSound(ca', trail, reason')
    BY <1>10 DEF ReasonsSound
  <2>. QED
    BY <2>1 DEF ReasonsSound, ReasonOf, InUse
<1>12. VisitInv' /\ TrailInv'
  BY <1>1, <1>6, <1>9 DEF AInv, VisitInv, TrailInv, OwnOptions
<1>. QED
  BY <1>5, <1>8, <1>11, <1>12 DEF AInv

LEMMA SimplifyStep == AInv /\ Simplify => AInv'
<1>. SUFFICES ASSUME AInv, Simplify PROVE AInv'
  OBVIOUS
<1>. DEFINE R == {c \in clauses \cup learnts : Satisfied(c)}
<1>1. RemoveClauses(R) /\ UNCHANGED <<trail, trail_lim, qhead, visiting>> /\ visiting = {}
      /\ pc' = "simplified"
  BY NotVisiting DEF Simplify
<1>. QED
  BY <1>1, RemoveSound

LEMMA ReduceDBStep == ASSUME AInv, NEW R \in SUBSET learnts, ReduceDB(R) PROVE AInv'
<1>1. RemoveClauses(R) /\ UNCHANGED <<trail, trail_lim, qhead, visiting>> /\ visiting = {}
      /\ pc' = "reduced"
  BY NotVisiting DEF ReduceDB
<1>. QED
  BY <1>1, RemoveSound

LEMMA SimplifyNothingStep == AInv /\ SimplifyNothing => AInv'
<1>. SUFFICES ASSUME AInv, SimplifyNothing PROVE AInv'
  OBVIOUS
<1>1. /\ UNCHANGED <<arenaVars, watches, dirty, trailVars, qhead, visiting>> /\ visiting = {}
      /\ pc' = "reduce"
  BY NotVisiting DEF SimplifyNothing
<1>2. VisitInv' /\ TrailInv'
  BY <1>1 DEF AInv, VisitInv, TrailInv, trailVars, OwnOptions
<1>. QED
  BY <1>1, <1>2 DEF AInv, arenaVars, trailVars, Region, ListsSound, ReasonsSound, ReasonOf, InUse,
    Heads, ArenaClause, ProperSeq

\* relocAll reaches the clauses in use, all of them and no others.
LEMMA ReachedInUse ==
  ASSUME AInv
  PROVE  /\ Reached = InUse(ca) /\ Reached \in SUBSET Nat /\ IsFiniteSet(Reached)
         /\ \A k \in DOMAIN trail :
              reason[LitVar(trail[k])] # CRef_Undef => MovedReason(LitVar(trail[k]))
<1>1. Watched \subseteq InUse(ca) /\ clauses \cup learnts = InUse(ca)
  BY CleanedSound DEF Watched, AInv, ListsSound
<1>2. ASSUME NEW k \in DOMAIN trail, reason[LitVar(trail[k])] # CRef_Undef
      PROVE  reason[LitVar(trail[k])] \in InUse(ca) /\ MovedReason(LitVar(trail[k]))
  <2>. DEFINE c == reason[LitVar(trail[k])]
  <2>1. c \in InUse(ca) /\ ca[c].lits[1] = trail[k]
    BY <1>2 DEF AInv, ReasonsSound, ReasonOf
  <2>2. locked(c)
    BY <2>1 DEF locked, IsTrue
  <2>. QED
    BY <2>1, <2>2, <1>2 DEF MovedReason
<1>3. \A v \in Assigned : MovedReason(v) => reason[v] \in InUse(ca)
  BY <1>2 DEF Assigned, MovedReason
<1>4. Reached = InUse(ca)
  BY <1>1, <1>3 DEF Reached
<1>5. InUse(ca) \in SUBSET (0 .. top - 1) /\ top \in Nat
  BY DEF AInv, Region, InUse
<1>6. IsFiniteSet(0 .. top - 1)
  BY <1>5, FS_Interval
<1>. QED
  BY <1>2, <1>4, <1>5, <1>6, FS_Subset

\* A collection keeps every clause in use, under one new reference each.
LEMMA CollectSound ==
  ASSUME AInv, garbageCollect, UNCHANGED <<trail, trail_lim, qhead, visiting>>, visiting = {},
         pc' \notin {"propagate", "conflict"}
  PROVE  AInv'
<1>. DEFINE S == InUse(ca)
<1>1. S = Reached /\ S \subseteq DOMAIN ca /\ \A c \in S : ca[c] \in ArenaClause /\ ca[c].mark = 0
  BY ReachedInUse DEF InUse, AInv, Region
<1>2. /\ \A c \in S : NewRef(c) \in 0 .. Cardinality(S) - 1
      /\ \A c, d \in S : NewRef(c) = NewRef(d) => c = d
      /\ Cardinality(S) \in Nat
  BY <1>1, ReachedInUse, RelocationInjective, FS_CardinalityType, SMTT(30) DEF NewRef
<1>3. /\ ca' = [a \in {NewRef(c) : c \in S} |-> ca[CHOOSE c \in S : NewRef(c) = a]]
      /\ top' = Cardinality(S) /\ dirty' = {}
      /\ watches' = [l \in Literal |-> {NewRef(c) : c \in Cleaned[l]}]
      /\ reason' = [v \in Var |-> IF v \in Assigned /\ MovedReason(v) THEN NewRef(reason[v])
                                  ELSE reason[v]]
      /\ learnts' = {NewRef(c) : c \in learnts} /\ clauses' = {NewRef(c) : c \in clauses}
  BY <1>1 DEF garbageCollect
<1>4. ASSUME NEW c \in S PROVE NewRef(c) \in DOMAIN ca' /\ ca'[NewRef(c)] = ca[c]
  <2>1. (CHOOSE d \in S : NewRef(d) = NewRef(c)) = c
    BY <1>2
  <2>. QED
    BY <2>1, <1>3
<1>5. DOMAIN ca' = {NewRef(c) : c \in S}
  BY <1>3
<1>6. InUse(ca') = {NewRef(c) : c \in S} /\ \A a \in DOMAIN ca' : ca'[a] \in ArenaClause
  BY <1>1, <1>4, <1>5 DEF InUse
<1>7. Region(ca, top)'
  <2>1. ca' \in [DOMAIN ca' -> ArenaClause]
    BY <1>3, <1>6
  <2>2. DOMAIN ca' \subseteq 0 .. top' - 1
    BY <1>2, <1>3, <1>5
  <2>. QED
    BY <2>1, <2>2, <1>2, <1>3 DEF Region, ArenaClause, ProperSeq
<1>8. \A l \in Literal : Cleaned[l] \subseteq S
  BY CleanedSound
<1>9. ListsSound(ca, watches, dirty, clauses \cup learnts)'
  <2>1. (clauses \cup learnts)' = InUse(ca')
    <3>1. clauses \cup learnts = S
      BY DEF AInv, ListsSound
    <3>. QED
      BY <3>1, <1>3, <1>6
  <2>2. ASSUME NEW c \in S, NEW l \in Literal
        PROVE  NewRef(c) \in watches'[l] <=> -l \in Heads(ca', NewRef(c))
    <3>1. NewRef(c) \in watches'[l] <=> c \in Cleaned[l]
      BY <1>2, <1>3, <1>8
    <3>2. c \in Cleaned[l] <=> -l \in Heads(ca, c)
      BY CleanedSound DEF ListsSound
    <3>3. Heads(ca', NewRef(c)) = Heads(ca, c)
      BY <1>4 DEF Heads
    <3>. QED
      BY <3>1, <3>2, <3>3
  <2>3. \A c \in InUse(ca'), l \in Literal : c \in watches'[l] <=> -l \in Heads(ca', c)
    BY <2>2, <1>6
  <2>4. \A l \in Literal : watches'[l] \subseteq InUse(ca')
    BY <1>3, <1>6, <1>8
  <2>5. InUse(ca') \subseteq DOMAIN ca'
    BY DEF InUse
  <2>. QED
    BY <2>1, <2>3, <2>4, <2>5 DEF ListsSound, InUse, Heads
<1>10. reason' \in [Var -> Int]
  <2>1. \A v \in Assigned : MovedReason(v) => NewRef(reason[v]) \in Int
    BY <1>1, <1>2 DEF Reached
  <2>. QED
    BY <2>1, <1>3 DEF AInv, VisitInv
<1>11. ASSUME NEW k \in DOMAIN trail, reason'[LitVar(trail[k])] # CRef_Undef
       PROVE  ReasonOf(ca', trail, k, reason'[LitVar(trail[k])])
  <2>. DEFINE v == LitVar(trail[k])
              c == reason[v]
  <2>1. v \in Var /\ v \in Assigned
    BY LiteralFacts DEF AInv, TrailInv, OwnOptions, Assigned
  <2>2. c # CRef_Undef
    BY <1>3, <1>11, <2>1 DEF MovedReason
  <2>3. MovedReason(v) /\ reason'[v] = NewRef(c)
    BY <1>3, <2>1, <2>2, ReachedInUse
  <2>4. ReasonOf(ca, trail, k, c)
    BY <2>2 DEF AInv, ReasonsSound
  <2>5. c \in S /\ ca'[NewRef(c)] = ca[c] /\ NewRef(c) \in InUse(ca')
    BY <2>4, <1>4, <1>6 DEF ReasonOf
  <2>. QED
    BY <2>3, <2>4, <2>5 DEF ReasonOf
<1>12. ReasonsSound(ca, trail, reason)'
  <2>1. ReasonsSound(ca', trail, reason')
    BY <1>11 DEF ReasonsSound
  <2>. QED
    BY <2>1 DEF ReasonsSound, ReasonOf, InUse
<1>13. watches' \in [Literal -> SUBSET Nat]
  BY <1>2, <1>3, <1>8
<1>14. VisitInv' /\ TrailInv'
  BY <1>3, <1>10, <1>13 DEF AInv, VisitInv, TrailInv, OwnOptions
<1>. QED
  BY <1>7, <1>9, <1>12, <1>14 DEF AInv

LEMMA checkGarbageStep == AInv /\ checkGarbage => AInv'
<1>. SUFFICES ASSUME AInv, checkGarbage PROVE AInv'
  OBVIOUS
<1>1. /\ UNCHANGED <<trail, trail_lim, qhead, visiting>> /\ visiting = {}
      /\ pc' \in {"reduce", "decide"}
  BY NotVisiting DEF checkGarbage
<1>2. CASE 5 * wasted_ > sz
  <2>1. garbageCollect
    BY <1>2 DEF checkGarbage
  <2>. QED
    BY <2>1, <1>1, CollectSound
<1>3. CASE ~(5 * wasted_ > sz)
  <2>1. UNCHANGED <<arenaVars, watches, dirty, reason>>
    BY <1>3 DEF checkGarbage
  <2>2. VisitInv' /\ TrailInv'
    BY <1>1, <2>1 DEF AInv, VisitInv, TrailInv, OwnOptions
  <2>. QED
    BY <1>1, <2>1, <2>2 DEF AInv, arenaVars, Region, ListsSound, ReasonsSound, ReasonOf, InUse,
      Heads, ArenaClause, ProperSeq
<1>. QED
  BY <1>2, <1>3

-----------------------------------------------------------------------------
(* Clause references: the theorem *)

LEMMA AInvInit == Init => AInv /\ AddedInv
<1>. SUFFICES ASSUME Init PROVE AInv /\ AddedInv
  OBVIOUS
<1>1. AddedInv /\ TrailInv
  BY DEF Init, AddedInv, TrailInv, OwnOptions
<1>2. VisitInv
  BY DEF Init, VisitInv, CRef_Undef
<1>3. DOMAIN ca = {} /\ InUse(ca) = {} /\ DOMAIN trail = {}
  BY DEF Init, InUse
<1>4. Region(ca, top)
  BY <1>3 DEF Init, Region
<1>5. ListsSound(ca, watches, dirty, clauses \cup learnts) /\ ReasonsSound(ca, trail, reason)
  BY <1>3 DEF Init, ListsSound, ReasonsSound
<1>. QED
  BY <1>1, <1>2, <1>4, <1>5 DEF AInv

LEMMA AddedStep == AddedInv /\ [Next]_vars => AddedInv'
<1>. SUFFICES ASSUME AddedInv, [Next]_vars PROVE AddedInv'
  OBVIOUS
<1>1. ASSUME UNCHANGED addVars PROVE AddedInv'
  BY <1>1 DEF AddedInv, addVars
<1>2. CASE UNCHANGED vars
  BY <1>1, <1>2 DEF vars
<1>3. CASE AddClause
  <2>1. added < Len(formula) /\ added' = added + 1 /\ formula' = formula
    BY <1>3 DEF AddClause
  <2>. QED
    BY <2>1 DEF AddedInv
<1>4. CASE Solve \/ TakeLiteral \/ NoConflict
  BY <1>1, <1>4 DEF Solve, TakeLiteral, NoConflict
<1>5. ASSUME NEW c \in visiting, PassBlocked(c) \/ PassSatisfied(c) \/ MoveWatch(c)
                                 \/ ImplyFirst(c) \/ FindConflict(c)
      PROVE  AddedInv'
  BY <1>1, <1>5 DEF PassBlocked, PassSatisfied, MoveWatch, ImplyFirst, FindConflict
<1>6. ASSUME NEW level \in 0 .. decisionLevel - 1, NEW lits \in Lemmas, Learn(level, lits)
      PROVE  AddedInv'
  BY <1>1, <1>6 DEF Learn
<1>7. ASSUME NEW l \in Literal, LearnUnit(l) \/ Decide(l) PROVE AddedInv'
  BY <1>1, <1>7 DEF LearnUnit, Decide
<1>8. CASE BackToRoot \/ Simplify \/ SimplifyNothing \/ checkGarbage
  BY <1>1, <1>8 DEF BackToRoot, Simplify, SimplifyNothing, checkGarbage
<1>9. ASSUME NEW R \in SUBSET learnts, ReduceDB(R) PROVE AddedInv'
  BY <1>1, <1>9 DEF ReduceDB
<1>. QED
  BY <1>2, <1>3, <1>4, <1>5, <1>6, <1>7, <1>8, <1>9 DEF Next

LEMMA AInvStep == AInv /\ AddedInv /\ [Next]_vars => AInv'
<1>. SUFFICES ASSUME AInv, AddedInv, [Next]_vars PROVE AInv'
  OBVIOUS
<1>1. CASE UNCHANGED vars
  <2>1. VisitInv' /\ TrailInv'
    BY <1>1 DEF vars, AInv, VisitInv, TrailInv, trailVars, OwnOptions
  <2>. QED
    BY <1>1, <2>1 DEF vars, AInv, arenaVars, trailVars, Region, ListsSound, ReasonsSound, ReasonOf,
      InUse, Heads, ArenaClause, ProperSeq
<1>2. CASE AddClause \/ Solve \/ TakeLiteral \/ NoConflict
  BY <1>2, AddClauseStep, SolveStep, TakeLiteralStep, NoConflictStep
<1>3. ASSUME NEW c \in visiting, PassBlocked(c) \/ PassSatisfied(c) \/ MoveWatch(c)
                                 \/ ImplyFirst(c) \/ FindConflict(c)
      PROVE  AInv'
  BY <1>3, PassBlockedStep, PassSatisfiedStep, MoveWatchStep, ImplyFirstStep, FindConflictStep
<1>4. ASSUME NEW level \in 0 .. decisionLevel - 1, NEW lits \in Lemmas, Learn(level, lits)
      PROVE  AInv'
  BY <1>4, LearnStep
<1>5. ASSUME NEW l \in Literal, LearnUnit(l) \/ Decide(l) PROVE AInv'
  BY <1>5, LearnUnitStep, DecideStep
<1>6. CASE BackToRoot \/ Simplify \/ SimplifyNothing \/ checkGarbage
  BY <1>6, BackToRootStep, SimplifyStep, SimplifyNothingStep, checkGarbageStep
<1>7. ASSUME NEW R \in SUBSET learnts, ReduceDB(R) PROVE AInv'
  BY <1>7, ReduceDBStep
<1>. QED
  BY <1>1, <1>2, <1>3, <1>4, <1>5, <1>6, <1>7 DEF Next

\* Removing, collecting and learning clauses in any order never leaves a
\* reference to a clause that is gone, nor a reason that locked overlooks.
THEOREM RefsAlwaysSound == Spec => []RefsSound
<1>1. AInv /\ AddedInv /\ [Next]_vars => (AInv /\ AddedInv)'
  BY AInvStep, AddedStep
<1>. QED
  BY <1>1, AInvInit, AInvRefsSound, PTL DEF Spec

-----------------------------------------------------------------------------
(* Words used and wasted *)

\* The words of the clauses C of the region m, whose references are below n.
Load(m, C, n) == [k \in 1 .. n |-> IF k - 1 \in C THEN Words(m[k - 1]) ELSE 0]

WordsIn(m, C, n) == SumOver(1 .. n, Load(m, C, n))

LEMMA WordsOfIn ==
  /\ \A C : WordsOf(C) = WordsIn(ca, C, top)
  /\ \A C : WordsOf(C)' = WordsIn(ca', C, top')
  BY DEF WordsOf, WordsIn, Load

LEMMA LoadType ==
  ASSUME NEW n, NEW m, Region(m, n), NEW C \in SUBSET DOMAIN m
  PROVE  /\ n \in Nat /\ C \in SUBSET (0 .. n - 1) /\ Load(m, C, n) \in [1 .. n -> Int]
         /\ \A c \in C : Words(m[c]) \in Nat
         /\ WordsIn(m, C, n) \in Int
<1>1. n \in Nat /\ C \in SUBSET (0 .. n - 1) /\ \A c \in C : m[c] \in ArenaClause
  BY DEF Region
<1>2. ASSUME NEW c \in ArenaClause PROVE Words(c) \in Nat
  <2>1. Len(c.lits) \in Nat
    BY DEF ArenaClause, ProperSeq
  <2>2. CASE c.learnt
    BY <2>1, <2>2 DEF Words
  <2>3. CASE ~c.learnt
    BY <2>1, <2>3 DEF Words
  <2>. QED BY <2>2, <2>3
<1>3. \A c \in C : Words(m[c]) \in Nat
  BY <1>1, <1>2
<1>4. Load(m, C, n) \in [1 .. n -> Int]
  BY <1>1, <1>3 DEF Load
<1>. QED BY <1>1, <1>3, <1>4, SumSteps DEF WordsIn

\* Clauses that keep their words weigh what they weighed.
LEMMA WordsSame ==
  ASSUME NEW n, NEW m, NEW m2, NEW C, \A c \in C : Words(m2[c]) = Words(m[c])
  PROVE  WordsIn(m2, C, n) = WordsIn(m, C, n)
<1>1. Load(m2, C, n) = Load(m, C, n)
  BY DEF Load
<1>. QED BY <1>1 DEF WordsIn

LEMMA WordsNothing ==
  ASSUME NEW n, NEW m, Region(m, n)
  PROVE  WordsIn(m, {}, n) = 0
<1>1. n \in Nat /\ Load(m, {}, n) \in [1 .. n -> Int]
  BY LoadType
<1>2. NothingAt(n, 1 .. n, Load(m, {}, n))
  BY DEF NothingAt, At, Load
<1>. QED BY <1>1, <1>2, SumNothing DEF WordsIn

LEMMA WordsUnion ==
  ASSUME NEW n, NEW m, Region(m, n), NEW C \in SUBSET DOMAIN m, NEW D \in SUBSET DOMAIN m,
         C \cap D = {}
  PROVE  WordsIn(m, C \cup D, n) = WordsIn(m, C, n) + WordsIn(m, D, n)
<1>. DEFINE f == Load(m, C \cup D, n)
            g == Load(m, C, n)
            h == Load(m, D, n)
<1>1. C \cup D \in SUBSET DOMAIN m
  OBVIOUS
<1>2. f \in [1 .. n -> Int] /\ g \in [1 .. n -> Int] /\ h \in [1 .. n -> Int] /\ n \in Nat
  BY <1>1, LoadType
<1>3. ASSUME NEW k \in 1 .. n PROVE f[k] = g[k] + h[k]
  <2>1. k - 1 \in C \cup D => Words(m[k - 1]) \in Int
    BY <1>1, LoadType
  <2>. QED BY <2>1 DEF Load
<1>. HIDE DEF f, g, h
<1>4. AddsUp(n, 1 .. n, f, 1 .. n, g, 1 .. n, h)
  BY <1>2, <1>3 DEF AddsUp, At
<1>5. SumOver(1 .. n, f) = SumOver(1 .. n, g) + SumOver(1 .. n, h)
  BY <1>2, <1>4, SumLinear
<1>. QED BY <1>5 DEF WordsIn, f, g, h

\* What a clause at the end of the region adds.
LEMMA WordsAppended ==
  ASSUME NEW n, NEW m, Region(m, n), NEW m2, Region(m2, n + 1), DOMAIN m2 = DOMAIN m \cup {n},
         \A c \in DOMAIN m : m2[c] = m[c]
  PROVE  /\ WordsIn(m2, DOMAIN m2, n + 1) = WordsIn(m, DOMAIN m, n) + Words(m2[n])
         /\ \A C \in SUBSET DOMAIN m : WordsIn(m2, C, n + 1) = WordsIn(m, C, n)
<1>1. n \in Nat /\ n \notin DOMAIN m /\ DOMAIN m \in SUBSET (0 .. n - 1) /\ Words(m2[n]) \in Int
  <2>1. n \in DOMAIN m2
    OBVIOUS
  <2>2. Words(m2[n]) \in Nat
    BY <2>1, LoadType
  <2>. QED BY <2>2 DEF Region
<1>2. ASSUME NEW C \in SUBSET DOMAIN m, NEW C2 \in SUBSET DOMAIN m2,
             \A c \in DOMAIN m : c \in C2 <=> c \in C
      PROVE  WordsIn(m2, C2, n + 1) = WordsIn(m, C, n) + (IF n \in C2 THEN Words(m2[n]) ELSE 0)
  <2>. DEFINE f == Load(m, C, n)
              g == Load(m2, C2, n + 1)
  <2>1. f \in [1 .. n -> Int] /\ g \in [1 .. n + 1 -> Int]
    BY LoadType
  <2>2. ASSUME NEW k \in 1 .. n PROVE g[k] = f[k]
    <3>1. k \in 1 .. n + 1 /\ k - 1 # n /\ k - 1 \in 0 .. n - 1
      BY <1>1
    <3>2. k - 1 \in C2 <=> k - 1 \in C
      BY <3>1, <1>2
    <3>3. k - 1 \in C => m2[k - 1] = m[k - 1]
      OBVIOUS
    <3>. QED BY <3>1, <3>2, <3>3 DEF Load
  <2>3. g[n + 1] = IF n \in C2 THEN Words(m2[n]) ELSE 0
    BY <1>1 DEF Load
  <2>. HIDE DEF f, g
  <2>4. PICK a : PartialSums(n, 1 .. n, f, a)
    BY <1>1, <2>1, SumSteps
  <2>5. PICK b : PartialSums(n + 1, 1 .. n + 1, g, b)
    <3>1. n + 1 \in Nat
      BY <1>1
    <3>. QED BY <3>1, <2>1, SumSteps
  <2>6. /\ a[0] = 0 /\ \A k \in 1 .. n : a[k] = a[k - 1] + f[k]
        /\ SumOver(1 .. n, f) = a[n]
    BY <2>4 DEF PartialSums, At
  <2>7. /\ b[0] = 0 /\ \A k \in 1 .. n + 1 : b[k] = b[k - 1] + g[k]
        /\ SumOver(1 .. n + 1, g) = b[n + 1]
    BY <2>5 DEF PartialSums, At
  <2>. DEFINE T == {k \in 0 .. n : b[k] = a[k]}
  <2>8. 0 \in T
    BY <1>1, <2>6, <2>7
  <2>9. ASSUME NEW k \in 1 .. n, k - 1 \in T PROVE k \in T
    <3>1. k \in 1 .. n + 1
      BY <1>1
    <3>. QED BY <3>1, <2>9, <2>2, <2>6, <2>7
  <2>. HIDE DEF T
  <2>10. \A k \in 0 .. n : k \in T
    BY <1>1, <2>8, <2>9, UpTo
  <2>11. b[n] = a[n]
    BY <1>1, <2>10 DEF T
  <2>12. n + 1 \in 1 .. n + 1 /\ (n + 1) - 1 = n
    BY <1>1
  <2>13. SumOver(1 .. n + 1, g) = SumOver(1 .. n, f) + g[n + 1]
    BY <2>6, <2>7, <2>11, <2>12
  <2>. QED BY <2>3, <2>13 DEF WordsIn, f, g
<1>3. WordsIn(m2, DOMAIN m2, n + 1) = WordsIn(m, DOMAIN m, n) + Words(m2[n])
  BY <1>2
<1>4. ASSUME NEW C \in SUBSET DOMAIN m PROVE WordsIn(m2, C, n + 1) = WordsIn(m, C, n)
  <2>1. C \in SUBSET DOMAIN m2 /\ n \notin C
    BY <1>1
  <2>2. WordsIn(m2, C, n + 1) = WordsIn(m, C, n) + 0
    BY <2>1, <1>2
  <2>3. WordsIn(m, C, n) \in Int
    BY LoadType
  <2>. QED BY <2>2, <2>3
<1>. QED BY <1>3, <1>4

\* How many of the clauses S come before each reference.
Ranks(S, n) == [k \in 0 .. n |-> Cardinality({d \in S : d < k})]

Moved(m, S, r, m2) == DOMAIN m2 = {r[c] : c \in S} /\ \A c \in S : m2[r[c]] = m[c]

\* A collection gives each clause of S the number of those before it as its
\* reference, and they weigh the same.
LEMMA WordsMoved ==
  ASSUME NEW n, NEW m, Region(m, n), NEW S \in SUBSET DOMAIN m,
         NEW r, r = Ranks(S, n), NEW m2, Region(m2, Cardinality(S)), Moved(m, S, r, m2)
  PROVE  WordsIn(m2, DOMAIN m2, Cardinality(S)) = WordsIn(m, S, n)
<1>. DEFINE N == Cardinality(S)
            below(k) == {d \in S : d < k}
            f == Load(m, S, n)
            g == Load(m2, DOMAIN m2, N)
<1>1. n \in Nat /\ S \in SUBSET (0 .. n - 1) /\ f \in [1 .. n -> Int] /\ g \in [1 .. N -> Int]
  BY LoadType
<1>2. IsFiniteSet(S) /\ N \in Nat
  <2>1. IsFiniteSet(0 .. n - 1)
    BY <1>1, FS_Interval
  <2>. QED BY <2>1, <1>1, FS_Subset, FS_CardinalityType
<1>3. \A k \in 0 .. n : IsFiniteSet(below(k)) /\ r[k] = Cardinality(below(k)) /\ r[k] \in 0 .. N
  <2>1. \A k \in 0 .. n : below(k) \in SUBSET S
    OBVIOUS
  <2>2. \A k \in 0 .. n : r[k] = Cardinality(below(k))
    BY DEF Ranks
  <2>. HIDE DEF below
  <2>3. ASSUME NEW k \in 0 .. n
        PROVE  /\ IsFiniteSet(below(k)) /\ Cardinality(below(k)) \in Nat
               /\ Cardinality(below(k)) <= N
    BY <1>2, <2>1, FS_Subset, FS_CardinalityType
  <2>. QED BY <2>2, <2>3, <1>2
<1>4. r[0] = 0
  <2>1. below(0) = {}
    BY <1>1
  <2>. HIDE DEF below
  <2>. QED BY <2>1, <1>1, <1>3, FS_EmptySet
<1>5. r[n] = N
  <2>1. below(n) = S
    BY <1>1
  <2>. HIDE DEF below
  <2>. QED BY <2>1, <1>1, <1>3
<1>6. ASSUME NEW k \in 1 .. n PROVE r[k] = r[k - 1] + (IF k - 1 \in S THEN 1 ELSE 0)
  <2>1. k \in 0 .. n /\ k - 1 \in 0 .. n
    BY <1>1
  <2>2. ASSUME k - 1 \in S PROVE below(k) = below(k - 1) \cup {k - 1} /\ k - 1 \notin below(k - 1)
    BY <1>1, <2>2
  <2>3. ASSUME k - 1 \notin S PROVE below(k) = below(k - 1)
    <3>1. \A d \in S : d \in Int /\ d # k - 1 /\ (d < k <=> d < k - 1)
      BY <1>1, <2>3
    <3>. QED BY <3>1
  <2>. HIDE DEF below
  <2>4. ASSUME k - 1 \in S PROVE Cardinality(below(k)) = Cardinality(below(k - 1)) + 1
    <3>1. IsFiniteSet(below(k - 1))
      BY <2>1, <1>3
    <3>2. Cardinality(below(k - 1) \cup {k - 1}) = Cardinality(below(k - 1)) + 1
      BY <3>1, <2>2, <2>4, FS_AddElement
    <3>. QED BY <3>2, <2>2, <2>4
  <2>5. r[k - 1] \in Int
    BY <2>1, <1>3
  <2>. QED BY <2>1, <2>3, <2>4, <2>5, <1>3
<1>7. ASSUME NEW k \in 1 .. n, k - 1 \in S
      PROVE  r[k] \in 1 .. N /\ g[r[k]] = Words(m[k - 1])
  <2>1. r[k - 1] \in 0 .. N /\ r[k] \in 0 .. N /\ r[k] = r[k - 1] + 1
    <3>1. k \in 0 .. n /\ k - 1 \in 0 .. n
      BY <1>1
    <3>. QED BY <3>1, <1>3, <1>6, <1>7
  <2>2. r[k] \in 1 .. N /\ r[k] - 1 = r[k - 1]
    BY <2>1, <1>2
  <2>3. r[k - 1] \in DOMAIN m2 /\ m2[r[k - 1]] = m[k - 1]
    BY <1>7 DEF Moved
  <2>4. r[k] - 1 \in DOMAIN m2 /\ m2[r[k] - 1] = m[k - 1]
    BY <2>2, <2>3
  <2>. HIDE DEF N
  <2>5. g[r[k]] = Words(m2[r[k] - 1])
    BY <2>2, <2>4 DEF Load
  <2>. QED BY <2>2, <2>4, <2>5
<1>8. \A k \in 1 .. n : f[k] = IF k - 1 \in S THEN Words(m[k - 1]) ELSE 0
  BY DEF Load
<1>. HIDE DEF f, g, N
<1>9. PICK a : PartialSums(n, 1 .. n, f, a)
  BY <1>1, SumSteps
<1>10. PICK b : PartialSums(N, 1 .. N, g, b)
  BY <1>1, <1>2, SumSteps
<1>11. /\ a[0] = 0 /\ \A k \in 1 .. n : a[k] = a[k - 1] + f[k]
       /\ SumOver(1 .. n, f) = a[n]
  BY <1>9 DEF PartialSums, At
<1>12. /\ b[0] = 0 /\ \A k \in 1 .. N : b[k] = b[k - 1] + g[k]
       /\ SumOver(1 .. N, g) = b[N] /\ \A k \in 0 .. N : b[k] \in Int
  BY <1>10 DEF PartialSums, At
<1>. DEFINE T == {k \in 0 .. n : a[k] = b[r[k]]}
<1>13. 0 \in T
  BY <1>1, <1>4, <1>11, <1>12
<1>14. ASSUME NEW k \in 1 .. n, k - 1 \in T PROVE k \in T
  <2>1. a[k] = a[k - 1] + f[k] /\ a[k - 1] = b[r[k - 1]] /\ k \in 0 .. n /\ k - 1 \in 0 .. n
    BY <1>1, <1>11, <1>14
  <2>2. r[k - 1] \in 0 .. N /\ r[k - 1] \in Int /\ b[r[k - 1]] \in Int
    <3>. HIDE DEF below
    <3>1. r[k - 1] \in 0 .. N
      BY <2>1, <1>3
    <3>. QED BY <3>1, <1>2, <1>12
  <2>3. CASE k - 1 \in S
    <3>1. r[k] \in 1 .. N /\ g[r[k]] = f[k] /\ r[k] = r[k - 1] + 1
      BY <2>3, <1>6, <1>7, <1>8
    <3>2. b[r[k]] = b[r[k] - 1] + g[r[k]] /\ r[k] - 1 = r[k - 1]
      BY <3>1, <2>2, <1>12
    <3>. QED BY <3>1, <3>2, <2>1
  <2>4. CASE k - 1 \notin S
    <3>1. r[k] = r[k - 1] + 0 /\ f[k] = 0
      BY <2>4, <1>6, <1>8
    <3>2. r[k] = r[k - 1]
      BY <3>1, <2>2
    <3>3. a[k - 1] + 0 = a[k - 1]
      BY <2>1, <2>2
    <3>4. a[k] = b[r[k]]
      BY <2>1, <3>1, <3>2, <3>3
    <3>. QED BY <2>1, <3>4
  <2>. QED BY <2>3, <2>4
<1>. HIDE DEF T
<1>15. \A k \in 0 .. n : k \in T
  BY <1>1, <1>13, <1>14, UpTo
<1>16. a[n] = b[N]
  <2>1. n \in 0 .. n
    BY <1>1
  <2>2. a[n] = b[r[n]]
    BY <2>1, <1>15 DEF T
  <2>. QED BY <2>2, <1>5
<1>. QED BY <1>11, <1>12, <1>16 DEF WordsIn, f, g, N

\* WastedExact of the clauses m with references below n, s words of them used
\* and w wasted.
Removed(m) == DOMAIN m \ InUse(m)

Exact(m, n, s, w) == s = WordsIn(m, DOMAIN m, n) /\ w = WordsIn(m, Removed(m), n)

LEMMA ExactIsWastedExact ==
  /\ WastedExact <=> Exact(ca, top, sz, wasted_)
  /\ WastedExact' <=> Exact(ca', top', sz', wasted_')
  BY DEF WastedExact, Exact, WordsOf, WordsIn, Load, Removed, InUse, Live

LEMMA ExactUnchanged ==
  ASSUME WastedExact, UNCHANGED <<ca, top, sz, wasted_>>
  PROVE  WastedExact'
<1>1. ca' = ca /\ top' = top /\ sz' = sz /\ wasted_' = wasted_
  OBVIOUS
<1>. QED BY <1>1, ExactIsWastedExact

\* propagate exchanges literals: no clause grows, and none is removed.
LEMMA ExactRewritten ==
  ASSUME AInv, WastedExact, NEW c \in visiting, NEW s \in Seq(Literal),
         Len(s) = Len(ca[c].lits), ca' = [ca EXCEPT ![c].lits = s],
         UNCHANGED <<top, sz, wasted_>>
  PROVE  WastedExact'
<1>1. /\ c \in DOMAIN ca /\ ca[c] \in ArenaClause
      /\ top' = top /\ sz' = sz /\ wasted_' = wasted_
  BY VisitFacts DEF InUse, AInv, Region
<1>2. /\ DOMAIN ca' = DOMAIN ca /\ ca'[c] = [ca[c] EXCEPT !.lits = s]
      /\ \A d \in DOMAIN ca : d # c => ca'[d] = ca[d]
  BY <1>1
<1>3. ca'[c].lits = s /\ ca'[c].learnt = ca[c].learnt /\ ca'[c].mark = ca[c].mark
  BY <1>1, <1>2 DEF ArenaClause
<1>4. \A d \in DOMAIN ca : Words(ca'[d]) = Words(ca[d]) /\ ca'[d].mark = ca[d].mark
  BY <1>2, <1>3 DEF Words
<1>5. Removed(ca') = Removed(ca)
  BY <1>2, <1>4 DEF Removed, InUse
<1>6. WordsIn(ca', DOMAIN ca', top) = WordsIn(ca, DOMAIN ca, top)
  BY <1>2, <1>4, WordsSame
<1>7. WordsIn(ca', Removed(ca'), top) = WordsIn(ca, Removed(ca), top)
  <2>1. \A d \in Removed(ca) : Words(ca'[d]) = Words(ca[d])
    BY <1>4 DEF Removed
  <2>2. WordsIn(ca', Removed(ca), top) = WordsIn(ca, Removed(ca), top)
    BY <2>1, WordsSame
  <2>. QED BY <2>2, <1>5
<1>. QED BY <1>1, <1>6, <1>7, ExactIsWastedExact DEF Exact

LEMMA ExchangedLength ==
  ASSUME NEW s \in Seq(Literal), NEW i \in DOMAIN s, NEW j \in DOMAIN s
  PROVE  Exchanged(s, i, j) \in Seq(Literal) /\ Len(Exchanged(s, i, j)) = Len(s)
  BY DEF Exchanged

LEMMA FalseSecondLength ==
  ASSUME AInv, NEW c \in visiting
  PROVE  FalseSecond(c) \in Seq(Literal) /\ Len(FalseSecond(c)) = Len(ca[c].lits)
<1>1. ca[c] \in ArenaClause
  BY VisitFacts DEF InUse, AInv, Region
<1>2. /\ ca[c].lits \in Seq(Literal) /\ 1 \in DOMAIN ca[c].lits /\ 2 \in DOMAIN ca[c].lits
  BY <1>1 DEF ArenaClause, ProperSeq, ProperClause
<1>. QED BY <1>2, ExchangedLength DEF FalseSecond

LEMMA ExactVisited ==
  ASSUME AInv, WastedExact, NEW c \in visiting,
         PassBlocked(c) \/ PassSatisfied(c) \/ MoveWatch(c) \/ ImplyFirst(c) \/ FindConflict(c)
  PROVE  WastedExact'
<1>1. CASE PassBlocked(c)
  BY <1>1, ExactUnchanged DEF PassBlocked, arenaVars
<1>2. CASE PassSatisfied(c) \/ ImplyFirst(c) \/ FindConflict(c)
  <2>1. ca' = [ca EXCEPT ![c].lits = FalseSecond(c)] /\ UNCHANGED <<top, sz, wasted_>>
    BY <1>2 DEF PassSatisfied, ImplyFirst, FindConflict
  <2>. QED BY <2>1, FalseSecondLength, ExactRewritten
<1>3. CASE MoveWatch(c)
  <2>. DEFINE lits == FalseSecond(c)
  <2>1. PICK k \in NewWatch(lits) : ca' = [ca EXCEPT ![c].lits = Exchanged(lits, 2, k)]
    BY <1>3 DEF MoveWatch
  <2>2. UNCHANGED <<top, sz, wasted_>>
    BY <1>3 DEF MoveWatch
  <2>3. k \in 3 .. Len(lits)
    BY DEF NewWatch
  <2>4. /\ lits \in Seq(Literal) /\ Len(lits) = Len(ca[c].lits)
        /\ 2 \in DOMAIN lits /\ k \in DOMAIN lits
    BY <2>3, FalseSecondLength
  <2>. HIDE DEF lits
  <2>5. Exchanged(lits, 2, k) \in Seq(Literal) /\ Len(Exchanged(lits, 2, k)) = Len(ca[c].lits)
    BY <2>4, ExchangedLength
  <2>. QED BY <2>1, <2>2, <2>5, ExactRewritten
<1>. QED BY <1>1, <1>2, <1>3

\* A new clause uses its words and wastes none.
LEMMA ExactAttached ==
  ASSUME AInv, AInv', WastedExact, NEW lits, NEW learnt, Attach(lits, learnt), wasted_' = wasted_
  PROVE  WastedExact'
<1>. DEFINE new == [lits |-> lits, learnt |-> learnt, mark |-> 0]
<1>1. Region(ca, top) /\ Region(ca', top') /\ top \notin DOMAIN ca
  BY DEF AInv, Region, ArenaClause, ProperSeq
<1>2. /\ DOMAIN ca' = DOMAIN ca \cup {top} /\ ca'[top] = new
      /\ \A c \in DOMAIN ca : ca'[c] = ca[c]
      /\ top' = top + 1 /\ sz' = sz + Words(new)
  BY <1>1 DEF Attach
<1>3. /\ WordsIn(ca', DOMAIN ca', top + 1) = WordsIn(ca, DOMAIN ca, top) + Words(ca'[top])
      /\ \A C \in SUBSET DOMAIN ca : WordsIn(ca', C, top + 1) = WordsIn(ca, C, top)
  BY <1>1, <1>2, WordsAppended
<1>4. Removed(ca') = Removed(ca) /\ Removed(ca) \in SUBSET DOMAIN ca
  BY <1>1, <1>2 DEF Removed, InUse
<1>5. sz = WordsIn(ca, DOMAIN ca, top) /\ wasted_ = WordsIn(ca, Removed(ca), top)
  BY ExactIsWastedExact DEF Exact
<1>6. sz' = WordsIn(ca', DOMAIN ca', top') /\ wasted_' = WordsIn(ca', Removed(ca'), top')
  BY <1>2, <1>3, <1>4, <1>5
<1>. QED BY <1>6, ExactIsWastedExact DEF Exact

\* removeClause wastes the words of the clauses it removes, once each.
LEMMA ExactRemoved ==
  ASSUME AInv, AInv', WastedExact, NEW R \in SUBSET (clauses \cup learnts), RemoveClauses(R)
  PROVE  WastedExact'
<1>1. Region(ca, top) /\ R \subseteq InUse(ca) /\ InUse(ca) \subseteq DOMAIN ca
  BY DEF AInv, ListsSound, InUse
<1>2. /\ ca' = [c \in DOMAIN ca |-> IF c \in R THEN [ca[c] EXCEPT !.mark = 1] ELSE ca[c]]
      /\ wasted_' = wasted_ + WordsOf(R) /\ top' = top /\ sz' = sz
  BY DEF RemoveClauses
<1>3. \A c \in DOMAIN ca : ca[c] \in ArenaClause
  BY <1>1 DEF Region
<1>4. /\ DOMAIN ca' = DOMAIN ca
      /\ \A c \in DOMAIN ca : /\ ca'[c].lits = ca[c].lits /\ ca'[c].learnt = ca[c].learnt
                             /\ ca'[c].mark = IF c \in R THEN 1 ELSE ca[c].mark
  BY <1>2, <1>3 DEF ArenaClause
<1>5. \A c \in DOMAIN ca : Words(ca'[c]) = Words(ca[c])
  BY <1>4 DEF Words
<1>6. Removed(ca') = Removed(ca) \cup R /\ Removed(ca) \cap R = {}
  BY <1>1, <1>4 DEF Removed, InUse
<1>7. Removed(ca) \in SUBSET DOMAIN ca /\ R \in SUBSET DOMAIN ca
  BY <1>1 DEF Removed
<1>8. WordsIn(ca, Removed(ca) \cup R, top) = WordsIn(ca, Removed(ca), top) + WordsIn(ca, R, top)
  BY <1>1, <1>6, <1>7, WordsUnion
<1>9. WordsIn(ca', Removed(ca) \cup R, top) = WordsIn(ca, Removed(ca) \cup R, top)
  <2>1. \A c \in Removed(ca) \cup R : Words(ca'[c]) = Words(ca[c])
    BY <1>5, <1>7
  <2>. QED BY <2>1, WordsSame
<1>10. WordsIn(ca', DOMAIN ca', top) = WordsIn(ca, DOMAIN ca, top)
  BY <1>4, <1>5, WordsSame
<1>11. sz = WordsIn(ca, DOMAIN ca, top) /\ wasted_ = WordsIn(ca, Removed(ca), top)
  BY ExactIsWastedExact DEF Exact
<1>12. WordsOf(R) = WordsIn(ca, R, top)
  BY WordsOfIn
<1>13. sz' = WordsIn(ca', DOMAIN ca', top') /\ wasted_' = WordsIn(ca', Removed(ca'), top')
  BY <1>2, <1>6, <1>8, <1>9, <1>10, <1>11, <1>12
<1>. QED BY <1>13, ExactIsWastedExact DEF Exact

\* The new region holds what was in use and no waste.
LEMMA ExactCollected ==
  ASSUME AInv, AInv', WastedExact, garbageCollect
  PROVE  WastedExact'
<1>. DEFINE S == InUse(ca)
            r == Ranks(S, top)
<1>1. S = Reached /\ S \in SUBSET DOMAIN ca /\ \A c \in S : ca[c].mark = 0
  BY ReachedInUse DEF InUse
<1>2. Region(ca, top) /\ Region(ca', top') /\ DOMAIN ca \subseteq 0 .. top - 1 /\ top \in Nat
  BY DEF AInv, Region, ArenaClause, ProperSeq
<1>3. ASSUME NEW c \in S PROVE NewRef(c) = r[c]
  <2>1. c \in 0 .. top
    BY <1>1, <1>2
  <2>. QED BY <2>1, <1>1 DEF NewRef, Ranks
<1>4. \A c, d \in S : NewRef(c) = NewRef(d) => c = d
  BY <1>1, ReachedInUse, RelocationInjective DEF NewRef
<1>5. /\ ca' = [a \in {NewRef(c) : c \in S} |-> ca[CHOOSE c \in S : NewRef(c) = a]]
      /\ top' = Cardinality(S) /\ sz' = WordsOf(S) /\ wasted_' = 0
  BY <1>1 DEF garbageCollect
<1>. HIDE DEF S, r
<1>6. DOMAIN ca' = {r[c] : c \in S}
  BY <1>3, <1>5
<1>7. ASSUME NEW c \in S PROVE ca'[r[c]] = ca[c]
  <2>1. (CHOOSE d \in S : NewRef(d) = NewRef(c)) = c
    BY <1>4
  <2>2. ca'[NewRef(c)] = ca[c]
    BY <2>1, <1>5
  <2>. QED BY <2>2, <1>3
<1>8. Region(ca', Cardinality(S))
  BY <1>2, <1>5
<1>9. WordsIn(ca', DOMAIN ca', Cardinality(S)) = WordsIn(ca, S, top)
  <2>1. r = Ranks(S, top)
    BY DEF r
  <2>2. Moved(ca, S, r, ca')
    BY <1>6, <1>7 DEF Moved
  <2>. QED BY <2>1, <2>2, <1>1, <1>2, <1>8, WordsMoved
<1>10. Removed(ca') = {}
  BY <1>1, <1>6, <1>7 DEF Removed, InUse
<1>11. WordsIn(ca', {}, top') = 0
  BY <1>2, WordsNothing
<1>12. WordsOf(S) = WordsIn(ca, S, top)
  BY WordsOfIn
<1>13. sz' = WordsIn(ca', DOMAIN ca', top') /\ wasted_' = WordsIn(ca', Removed(ca'), top')
  BY <1>5, <1>9, <1>10, <1>11, <1>12
<1>. QED BY <1>13, ExactIsWastedExact DEF Exact

\* A clause with one literal goes to the trail; a longer one is attached.
LEMMA ExactAdded ==
  ASSUME AInv, AInv', WastedExact, AddClause
  PROVE  WastedExact'
<1>1. CASE UNCHANGED arenaVars
  BY <1>1, ExactUnchanged DEF arenaVars
<1>2. ASSUME NEW lits, Attach(lits, FALSE), wasted_' = wasted_ PROVE WastedExact'
  BY <1>2, ExactAttached
<1>. QED BY <1>1, <1>2, Zenon DEF AddClause

LEMMA ExactInit == Init => WastedExact
<1>. SUFFICES ASSUME Init PROVE WastedExact
  OBVIOUS
<1>1. top = 0 /\ sz = 0 /\ wasted_ = 0 /\ DOMAIN ca = {}
  BY DEF Init
<1>2. Region(ca, top) /\ Removed(ca) = {}
  BY <1>1 DEF Init, Region, Removed
<1>3. WordsIn(ca, {}, top) = 0
  BY <1>2, WordsNothing
<1>. QED BY <1>1, <1>2, <1>3, ExactIsWastedExact DEF Exact

LEMMA ExactStep == AInv /\ AInv' /\ WastedExact /\ [Next]_vars => WastedExact'
<1>. SUFFICES ASSUME AInv, AInv', WastedExact, [Next]_vars PROVE WastedExact'
  OBVIOUS
<1>1. CASE UNCHANGED arenaVars
  BY <1>1, ExactUnchanged DEF arenaVars
<1>2. CASE UNCHANGED vars \/ Solve \/ TakeLiteral \/ NoConflict \/ BackToRoot \/ SimplifyNothing
  BY <1>1, <1>2 DEF vars, Solve, TakeLiteral, NoConflict, BackToRoot, SimplifyNothing
<1>3. ASSUME NEW l \in Literal, LearnUnit(l) \/ Decide(l) PROVE WastedExact'
  BY <1>1, <1>3 DEF LearnUnit, Decide
<1>4. ASSUME NEW c \in visiting, PassBlocked(c) \/ PassSatisfied(c) \/ MoveWatch(c)
                                 \/ ImplyFirst(c) \/ FindConflict(c)
      PROVE  WastedExact'
  BY <1>4, ExactVisited
<1>5. ASSUME NEW level \in 0 .. decisionLevel - 1, NEW lits \in Lemmas, Learn(level, lits)
      PROVE  WastedExact'
  BY <1>5, ExactAttached DEF Learn
<1>6. CASE Simplify
  <2>1. PICK R \in SUBSET (clauses \cup learnts) : RemoveClauses(R)
    BY <1>6 DEF Simplify
  <2>. QED BY <2>1, ExactRemoved
<1>7. ASSUME NEW R \in SUBSET learnts, ReduceDB(R) PROVE WastedExact'
  BY <1>7, ExactRemoved DEF ReduceDB
<1>8. CASE checkGarbage
  <2>1. garbageCollect \/ UNCHANGED arenaVars
    BY <1>8 DEF checkGarbage
  <2>. QED BY <2>1, <1>1, ExactCollected
<1>. QED BY <1>2, <1>3, <1>4, <1>5, <1>6, <1>7, <1>8, ExactAdded DEF Next

\* However clauses come, are rewritten, go and are moved, the waste that
\* checkGarbage compares is the words of the removed clauses, no more and no less.
THEOREM WastedAlwaysExact == Spec => []WastedExact
<1>1. Init => AInv /\ AddedInv /\ WastedExact
  BY AInvInit, ExactInit
<1>2. AInv /\ AddedInv /\ WastedExact /\ [Next]_vars => (AInv /\ AddedInv /\ WastedExact)'
  BY AInvStep, AddedStep, ExactStep
<1>. QED
  BY <1>1, <1>2, PTL DEF Spec

-----------------------------------------------------------------------------
(* SimpleBitSet *)


\* Twice the number of pairs in the rows before row i.
Rows2(i) == (2 * NumVar - i - 1) * i

\* The position of pair i < j among all pairs, as Get2TupleMapIndex has it.
PairPos(i, j) == ((2 * NumVar - i - 1) * i) \div 2 + j - i - 1

-----------------------------------------------------------------------------
(* Positions of pairs *)

\* The division by 2 in the index is exact.
LEMMA RowsEven ==
  ASSUME NEW i \in Var
  PROVE  \E k \in Nat : Rows2(i) = 2 * k
<1>. DEFINE n == NumVar
<1>1. n \in Nat /\ i \in Nat /\ i <= n - 1
  BY NumVarAssumption DEF Var
<1>2. PICK h \in Nat : i = 2 * h \/ i = 2 * h + 1
  <2>1. i = 2 * (i \div 2) \/ i = 2 * (i \div 2) + 1
    BY <1>1
  <2>2. i \div 2 \in Nat
    BY <1>1
  <2>. QED BY <2>1, <2>2
<1>3. CASE i = 2 * h
  <2>1. Rows2(i) = 2 * ((2 * n - i - 1) * h) /\ (2 * n - i - 1) \in Nat
    BY <1>1, <1>3 DEF Rows2
  <2>2. (2 * n - i - 1) * h \in Nat
    BY <2>1
  <2>. QED BY <2>1, <2>2
<1>4. CASE i = 2 * h + 1
  <2>1. 2 * n - i - 1 = 2 * (n - h - 1) /\ n - h - 1 \in Nat
    BY <1>1, <1>4
  <2>2. Rows2(i) = 2 * ((n - h - 1) * i)
    BY <1>1, <2>1 DEF Rows2
  <2>3. (n - h - 1) * i \in Nat
    BY <1>1, <2>1
  <2>. QED BY <2>2, <2>3
<1>. QED BY <1>2, <1>3, <1>4

LEMMA PairPosTwice ==
  ASSUME NEW i \in Var, NEW j \in Var, i < j
  PROVE  PairPos(i, j) \in Nat /\ 2 * PairPos(i, j) = Rows2(i) + 2 * (j - i - 1)
<1>1. PICK k \in Nat : Rows2(i) = 2 * k
  BY RowsEven
<1>2. i \in Nat /\ j \in Nat /\ NumVar \in Nat
  BY NumVarAssumption DEF Var
<1>3. PairPos(i, j) = (2 * k) \div 2 + j - i - 1
  BY <1>1 DEF PairPos, Rows2
<1>. QED BY <1>1, <1>2, <1>3

\* A later row starts behind all pairs of an earlier one, and behind the last
\* row there are n (n - 1) / 2 pairs.
LEMMA RowsGrow ==
  ASSUME NEW i \in Var, NEW k \in Var, i < k
  PROVE  Rows2(i) + 2 * (NumVar - i - 1) <= Rows2(k)
<1>. DEFINE n == NumVar
<1>1. n \in Nat /\ i \in Nat /\ k \in Nat /\ i + 1 <= k /\ k <= n - 1
  BY NumVarAssumption DEF Var
<1>2. Rows2(k) - (Rows2(i) + 2 * (n - i - 1)) = (k - i - 1) * (2 * n - k - i - 2)
  BY <1>1 DEF Rows2
<1>3. k - i - 1 \in Nat /\ 2 * n - k - i - 2 \in Nat
  BY <1>1
<1>4. (k - i - 1) * (2 * n - k - i - 2) >= 0
  BY <1>3
<1>5. Rows2(k) \in Int /\ Rows2(i) \in Int
  BY <1>1 DEF Rows2
<1>. QED BY <1>1, <1>2, <1>4, <1>5

LEMMA RowsEnd ==
  ASSUME NEW i \in Var
  PROVE  Rows2(i) + 2 * (NumVar - i - 1) <= NumVar * (NumVar - 1)
<1>. DEFINE n == NumVar
<1>1. n \in Nat /\ i \in Nat /\ i <= n - 1
  BY NumVarAssumption DEF Var
<1>2. n * (n - 1) - (Rows2(i) + 2 * (n - i - 1)) = (n - i - 1) * (n - i - 2)
  BY <1>1 DEF Rows2
<1>3. (n - i - 1) * (n - i - 2) >= 0
  <2>1. CASE i = n - 1
    BY <1>1, <2>1
  <2>2. CASE i < n - 1
    <3>1. n - i - 1 \in Nat /\ n - i - 2 \in Nat
      BY <1>1, <2>2
    <3>. QED BY <3>1
  <2>. QED BY <1>1, <2>1, <2>2
<1>4. Rows2(i) \in Int /\ n * (n - 1) \in Int
  BY <1>1 DEF Rows2
<1>. QED BY <1>1, <1>2, <1>3, <1>4

\* The number of pairs, without the division.
LEMMA CombinationsTwice ==
  /\ NumCombinationAllPossible \in Nat
  /\ 2 * NumCombinationAllPossible = NumVar * (NumVar - 1)
<1>. DEFINE n == NumVar
<1>1. n \in Nat /\ n >= 2
  BY NumVarAssumption
<1>2. PICK h \in Nat : n = 2 * h \/ n = 2 * h + 1
  <2>1. n = 2 * (n \div 2) \/ n = 2 * (n \div 2) + 1
    BY <1>1
  <2>2. n \div 2 \in Nat
    BY <1>1
  <2>. QED BY <2>1, <2>2
<1>3. \E k \in Nat : n * (n - 1) = 2 * k
  <2>1. CASE n = 2 * h
    <3>1. n * (n - 1) = 2 * (h * (n - 1)) /\ h * (n - 1) \in Nat
      BY <1>1, <2>1
    <3>. QED BY <3>1
  <2>2. CASE n = 2 * h + 1
    <3>1. n * (n - 1) = 2 * (n * h) /\ n * h \in Nat
      BY <1>1, <2>2
    <3>. QED BY <3>1
  <2>. QED BY <1>2, <2>1, <2>2
<1>4. PICK k \in Nat : n * (n - 1) = 2 * k
  BY <1>3
<1>5. NumCombinationAllPossible = (2 * k) \div 2
  BY <1>4 DEF NumCombinationAllPossible
<1>. QED BY <1>4, <1>5

LEMMA PairPosInjective ==
  ASSUME NEW i \in Var, NEW j \in Var, i < j,
         NEW k \in Var, NEW l \in Var, k < l,
         PairPos(i, j) = PairPos(k, l)
  PROVE  i = k /\ j = l
<1>1. i \in Nat /\ j \in Nat /\ k \in Nat /\ l \in Nat /\ NumVar \in Nat
      /\ j <= NumVar - 1 /\ l <= NumVar - 1
  BY NumVarAssumption DEF Var
<1>2. Rows2(i) + 2 * (j - i - 1) = Rows2(k) + 2 * (l - k - 1)
  BY PairPosTwice
<1>3. Rows2(i) \in Int /\ Rows2(k) \in Int
  BY <1>1 DEF Rows2
<1>4. ~ (i < k)
  BY <1>1, <1>2, <1>3, RowsGrow
<1>5. ~ (k < i)
  BY <1>1, <1>2, <1>3, RowsGrow
<1>. QED BY <1>1, <1>2, <1>3, <1>4, <1>5

LEMMA PairPosBound ==
  ASSUME NEW i \in Var, NEW j \in Var, i < j
  PROVE  PairPos(i, j) < NumCombinationAllPossible
<1>1. i \in Nat /\ j \in Nat /\ NumVar \in Nat /\ j <= NumVar - 1
  BY NumVarAssumption DEF Var
<1>2. Rows2(i) \in Int
  BY <1>1 DEF Rows2
<1>3. 2 * PairPos(i, j) < 2 * NumCombinationAllPossible
  BY <1>1, <1>2, PairPosTwice, RowsEnd, CombinationsTwice
<1>. QED BY <1>3, PairPosTwice, CombinationsTwice

-----------------------------------------------------------------------------
(* The index *)

\* The fields of a tuple.
LEMMA TupleFields ==
  ASSUME NEW t \in Tuple
  PROVE  /\ t[1] \in Var /\ t[2] \in Bit /\ t[3] \in Var /\ t[4] \in Bit /\ t[1] < t[3]
         /\ t = <<t[1], t[2], t[3], t[4]>>
         /\ Get2TupleMapIndex(t) =
              (2 * t[2] + t[4]) * NumCombinationAllPossible + PairPos(t[1], t[3])
<1>1. t[1] \in Var /\ t[2] \in Bit /\ t[3] \in Var /\ t[4] \in Bit /\ t[1] < t[3]
      /\ t = <<t[1], t[2], t[3], t[4]>>
  BY DEF Tuple
<1>2. t[1] \in Int /\ t[3] \in Int /\ NumVar \in Int
  BY <1>1, NumVarAssumption DEF Var
<1>. DEFINE q == ((2 * NumVar - t[1] - 1) * t[1]) \div 2
            b == (2 * t[2] + t[4]) * NumCombinationAllPossible
<1>3. q \in Int /\ b \in Int
  BY <1>1, <1>2, CombinationsTwice DEF Bit
<1>4. Get2TupleMapIndex(t) = b + q + t[3] - t[1] - 1 /\ PairPos(t[1], t[3]) = q + t[3] - t[1] - 1
  BY DEF Get2TupleMapIndex, PairPos
<1>. HIDE DEF q, b
<1>5. Get2TupleMapIndex(t) = b + PairPos(t[1], t[3])
  BY <1>2, <1>3, <1>4
<1>. QED BY <1>1, <1>5 DEF b

\* Get2TupleMapIndex stays below num_tuple_all_possible_, the size the bit
\* sets are made with.
THEOREM IndexInRange ==
  \A t \in Tuple : Get2TupleMapIndex(t) \in 0 .. NumTupleAllPossible - 1
<1>. SUFFICES ASSUME NEW t \in Tuple
              PROVE  Get2TupleMapIndex(t) \in 0 .. NumTupleAllPossible - 1
  OBVIOUS
<1>. DEFINE C == NumCombinationAllPossible
            p == PairPos(t[1], t[3])
            b == 2 * t[2] + t[4]
<1>1. C \in Nat /\ p \in Nat /\ p < C
  BY TupleFields, PairPosTwice, PairPosBound, CombinationsTwice
<1>2. b \in {0, 1, 2, 3}
  BY TupleFields DEF Bit
<1>3. Get2TupleMapIndex(t) = b * C + p /\ NumTupleAllPossible = C * 4
  BY TupleFields DEF NumTupleAllPossible
<1>. HIDE DEF C, p, b
<1>. QED BY <1>1, <1>2, <1>3

\* No two tuples share an index.
THEOREM IndexInjective ==
  \A s, t \in Tuple : Get2TupleMapIndex(s) = Get2TupleMapIndex(t) => s = t
<1>. SUFFICES ASSUME NEW s \in Tuple, NEW t \in Tuple,
                     Get2TupleMapIndex(s) = Get2TupleMapIndex(t)
              PROVE  s = t
  OBVIOUS
<1>. DEFINE C == NumCombinationAllPossible
            p == PairPos(s[1], s[3])
            q == PairPos(t[1], t[3])
            a == 2 * s[2] + s[4]
            b == 2 * t[2] + t[4]
<1>1. C \in Nat /\ p \in Nat /\ p < C /\ q \in Nat /\ q < C
  BY TupleFields, PairPosTwice, PairPosBound, CombinationsTwice
<1>2. a \in {0, 1, 2, 3} /\ b \in {0, 1, 2, 3}
  BY TupleFields DEF Bit
<1>3. a * C + p = b * C + q
  BY TupleFields
<1>4. a = b /\ p = q
  <2>. HIDE DEF C, p, q, a, b
  <2>. QED BY <1>1, <1>2, <1>3
<1>5. s[2] = t[2] /\ s[4] = t[4]
  BY <1>4, TupleFields DEF Bit
<1>6. s[1] = t[1] /\ s[3] = t[3]
  BY <1>4, TupleFields, PairPosInjective
<1>. QED BY <1>5, <1>6, TupleFields

-----------------------------------------------------------------------------
(* Words and bits *)

\* Division with remainder by the word width.
LEMMA WordSplit ==
  ASSUME NEW x \in Nat
  PROVE  /\ x \div WordBits \in Nat
         /\ x % WordBits \in 0 .. WordBits - 1
         /\ x = WordBits * (x \div WordBits) + (x % WordBits)
BY WordBitsAssumption

\* idx >> 5 and idx & 31 are a word and a bit of the array, and different
\* tuples have different ones.
THEOREM BitsDistinct ==
  /\ \A t \in Tuple : WordOf(t) \in 0 .. Capacity - 1 /\ BitOf(t) \in 0 .. WordBits - 1
  /\ \A s, t \in Tuple : WordOf(s) = WordOf(t) /\ BitOf(s) = BitOf(t) => s = t
<1>. DEFINE W == WordBits
            N == NumTupleAllPossible
            x(t) == Get2TupleMapIndex(t)
<1>1. W \in Nat /\ W >= 1 /\ N \in Nat
  BY WordBitsAssumption, CombinationsTwice DEF NumTupleAllPossible
<1>2. \A t \in Tuple : x(t) \in Nat /\ x(t) <= N - 1
  BY <1>1, IndexInRange
<1>3. ASSUME NEW t \in Tuple
      PROVE  WordOf(t) \in 0 .. Capacity - 1 /\ BitOf(t) \in 0 .. WordBits - 1
  <2>. DEFINE q == x(t) \div W
              m == (N + W - 1) \div W
  <2>1. q \in Nat /\ W * q <= x(t) /\ x(t) % W \in 0 .. W - 1
    BY <1>1, <1>2, WordSplit
  <2>2. m \in Int /\ N + W - 1 < W * (m + 1)
    <3>1. N + W - 1 \in Nat
      BY <1>1
    <3>. DEFINE z == N + W - 1
    <3>2. z \in Nat
      BY <3>1
    <3>. HIDE DEF z
    <3>3. z \div W \in Int /\ z < W * (z \div W + 1)
      BY <3>2, WordSplit, <1>1
    <3>. QED BY <3>3 DEF z
  <2>. HIDE DEF q, m
  <2>3. W * q < W * m
    <3>1. W * (m + 1) = W * m + W /\ W * m \in Int /\ W * q \in Int
      BY <1>1, <2>1, <2>2
    <3>. QED BY <1>1, <1>2, <2>1, <2>2, <3>1
  <2>4. q < m
    <3>1. SUFFICES ASSUME q >= m PROVE FALSE
      BY <2>1, <2>2
    <3>2. W * (q - m) >= 0 /\ W * (q - m) = W * q - W * m
      BY <1>1, <2>1, <2>2, <3>1
    <3>3. W * q \in Int /\ W * m \in Int
      BY <1>1, <2>1, <2>2
    <3>. QED BY <2>3, <3>2, <3>3
  <2>. QED BY <2>1, <2>2, <2>4 DEF WordOf, BitOf, Capacity, q, m
<1>4. ASSUME NEW s \in Tuple, NEW t \in Tuple, WordOf(s) = WordOf(t), BitOf(s) = BitOf(t)
      PROVE  s = t
  <2>1. x(s) = x(t)
    BY <1>2, <1>4, WordSplit DEF WordOf, BitOf
  <2>. QED BY <2>1, IndexInjective
<1>. QED BY <1>3, <1>4

-----------------------------------------------------------------------------
(* The inductive invariant, over a heap h and objects f *)

\* The tuples whose bit is set in the words w.
Held(w) == {t \in Tuple : BitOf(t) \in w[WordOf(t)]}

\* Every bit that is set is the bit of some tuple: the words have spare ones,
\* which a popcount would count and no tuple accounts for.
NoSpareBits(w) ==
  \A k \in 0 .. Capacity - 1 : \A b \in w[k] : \E t \in Tuple : WordOf(t) = k /\ BitOf(t) = b

Fields == [arr : Address \cup {Null}, cap : {0, Capacity}, cnt : Nat]

HoldingIn(f) == {o \in DOMAIN f : f[o].cap > 0}

ObjectsOk(f) ==
  /\ DOMAIN f \subseteq Obj
  /\ f \in [DOMAIN f -> Fields]
  /\ \A o \in DOMAIN f : (f[o].arr = Null => f[o].cap = 0) /\ (f[o].cap = 0 => f[o].cnt = 0)

OwnersOk(h, f) ==
  /\ DOMAIN h \subseteq Address
  /\ \A a \in DOMAIN h : \E o \in DOMAIN f : f[o].arr = a
  /\ \A o, p \in DOMAIN f : f[o].arr = f[p].arr /\ f[o].arr # Null => o = p

WordsOk(h, f) ==
  \A o \in DOMAIN f :
    f[o].arr # Null =>
      /\ f[o].arr \in DOMAIN h
      /\ h[f[o].arr] \in [0 .. f[o].cap - 1 -> SUBSET (0 .. WordBits - 1)]

CountsOk(h, f) ==
  \A o \in HoldingIn(f) :
    /\ f[o].cnt = Cardinality(Held(h[f[o].arr]))
    /\ NoSpareBits(h[f[o].arr])

Ok(h, f) == ObjectsOk(f) /\ OwnersOk(h, f) /\ WordsOk(h, f) /\ CountsOk(h, f)

BInv == ret \in BOOLEAN /\ Ok(heap, obj)

\* What the objects hold.
Sets(h, f)  == [o \in HoldingIn(f) |-> Held(h[f[o].arr])]
Blank(f)    == DOMAIN f \ HoldingIn(f)

-----------------------------------------------------------------------------
(* Facts about the words *)

LEMMA CapacityPositive == Capacity \in Nat \ {0}
<1>1. <<0, 0, 1, 0>> \in Tuple
  BY NumVarAssumption DEF Tuple, Var, Bit
<1>2. WordOf(<<0, 0, 1, 0>>) \in 0 .. Capacity - 1
  BY <1>1, BitsDistinct
<1>3. Capacity \in Int
  BY WordBitsAssumption, CombinationsTwice DEF Capacity, NumTupleAllPossible
<1>. QED
  BY <1>2, <1>3

LEMMA HeldFinite ==
  ASSUME NEW w
  PROVE  Held(w) \subseteq Tuple /\ IsFiniteSet(Held(w)) /\ Cardinality(Held(w)) \in Nat
  BY TupleFinite, FS_Subset, FS_CardinalityType DEF Held

\* What is known of an object with words.
LEMMA HoldingOwns ==
  ASSUME NEW h, NEW f, Ok(h, f), NEW o \in HoldingIn(f)
  PROVE  /\ o \in DOMAIN f /\ f[o] \in Fields /\ f[o].cap = Capacity
         /\ f[o].arr \in DOMAIN h /\ f[o].arr # Null
         /\ h[f[o].arr] \in WordArrays
         /\ f[o].cnt = Cardinality(Held(h[f[o].arr])) /\ NoSpareBits(h[f[o].arr])
<1>1. o \in DOMAIN f /\ f[o].cap > 0
  BY DEF HoldingIn
<1>2. f[o] \in Fields /\ (f[o].arr = Null => f[o].cap = 0)
  BY <1>1 DEF Ok, ObjectsOk
<1>3. f[o].cap = Capacity /\ f[o].arr # Null
  BY <1>1, <1>2 DEF Fields
<1>4. f[o].arr \in DOMAIN h /\ h[f[o].arr] \in WordArrays
  BY <1>1, <1>3 DEF Ok, WordsOk, WordArrays
<1>. QED
  BY <1>1, <1>2, <1>3, <1>4 DEF Ok, CountsOk

\* Setting the bit of t adds t and no other tuple.
LEMMA SetBit ==
  ASSUME NEW w \in WordArrays, NoSpareBits(w), NEW t \in Tuple, BitOf(t) \notin w[WordOf(t)],
         NEW v, v = [w EXCEPT ![WordOf(t)] = @ \cup {BitOf(t)}]
  PROVE  /\ v \in WordArrays /\ NoSpareBits(v)
         /\ Held(v) = Held(w) \cup {t}
         /\ Cardinality(Held(v)) = Cardinality(Held(w)) + 1
<1>1. WordOf(t) \in 0 .. Capacity - 1 /\ BitOf(t) \in 0 .. WordBits - 1
  BY BitsDistinct
<1>2. \A k \in 0 .. Capacity - 1 : v[k] = IF k = WordOf(t) THEN w[k] \cup {BitOf(t)} ELSE w[k]
  BY <1>1 DEF WordArrays
<1>3. v \in WordArrays
  BY <1>1 DEF WordArrays
<1>4. NoSpareBits(v)
  BY <1>2 DEF NoSpareBits
<1>5. Held(v) = Held(w) \cup {t}
  <2>1. ASSUME NEW s \in Tuple PROVE s \in Held(v) <=> s \in Held(w) \/ s = t
    <3>1. WordOf(s) \in 0 .. Capacity - 1
      BY BitsDistinct
    <3>2. WordOf(s) = WordOf(t) /\ BitOf(s) = BitOf(t) => s = t
      BY BitsDistinct
    <3>. QED
      BY <3>1, <3>2, <1>2 DEF Held
  <2>. QED
    BY <2>1 DEF Held
<1>6. t \notin Held(w)
  BY DEF Held
<1>. QED
  BY <1>3, <1>4, <1>5, <1>6, HeldFinite, FS_AddElement

\* Clearing it takes t out and no other tuple.
LEMMA ClearBit ==
  ASSUME NEW w \in WordArrays, NoSpareBits(w), NEW t \in Tuple, BitOf(t) \in w[WordOf(t)],
         NEW v, v = [w EXCEPT ![WordOf(t)] = @ \ {BitOf(t)}]
  PROVE  /\ v \in WordArrays /\ NoSpareBits(v)
         /\ Held(v) = Held(w) \ {t}
         /\ Cardinality(Held(v)) = Cardinality(Held(w)) - 1
<1>1. WordOf(t) \in 0 .. Capacity - 1 /\ BitOf(t) \in 0 .. WordBits - 1
  BY BitsDistinct
<1>2. \A k \in 0 .. Capacity - 1 : v[k] = IF k = WordOf(t) THEN w[k] \ {BitOf(t)} ELSE w[k]
  BY <1>1 DEF WordArrays
<1>3. v \in WordArrays
  BY <1>1 DEF WordArrays
<1>4. NoSpareBits(v)
  BY <1>2 DEF NoSpareBits
<1>5. Held(v) = Held(w) \ {t}
  <2>1. ASSUME NEW s \in Tuple PROVE s \in Held(v) <=> s \in Held(w) /\ s # t
    <3>1. WordOf(s) \in 0 .. Capacity - 1
      BY BitsDistinct
    <3>2. WordOf(s) = WordOf(t) /\ BitOf(s) = BitOf(t) => s = t
      BY BitsDistinct
    <3>. QED
      BY <3>1, <3>2, <1>2 DEF Held
  <2>. QED
    BY <2>1 DEF Held
<1>6. t \in Held(w)
  BY DEF Held
<1>. QED
  BY <1>3, <1>4, <1>5, <1>6, HeldFinite, FS_RemoveElement, ZenonT(40)

Subtracted(w, u) == [k \in 0 .. Capacity - 1 |-> w[k] \ u[k]]

CommonBits(w, u) ==
  {wb \in (0 .. Capacity - 1) \X (0 .. WordBits - 1) : wb[2] \in w[wb[1]] \cap u[wb[1]]}

\* Taking out the words of another set, and counting the bits taken out.
LEMMA SubtractWords ==
  ASSUME NEW w \in WordArrays, NoSpareBits(w), NEW u \in WordArrays,
         NEW v, v = Subtracted(w, u), NEW common, common = CommonBits(w, u)
  PROVE  /\ v \in WordArrays /\ NoSpareBits(v)
         /\ Held(v) = Held(w) \ Held(u)
         /\ Cardinality(Held(v)) = Cardinality(Held(w)) - Cardinality(common)
<1>1. v \in WordArrays /\ NoSpareBits(v)
  BY DEF WordArrays, NoSpareBits, Subtracted
<1>2. Held(v) = Held(w) \ Held(u)
  BY BitsDistinct DEF Held, Subtracted
<1>. DEFINE B == Held(w) \cap Held(u)
            f == [t \in B |-> <<WordOf(t), BitOf(t)>>]
<1>3. IsFiniteSet(B) /\ B \subseteq Held(w) /\ B \subseteq Tuple
  BY HeldFinite, FS_Subset
<1>4. \A t \in B : <<WordOf(t), BitOf(t)>> \in common
  BY BitsDistinct DEF Held, CommonBits
<1>5. f \in [B -> common]
  BY <1>4
<1>6. \A s, t \in B : f[s] = f[t] => s = t
  BY <1>3, BitsDistinct
<1>7. \A wb \in common : \E t \in B : f[t] = wb
  <2>1. SUFFICES ASSUME NEW wb \in common PROVE \E t \in B : f[t] = wb
    OBVIOUS
  <2>2. /\ wb = <<wb[1], wb[2]>> /\ wb[1] \in 0 .. Capacity - 1
        /\ wb[2] \in w[wb[1]] /\ wb[2] \in u[wb[1]]
    BY DEF CommonBits
  <2>3. PICK t \in Tuple : WordOf(t) = wb[1] /\ BitOf(t) = wb[2]
    BY <2>2 DEF NoSpareBits
  <2>4. t \in B
    BY <2>2, <2>3 DEF Held
  <2>. QED
    BY <2>2, <2>3, <2>4
<1>8. Cardinality(common) = Cardinality(B)
  BY <1>3, <1>5, <1>6, <1>7, BijectionCount
<1>9. Cardinality(Held(w) \ Held(u)) = Cardinality(Held(w)) - Cardinality(B)
  BY HeldFinite, FS_Difference
<1>. QED
  BY <1>1, <1>2, <1>8, <1>9

-----------------------------------------------------------------------------
(* What the operations do to heap and objects *)

\* An object is gone and its array deleted: the destructor, and the first
\* half of an assignment.
LEMMA Release ==
  ASSUME NEW h, NEW f, Ok(h, f), NEW o \in DOMAIN f, NEW k,
         k = IF f[o].arr = Null THEN h ELSE Without(h, f[o].arr),
         NEW g, g = Without(f, o)
  PROVE  /\ Ok(k, g)
         /\ Sets(k, g) = Without(Sets(h, f), o)
         /\ Blank(g) = Blank(f) \ {o}
         /\ \A p \in DOMAIN g : f[p].arr # Null => k[f[p].arr] = h[f[p].arr]
<1>1. DOMAIN g = DOMAIN f \ {o} /\ \A p \in DOMAIN g : g[p] = f[p]
  BY DEF Without
<1>2. \A p \in DOMAIN g : f[p].arr # Null =>
          f[p].arr \in DOMAIN k /\ k[f[p].arr] = h[f[p].arr]
  BY <1>1 DEF Ok, WordsOk, OwnersOk, Without
<1>3. \A a \in DOMAIN k : a \in DOMAIN h /\ a # f[o].arr
  BY BitSetAssumption DEF Without, Ok, OwnersOk
<1>4. ObjectsOk(g)
  BY <1>1 DEF Ok, ObjectsOk, Without
<1>5. OwnersOk(k, g)
  BY <1>1, <1>3 DEF Ok, OwnersOk
<1>6. WordsOk(k, g)
  BY <1>1, <1>2 DEF Ok, WordsOk
<1>7. HoldingIn(g) = HoldingIn(f) \ {o}
  BY <1>1 DEF HoldingIn
<1>8. \A p \in HoldingIn(g) : p \in DOMAIN g /\ g[p] = f[p] /\ k[g[p].arr] = h[f[p].arr]
  BY <1>1, <1>2, <1>7, HoldingOwns DEF HoldingIn
<1>9. CountsOk(k, g)
  BY <1>7, <1>8 DEF Ok, CountsOk
<1>10. Sets(k, g) = Without(Sets(h, f), o)
  <2>1. \A x \in HoldingIn(g) : Held(k[g[x].arr]) = Sets(h, f)[x]
    BY <1>7, <1>8 DEF Sets
  <2>2. HoldingIn(g) = DOMAIN Sets(h, f) \ {o}
    BY <1>7 DEF Sets
  <2>. QED
    BY <2>1, <2>2, ZenonT(40) DEF Sets, Without
<1>11. Blank(g) = Blank(f) \ {o}
  BY <1>1, <1>7 DEF Blank
<1>. QED
  BY <1>2, <1>4, <1>5, <1>6, <1>9, <1>10, <1>11 DEF Ok

\* An object gets a new array of its own: the constructors, and the second
\* half of a copy assignment.
LEMMA Adopt ==
  ASSUME NEW h, NEW f, Ok(h, f), NEW o \in Obj, o \notin DOMAIN f,
         NEW a \in Address, a \notin DOMAIN h,
         NEW w, NEW r \in Fields, r.arr = a,
         w \in [0 .. r.cap - 1 -> SUBSET (0 .. WordBits - 1)],
         r.cap = 0 => r.cnt = 0,
         r.cap > 0 => r.cnt = Cardinality(Held(w)) /\ NoSpareBits(w),
         NEW k, k = With(h, a, w), NEW g, g = With(f, o, r)
  PROVE  /\ Ok(k, g)
         /\ r.cap > 0 => /\ Sets(k, g) = With(Sets(h, f), o, Held(w))
                         /\ Blank(g) = Blank(f)
         /\ r.cap = 0 => Sets(k, g) = Sets(h, f) /\ Blank(g) = Blank(f) \cup {o}
<1>1. /\ DOMAIN g = DOMAIN f \cup {o} /\ g[o] = r
      /\ \A p \in DOMAIN f : p # o /\ g[p] = f[p]
  BY DEF With
<1>2. /\ DOMAIN k = DOMAIN h \cup {a} /\ k[a] = w
      /\ \A b \in DOMAIN h : b # a /\ k[b] = h[b]
  BY DEF With
<1>3. a # Null
  BY BitSetAssumption
<1>4. \A p \in DOMAIN f : f[p].arr # Null => f[p].arr \in DOMAIN h
  BY DEF Ok, WordsOk
<1>5. ObjectsOk(g)
  <2>1. \A p \in DOMAIN g : g[p] \in Fields
    BY <1>1 DEF Ok, ObjectsOk
  <2>2. g \in [DOMAIN g -> Fields]
    BY <2>1 DEF With
  <2>. QED
    BY <2>2, <1>1, <1>3 DEF Ok, ObjectsOk
<1>6. OwnersOk(k, g)
  BY <1>1, <1>2, <1>3, <1>4 DEF Ok, OwnersOk
<1>7. WordsOk(k, g)
  BY <1>1, <1>2, <1>4 DEF Ok, WordsOk
<1>8. HoldingIn(g) = IF r.cap > 0 THEN HoldingIn(f) \cup {o} ELSE HoldingIn(f)
  BY <1>1 DEF HoldingIn
<1>9. \A p \in HoldingIn(f) : p # o /\ g[p] = f[p] /\ k[g[p].arr] = h[f[p].arr]
  BY <1>1, <1>2, HoldingOwns DEF HoldingIn
<1>10. CountsOk(k, g)
  BY <1>1, <1>2, <1>8, <1>9 DEF Ok, CountsOk
<1>11. r.cap \in {0, Capacity}
  BY DEF Fields
<1>12. r.cap > 0 => /\ Sets(k, g) = With(Sets(h, f), o, Held(w))
                    /\ Blank(g) = Blank(f)
  <2>1. SUFFICES ASSUME r.cap > 0
                 PROVE  /\ Sets(k, g) = With(Sets(h, f), o, Held(w))
                        /\ Blank(g) = Blank(f)
    OBVIOUS
  <2>2. Blank(g) = Blank(f)
    BY <2>1, <1>1, <1>8, <1>9 DEF Blank
  <2>3. \A x \in HoldingIn(g) : Held(k[g[x].arr]) = IF x = o THEN Held(w) ELSE Sets(h, f)[x]
    BY <2>1, <1>1, <1>2, <1>8, <1>9 DEF Sets
  <2>. QED
    BY <2>1, <2>2, <2>3, <1>8 DEF Sets, With
<1>13. r.cap = 0 => Sets(k, g) = Sets(h, f) /\ Blank(g) = Blank(f) \cup {o}
  <2>1. SUFFICES ASSUME r.cap = 0
                 PROVE  Sets(k, g) = Sets(h, f) /\ Blank(g) = Blank(f) \cup {o}
    OBVIOUS
  <2>2. HoldingIn(g) = HoldingIn(f)
    BY <2>1, <1>8
  <2>. QED
    BY <2>2, <1>1, <1>9 DEF Sets, Blank, HoldingIn
<1>. QED
  BY <1>5, <1>6, <1>7, <1>10, <1>12, <1>13 DEF Ok

\* An object without an array is constructed.
LEMMA AddBlank ==
  ASSUME NEW h, NEW f, Ok(h, f), NEW o \in Obj, o \notin DOMAIN f,
         NEW g, g = With(f, o, NullObject)
  PROVE  Ok(h, g) /\ Sets(h, g) = Sets(h, f) /\ Blank(g) = Blank(f) \cup {o}
<1>1. /\ DOMAIN g = DOMAIN f \cup {o} /\ g[o] = NullObject
      /\ \A p \in DOMAIN f : p # o /\ g[p] = f[p]
  BY DEF With
<1>2. NullObject \in Fields /\ NullObject.arr = Null /\ NullObject.cap = 0 /\ NullObject.cnt = 0
  BY DEF NullObject, Fields
<1>3. ObjectsOk(g)
  <2>1. \A p \in DOMAIN g : g[p] \in Fields
    BY <1>1, <1>2 DEF Ok, ObjectsOk
  <2>2. g \in [DOMAIN g -> Fields]
    BY <2>1 DEF With
  <2>. QED
    BY <2>2, <1>1, <1>2 DEF Ok, ObjectsOk
<1>4. OwnersOk(h, g) /\ WordsOk(h, g)
  BY <1>1, <1>2 DEF Ok, OwnersOk, WordsOk
<1>5. HoldingIn(g) = HoldingIn(f)
  BY <1>1, <1>2 DEF HoldingIn
<1>6. \A p \in HoldingIn(f) : g[p] = f[p]
  BY <1>1 DEF HoldingIn
<1>7. CountsOk(h, g) /\ Sets(h, g) = Sets(h, f)
  BY <1>5, <1>6 DEF Ok, CountsOk, Sets
<1>8. Blank(g) = Blank(f) \cup {o}
  BY <1>1, <1>5 DEF Blank, HoldingIn
<1>. QED
  BY <1>3, <1>4, <1>7, <1>8 DEF Ok

\* The objects after p has been moved from.
MovedFrom(f, p) == [f EXCEPT ![p] = NullObject]

\* A new object o takes over the array of p: the second half of a move.
LEMMA HandOver ==
  ASSUME NEW h, NEW f, Ok(h, f), NEW o \in Obj, o \notin DOMAIN f, NEW p \in DOMAIN f,
         NEW g, g = With(MovedFrom(f, p), o, f[p])
  PROVE  /\ Ok(h, g)
         /\ p \in Blank(f) => Sets(h, g) = Sets(h, f) /\ Blank(g) = Blank(f) \cup {o}
         /\ p \notin Blank(f) =>
              /\ Sets(h, g) = With(Without(Sets(h, f), p), o, Sets(h, f)[p])
              /\ Blank(g) = Blank(f) \cup {p}
<1>1. /\ DOMAIN g = DOMAIN f \cup {o} /\ g[o] = f[p] /\ g[p] = NullObject /\ p # o
      /\ \A x \in DOMAIN f \ {p} : x # o /\ g[x] = f[x]
  BY DEF With, MovedFrom
<1>2. NullObject \in Fields /\ NullObject.arr = Null /\ NullObject.cap = 0 /\ NullObject.cnt = 0
  BY DEF NullObject, Fields
<1>3. ObjectsOk(g)
  <2>1. \A x \in DOMAIN g : g[x] \in Fields
    BY <1>1, <1>2 DEF Ok, ObjectsOk
  <2>2. g \in [DOMAIN g -> Fields]
    BY <2>1 DEF With, MovedFrom
  <2>. QED
    BY <2>2, <1>1, <1>2 DEF Ok, ObjectsOk
<1>4. OwnersOk(h, g)
  <2>1. ASSUME NEW a \in DOMAIN h PROVE \E x \in DOMAIN g : g[x].arr = a
    <3>1. PICK x \in DOMAIN f : f[x].arr = a
      BY DEF Ok, OwnersOk
    <3>2. CASE x = p
      BY <3>1, <3>2, <1>1
    <3>3. CASE x # p
      BY <3>1, <3>3, <1>1
    <3>. QED
      BY <3>2, <3>3
  <2>2. ASSUME NEW x \in DOMAIN g, NEW y \in DOMAIN g, g[x].arr = g[y].arr, g[x].arr # Null
        PROVE  x = y
    <3>1. x # p /\ y # p
      BY <2>2, <1>1, <1>2
    <3>2. \A q, s \in DOMAIN f : f[q].arr = f[s].arr /\ f[q].arr # Null => q = s
      BY DEF Ok, OwnersOk
    <3>3. CASE x = o
      BY <3>1, <3>2, <3>3, <2>2, <1>1
    <3>4. CASE y = o
      BY <3>1, <3>2, <3>4, <2>2, <1>1
    <3>5. CASE x # o /\ y # o
      BY <3>1, <3>2, <3>5, <2>2, <1>1
    <3>. QED
      BY <3>3, <3>4, <3>5
  <2>. QED
    BY <2>1, <2>2 DEF Ok, OwnersOk
<1>5. WordsOk(h, g)
  BY <1>1, <1>2 DEF Ok, WordsOk
<1>6. \A x \in HoldingIn(g) : (x = o /\ p \in HoldingIn(f) /\ g[x] = f[p])
                              \/ (x # o /\ x # p /\ x \in HoldingIn(f) /\ g[x] = f[x])
  <2>1. p \notin HoldingIn(g)
    BY <1>1, <1>2 DEF HoldingIn
  <2>2. SUFFICES ASSUME NEW x \in HoldingIn(g)
                 PROVE  (x = o /\ p \in HoldingIn(f) /\ g[x] = f[p])
                        \/ (x # o /\ x # p /\ x \in HoldingIn(f) /\ g[x] = f[x])
    OBVIOUS
  <2>3. x # p /\ x \in DOMAIN f \cup {o} /\ g[x].cap > 0
    BY <2>1, <1>1 DEF HoldingIn
  <2>4. CASE x = o
    BY <2>3, <2>4, <1>1 DEF HoldingIn
  <2>5. CASE x # o
    BY <2>3, <2>5, <1>1 DEF HoldingIn
  <2>. QED
    BY <2>4, <2>5
<1>7. CountsOk(h, g)
  BY <1>6 DEF Ok, CountsOk
<1>8. ASSUME p \in Blank(f)
      PROVE  Sets(h, g) = Sets(h, f) /\ Blank(g) = Blank(f) \cup {o}
  <2>1. p \notin HoldingIn(f)
    BY <1>8 DEF Blank
  <2>2. \A x \in HoldingIn(f) : g[x] = f[x] /\ x \in HoldingIn(g)
    BY <2>1, <1>1 DEF HoldingIn
  <2>3. HoldingIn(g) = HoldingIn(f)
    BY <2>1, <2>2, <1>6
  <2>. QED
    BY <2>3, <2>2, <1>1 DEF Sets, Blank, HoldingIn
<1>9. ASSUME p \notin Blank(f)
      PROVE  /\ Sets(h, g) = With(Without(Sets(h, f), p), o, Sets(h, f)[p])
             /\ Blank(g) = Blank(f) \cup {p}
  <2>1. p \in HoldingIn(f)
    BY <1>9 DEF Blank
  <2>2. o \in HoldingIn(g) /\ \A x \in HoldingIn(f) \ {p} : x \in HoldingIn(g)
    BY <2>1, <1>1 DEF HoldingIn
  <2>3. HoldingIn(g) = (HoldingIn(f) \ {p}) \cup {o}
    BY <2>2, <1>6
  <2>4. \A x \in HoldingIn(g) : Held(h[g[x].arr]) = IF x = o THEN Sets(h, f)[p] ELSE Sets(h, f)[x]
    BY <2>1, <2>3, <1>6 DEF Sets
  <2>5. Sets(h, g) = With(Without(Sets(h, f), p), o, Sets(h, f)[p])
    BY <2>3, <2>4 DEF Sets, With, Without
  <2>6. Blank(g) = Blank(f) \cup {p}
    BY <2>1, <2>3, <1>1 DEF Blank, HoldingIn
  <2>. QED
    BY <2>5, <2>6
<1>. QED
  BY <1>3, <1>4, <1>5, <1>7, <1>8, <1>9 DEF Ok

Replaced(f, x, y)  == [f EXCEPT ![x] = y]
Recounted(f, o, n) == [f EXCEPT ![o].cnt = n]

\* The words of one object change, and its counter with them.
LEMMA Rewrite ==
  ASSUME NEW h, NEW f, Ok(h, f), NEW o \in HoldingIn(f),
         NEW w \in WordArrays, NoSpareBits(w),
         NEW k, k = Replaced(h, f[o].arr, w),
         NEW g, g = Recounted(f, o, Cardinality(Held(w)))
  PROVE  /\ Ok(k, g)
         /\ Sets(k, g) = Replaced(Sets(h, f), o, Held(w))
         /\ Blank(g) = Blank(f)
<1>1. /\ o \in DOMAIN f /\ f[o] \in Fields /\ f[o].cap = Capacity
      /\ f[o].arr \in DOMAIN h /\ f[o].arr # Null
  BY HoldingOwns
<1>2. /\ DOMAIN g = DOMAIN f /\ g \in [DOMAIN f -> Fields]
      /\ g[o].cnt = Cardinality(Held(w)) /\ g[o].arr = f[o].arr /\ g[o].cap = f[o].cap
      /\ \A x \in DOMAIN f : x # o => g[x] = f[x]
  BY <1>1, HeldFinite DEF Ok, ObjectsOk, Fields, Recounted
<1>3. /\ DOMAIN k = DOMAIN h /\ k[f[o].arr] = w
      /\ \A a \in DOMAIN h : a # f[o].arr => k[a] = h[a]
  BY <1>1 DEF Replaced
<1>4. \A x \in DOMAIN f : x # o => f[x].arr # f[o].arr
  BY <1>1 DEF Ok, OwnersOk
<1>5. \A x \in DOMAIN f : f[x].arr # Null => f[x].arr \in DOMAIN h
  BY DEF Ok, WordsOk
<1>6. ObjectsOk(g)
  BY <1>1, <1>2, CapacityPositive DEF Ok, ObjectsOk
<1>7. OwnersOk(k, g)
  <2>1. \A x \in DOMAIN f : g[x].arr = f[x].arr
    BY <1>2
  <2>. QED
    BY <2>1, <1>2, <1>3 DEF Ok, OwnersOk
<1>8. WordsOk(k, g)
  BY <1>1, <1>2, <1>3, <1>4, <1>5 DEF Ok, WordsOk, WordArrays
<1>9. HoldingIn(g) = HoldingIn(f)
  BY <1>1, <1>2 DEF HoldingIn
<1>10. \A x \in HoldingIn(f) : x # o => g[x] = f[x] /\ k[g[x].arr] = h[f[x].arr]
  BY <1>2, <1>3, <1>4, HoldingOwns DEF HoldingIn
<1>11. CountsOk(k, g)
  BY <1>2, <1>3, <1>9, <1>10 DEF Ok, CountsOk
<1>12. \A x \in HoldingIn(f) : Held(k[g[x].arr]) = IF x = o THEN Held(w) ELSE Held(h[f[x].arr])
  BY <1>2, <1>3, <1>10
<1>13. Sets(k, g) = Replaced(Sets(h, f), o, Held(w))
  BY <1>9, <1>12 DEF Sets, Replaced
<1>. QED
  BY <1>2, <1>6, <1>7, <1>8, <1>9, <1>11, <1>13 DEF Ok, Blank

-----------------------------------------------------------------------------
(* Every operation is one of a set held by value *)

\* The variables of the abstract specification, before and after a step.
LEMMA Mapped ==
  /\ [o \in Holding |-> Contents(o)] = Sets(heap, obj)
  /\ Alive \ Holding = Blank(obj)
  /\ [o \in Holding |-> Contents(o)]' = Sets(heap', obj')
  /\ (Alive \ Holding)' = Blank(obj')
BY DEF Sets, Blank, HoldingIn, Held, Holding, Alive, Contents, Get

LEMMA DefaultStep ==
  ASSUME BInv, NEW o \in Obj, Default(o)
  PROVE  BInv' /\ Value!TNew(o)
<1>1. o \notin DOMAIN obj /\ obj' = With(obj, o, NullObject) /\ UNCHANGED <<heap, ret>>
  BY DEF Default, Alive
<1>2. Ok(heap, obj') /\ Sets(heap, obj') = Sets(heap, obj) /\ Blank(obj') = Blank(obj) \cup {o}
  BY <1>1, AddBlank DEF BInv
<1>3. BInv'
  BY <1>1, <1>2 DEF BInv
<1>4. o \notin DOMAIN Sets(heap, obj) \cup Blank(obj)
  BY <1>1 DEF Sets, Blank, HoldingIn
<1>. QED
  BY <1>1, <1>2, <1>3, <1>4, Mapped DEF Value!TNew, Value!Live

LEMMA SizedStep ==
  ASSUME BInv, NEW o \in Obj, Sized(o)
  PROVE  BInv' /\ Value!TNew(o)
<1>. DEFINE w == [k \in 0 .. Capacity - 1 |-> {}]
<1>1. PICK a \in Free : /\ heap' = With(heap, a, w)
                        /\ obj' = With(obj, o, [arr |-> a, cap |-> Capacity, cnt |-> 0])
  BY DEF Sized
<1>2. o \notin DOMAIN obj /\ UNCHANGED ret /\ a \in Address /\ a \notin DOMAIN heap
  BY DEF Sized, Alive, Free
<1>. DEFINE r == [arr |-> a, cap |-> Capacity, cnt |-> 0]
<1>3. r \in Fields /\ r.arr = a /\ r.cap = Capacity /\ r.cap > 0 /\ r.cap # 0 /\ r.cnt = 0
  BY <1>2, CapacityPositive DEF Fields
<1>4. Held(w) = {} /\ NoSpareBits(w)
  BY BitsDistinct DEF Held, NoSpareBits
<1>5. Cardinality(Held(w)) = 0
  BY <1>4, FS_EmptySet
<1>6. w \in [0 .. r.cap - 1 -> SUBSET (0 .. WordBits - 1)]
  BY <1>3
<1>. HIDE DEF w, r
<1>7. /\ Ok(heap', obj') /\ Blank(obj') = Blank(obj)
      /\ Sets(heap', obj') = With(Sets(heap, obj), o, Held(w))
  <2>1. heap' = With(heap, a, w) /\ obj' = With(obj, o, r)
    BY <1>1 DEF w, r
  <2>2. Ok(heap, obj) /\ o \notin DOMAIN obj /\ a \in Address /\ a \notin DOMAIN heap
    BY <1>2 DEF BInv
  <2>3. /\ r \in Fields /\ r.arr = a
        /\ w \in [0 .. r.cap - 1 -> SUBSET (0 .. WordBits - 1)]
        /\ r.cap = 0 => r.cnt = 0
        /\ r.cap > 0 => r.cnt = Cardinality(Held(w)) /\ NoSpareBits(w)
    BY <1>3, <1>4, <1>5, <1>6
  <2>. QED
    BY <2>1, <2>2, <2>3, <1>3, Adopt
<1>8. BInv'
  BY <1>2, <1>7 DEF BInv
<1>9. o \notin DOMAIN Sets(heap, obj) \cup Blank(obj)
  BY <1>2 DEF Sets, Blank, HoldingIn
<1>. QED
  BY <1>2, <1>4, <1>7, <1>8, <1>9, Mapped DEF Value!TNew, Value!Live, Value!Put, With

LEMMA DestroyStep ==
  ASSUME BInv, NEW o \in Obj, Destroy(o)
  PROVE  BInv' /\ Value!TDestroy(o)
<1>1. /\ o \in DOMAIN obj /\ UNCHANGED ret /\ obj' = Without(obj, o)
      /\ heap' = IF obj[o].arr = Null THEN heap ELSE Without(heap, obj[o].arr)
  BY DEF Destroy, Deleted, Alive
<1>2. /\ Ok(heap', obj') /\ Blank(obj') = Blank(obj) \ {o}
      /\ Sets(heap', obj') = Without(Sets(heap, obj), o)
  BY <1>1, Release DEF BInv
<1>3. BInv'
  BY <1>1, <1>2 DEF BInv
<1>4. o \in DOMAIN Sets(heap, obj) \cup Blank(obj)
  BY <1>1 DEF Sets, Blank, HoldingIn
<1>. QED
  BY <1>1, <1>2, <1>3, <1>4, Mapped DEF Value!TDestroy, Value!Live, Value!Drop, Without

\* An assignment or a constructor first frees what the target had, if it was
\* alive: heap k and objects f are what is left.
LEMMA Freed ==
  ASSUME Ok(heap, obj), NEW o \in Obj, NEW p \in Alive, o # p,
         NEW k, k = IF o \in Alive THEN Deleted(heap, o) ELSE heap,
         NEW f, f = Without(obj, o)
  PROVE  /\ Ok(k, f) /\ o \notin DOMAIN f /\ p \in DOMAIN f /\ f[p] = obj[p]
         /\ DOMAIN f \cup {o} = DOMAIN obj \cup {o}
         /\ \A x \in DOMAIN obj \ {o} : x \in DOMAIN f /\ f[x] = obj[x]
         /\ Sets(k, f) = Without(Sets(heap, obj), o)
         /\ Blank(f) = Blank(obj) \ {o}
         /\ obj[p].arr # Null => k[obj[p].arr] = heap[obj[p].arr]
<1>1. /\ DOMAIN f = DOMAIN obj \ {o} /\ \A x \in DOMAIN f : f[x] = obj[x]
      /\ p \in DOMAIN f
  BY DEF Without, Alive
<1>2. CASE o \in Alive
  <2>1. o \in DOMAIN obj /\ k = IF obj[o].arr = Null THEN heap ELSE Without(heap, obj[o].arr)
    BY <1>2 DEF Alive, Deleted
  <2>2. /\ Ok(k, f)
        /\ Sets(k, f) = Without(Sets(heap, obj), o)
        /\ Blank(f) = Blank(obj) \ {o}
        /\ \A q \in DOMAIN f : obj[q].arr # Null => k[obj[q].arr] = heap[obj[q].arr]
    BY <2>1, Release
  <2>. QED
    BY <2>2, <1>1
<1>3. CASE o \notin Alive
  <2>1. k = heap /\ o \notin DOMAIN obj /\ DOMAIN f = DOMAIN obj
    BY <1>1, <1>3 DEF Alive
  <2>2. f = obj
    BY <2>1 DEF Without, Ok, ObjectsOk
  <2>3. DOMAIN Sets(heap, obj) \ {o} = DOMAIN Sets(heap, obj) /\ Blank(obj) \ {o} = Blank(obj)
    BY <2>1 DEF Sets, Blank, HoldingIn
  <2>4. Sets(heap, obj) = Without(Sets(heap, obj), o)
    BY <2>3 DEF Sets, Without
  <2>. QED
    BY <2>1, <2>2, <2>3, <2>4, <1>1
<1>. QED
  BY <1>2, <1>3

\* Which of the two halves of the abstract state an object is in.
LEMMA HoldsOrBlank ==
  ASSUME BInv, NEW p \in DOMAIN obj
  PROVE  /\ p \in DOMAIN Sets(heap, obj) \cup Blank(obj)
         /\ p \in Blank(obj) => obj[p].cap = 0 /\ ~(obj[p].cap > 0)
         /\ p \notin Blank(obj) =>
              /\ p \in HoldingIn(obj) /\ p \in DOMAIN Sets(heap, obj)
              /\ obj[p].cap > 0 /\ obj[p].cap # 0 /\ obj[p].cap = Capacity
              /\ Sets(heap, obj)[p] = Held(heap[obj[p].arr])
<1>1. obj[p].cap \in {0, Capacity}
  BY DEF BInv, Ok, ObjectsOk, Fields
<1>. QED
  BY <1>1, CapacityPositive DEF Sets, Blank, HoldingIn

LEMMA CopyStep ==
  ASSUME BInv, NEW o \in Obj, NEW p \in Obj, Copy(o, p)
  PROVE  BInv' /\ Value!TCopy(o, p)
<1>. DEFINE k == IF o \in Alive THEN Deleted(heap, o) ELSE heap
            f == Without(obj, o)
            w == [x \in 0 .. obj[p].cap - 1 |-> heap[obj[p].arr][x]]
<1>1. PICK a \in Address \ DOMAIN k : /\ heap' = With(k, a, w)
                                      /\ obj' = With(obj, o, [obj[p] EXCEPT !.arr = a])
  BY DEF Copy
<1>. DEFINE r == [obj[p] EXCEPT !.arr = a]
<1>2. p \in Alive /\ p \in DOMAIN obj /\ o # p /\ UNCHANGED ret /\ Ok(heap, obj)
  BY DEF Copy, Alive, Holding, BInv
<1>3. obj[p] \in Fields /\ (obj[p].cap = 0 => obj[p].cnt = 0)
  BY <1>2 DEF Ok, ObjectsOk
<1>4. r \in Fields /\ r.arr = a /\ r.cap = obj[p].cap /\ r.cnt = obj[p].cnt
  BY <1>1, <1>3 DEF Fields
<1>5. p \notin Blank(obj) =>
        /\ w \in WordArrays /\ Held(w) = Sets(heap, obj)[p] /\ NoSpareBits(w)
        /\ obj[p].cnt = Cardinality(Held(w)) /\ w \in [0 .. obj[p].cap - 1 -> SUBSET (0 .. WordBits - 1)]
  <2>1. SUFFICES ASSUME p \notin Blank(obj)
                 PROVE  /\ w \in WordArrays /\ Held(w) = Sets(heap, obj)[p] /\ NoSpareBits(w)
                        /\ obj[p].cnt = Cardinality(Held(w))
                        /\ w \in [0 .. obj[p].cap - 1 -> SUBSET (0 .. WordBits - 1)]
    OBVIOUS
  <2>2. p \in HoldingIn(obj) /\ obj[p].cap = Capacity /\ Sets(heap, obj)[p] = Held(heap[obj[p].arr])
    BY <2>1, <1>2, HoldsOrBlank
  <2>3. heap[obj[p].arr] \in WordArrays /\ NoSpareBits(heap[obj[p].arr])
        /\ obj[p].cnt = Cardinality(Held(heap[obj[p].arr]))
    BY <2>2, <1>2, HoldingOwns
  <2>4. w = heap[obj[p].arr]
    BY <2>2, <2>3 DEF WordArrays
  <2>. QED
    BY <2>2, <2>3, <2>4 DEF WordArrays
<1>6. p \notin Blank(obj)
  BY <1>2, HoldsOrBlank DEF Copy, Holding
<1>7. obj' = With(f, o, r)
  BY <1>1 DEF With, Without
<1>. HIDE DEF k, f, w, r
<1>8. /\ Ok(k, f) /\ o \notin DOMAIN f
      /\ Sets(k, f) = Without(Sets(heap, obj), o) /\ Blank(f) = Blank(obj) \ {o}
  BY <1>2, Freed DEF k, f
<1>9. /\ r.cap = 0 => r.cnt = 0
      /\ r.cap > 0 => r.cnt = Cardinality(Held(w)) /\ NoSpareBits(w)
      /\ w \in [0 .. r.cap - 1 -> SUBSET (0 .. WordBits - 1)]
  BY <1>2, <1>3, <1>4, <1>5, <1>6, HoldsOrBlank
<1>10. heap' = With(k, a, w) /\ a \in Address /\ a \notin DOMAIN k
  BY <1>1 DEF k, w
<1>11. /\ Ok(heap', obj')
       /\ r.cap > 0 => /\ Sets(heap', obj') = With(Sets(k, f), o, Held(w))
                       /\ Blank(obj') = Blank(f)
       /\ r.cap = 0 => Sets(heap', obj') = Sets(k, f) /\ Blank(obj') = Blank(f) \cup {o}
  BY <1>4, <1>7, <1>8, <1>9, <1>10, Adopt
<1>12. BInv'
  BY <1>2, <1>11 DEF BInv
<1>13. r.cap > 0 /\ p \in DOMAIN Sets(heap, obj)
  BY <1>2, <1>4, <1>6, HoldsOrBlank
<1>14. Sets(heap', obj') = With(Sets(heap, obj), o, Sets(heap, obj)[p])
  BY <1>13, <1>5, <1>6, <1>8, <1>11 DEF With, Without
<1>15. Blank(obj') = Blank(obj) \ {o}
  BY <1>13, <1>8, <1>11
<1>. QED
  BY <1>13, <1>14, <1>15, <1>2, <1>12, Mapped DEF Value!TCopy, Value!Put, With

LEMMA MoveStep ==
  ASSUME BInv, NEW o \in Obj, NEW p \in Obj, Move(o, p)
  PROVE  BInv' /\ Value!TMove(o, p)
<1>. DEFINE k == IF o \in Alive THEN Deleted(heap, o) ELSE heap
            f == Without(obj, o)
<1>1. /\ p \in Alive /\ p \in DOMAIN obj /\ o # p /\ UNCHANGED ret /\ Ok(heap, obj)
      /\ heap' = k /\ obj' = With([obj EXCEPT ![p] = NullObject], o, obj[p])
  BY DEF Move, Alive, BInv
<1>. HIDE DEF k, f
<1>2. /\ Ok(k, f) /\ o \notin DOMAIN f /\ p \in DOMAIN f /\ f[p] = obj[p]
      /\ Sets(k, f) = Without(Sets(heap, obj), o) /\ Blank(f) = Blank(obj) \ {o}
  BY <1>1, Freed DEF k, f
<1>3. obj' = With(MovedFrom(f, p), o, f[p])
  BY <1>1, <1>2 DEF With, Without, MovedFrom, f
<1>4. /\ Ok(heap', obj')
      /\ p \in Blank(f) => Sets(heap', obj') = Sets(k, f) /\ Blank(obj') = Blank(f) \cup {o}
      /\ p \notin Blank(f) =>
           /\ Sets(heap', obj') = With(Without(Sets(k, f), p), o, Sets(k, f)[p])
           /\ Blank(obj') = Blank(f) \cup {p}
  <2>1. Ok(k, f) /\ o \notin DOMAIN f /\ p \in DOMAIN f
    BY <1>2
  <2>2. heap' = k
    BY <1>1
  <2>. QED
    BY <2>1, <2>2, <1>3, HandOver
<1>5. BInv'
  BY <1>1, <1>4 DEF BInv
<1>6. CASE p \in Blank(obj)
  <2>1. Sets(heap', obj') = Without(Sets(heap, obj), o) /\ Blank(obj') = Blank(obj) \cup {o}
    BY <1>1, <1>2, <1>4, <1>6
  <2>. QED
    BY <2>1, <1>1, <1>5, <1>6, Mapped DEF Value!TMove, Value!Live, Value!Drop, Without
<1>7. CASE p \notin Blank(obj)
  <2>1. p \in DOMAIN Sets(heap, obj)
    BY <1>1, <1>7, HoldsOrBlank
  <2>2. Sets(heap', obj') = With(Without(Sets(heap, obj), p), o, Sets(heap, obj)[p])
    BY <2>1, <1>1, <1>2, <1>4, <1>7 DEF With, Without
  <2>3. Blank(obj') = (Blank(obj) \ {o}) \cup {p}
    BY <1>2, <1>4, <1>7
  <2>. QED
    BY <2>1, <2>2, <2>3, <1>1, <1>5, <1>7, Mapped
    DEF Value!TMove, Value!Live, Value!Put, Value!Drop, With, Without
<1>. QED
  BY <1>6, <1>7

LEMMA SetStep ==
  ASSUME BInv, NEW o \in Obj, NEW t \in Touched, Set(o, t)
  PROVE  BInv' /\ Value!TSet(o, t)
<1>. DEFINE a == obj[o].arr
            w == heap[a]
            v == [w EXCEPT ![WordOf(t)] = @ \cup {BitOf(t)}]
<1>1. /\ o \in HoldingIn(obj) /\ t \in Tuple /\ Ok(heap, obj)
      /\ ret' = ~Get(o, t) /\ (Get(o, t) <=> BitOf(t) \in w[WordOf(t)])
  BY BitSetAssumption DEF Set, Holding, HoldingIn, Alive, BInv, Get
<1>2. /\ a \in DOMAIN heap /\ w \in WordArrays /\ NoSpareBits(w) /\ o \in DOMAIN obj
      /\ obj[o] \in Fields /\ obj[o].cnt = Cardinality(Held(w))
  BY <1>1, HoldingOwns
<1>3. o \in DOMAIN Sets(heap, obj) /\ Sets(heap, obj)[o] = Held(w)
  BY <1>1 DEF Sets
<1>4. Get(o, t) <=> t \in Held(w)
  BY <1>1 DEF Held
<1>5. CASE Get(o, t)
  <2>1. UNCHANGED <<heap, obj>> /\ ret' = FALSE
    BY <1>1, <1>5 DEF Set
  <2>2. BInv'
    BY <2>1, <1>1 DEF BInv
  <2>3. Sets(heap, obj) = [Sets(heap, obj) EXCEPT ![o] = @ \cup {t}]
    BY <1>3, <1>4, <1>5 DEF Sets
  <2>. QED
    BY <2>1, <2>2, <2>3, <1>3, <1>4, <1>5, Mapped DEF Value!TSet
<1>6. CASE ~Get(o, t)
  <2>1. heap' = Replaced(heap, a, v)
    BY <1>6, <1>2 DEF Set, Replaced
  <2>2. obj' = [obj EXCEPT ![o].cnt = @ + 1]
    BY <1>6 DEF Set
  <2>3. /\ v \in WordArrays /\ NoSpareBits(v) /\ Held(v) = Held(w) \cup {t}
        /\ Cardinality(Held(v)) = Cardinality(Held(w)) + 1
    BY <1>1, <1>2, <1>6, SetBit
  <2>. HIDE DEF v
  <2>4. obj' = Recounted(obj, o, Cardinality(Held(v)))
    BY <2>2, <2>3, <1>2 DEF Recounted
  <2>5. /\ Ok(heap', obj') /\ Blank(obj') = Blank(obj)
        /\ Sets(heap', obj') = Replaced(Sets(heap, obj), o, Held(v))
    BY <2>1, <2>3, <2>4, <1>1, Rewrite, SMTT(30)
  <2>6. BInv'
    BY <2>5, <1>1 DEF BInv
  <2>7. Sets(heap', obj') = [Sets(heap, obj) EXCEPT ![o] = @ \cup {t}]
    BY <2>3, <2>5, <1>3 DEF Replaced
  <2>. QED
    BY <2>5, <2>6, <2>7, <1>1, <1>3, <1>4, <1>6, Mapped DEF Value!TSet
<1>. QED
  BY <1>5, <1>6

LEMMA UnsetStep ==
  ASSUME BInv, NEW o \in Obj, NEW t \in Touched, Unset(o, t)
  PROVE  BInv' /\ Value!TUnset(o, t)
<1>. DEFINE a == obj[o].arr
            w == heap[a]
            v == [w EXCEPT ![WordOf(t)] = @ \ {BitOf(t)}]
<1>1. /\ o \in HoldingIn(obj) /\ t \in Tuple /\ Ok(heap, obj)
      /\ ret' = Get(o, t) /\ (Get(o, t) <=> BitOf(t) \in w[WordOf(t)])
  BY BitSetAssumption DEF Unset, Holding, HoldingIn, Alive, BInv, Get
<1>2. /\ a \in DOMAIN heap /\ w \in WordArrays /\ NoSpareBits(w) /\ o \in DOMAIN obj
      /\ obj[o] \in Fields /\ obj[o].cnt = Cardinality(Held(w))
  BY <1>1, HoldingOwns
<1>3. o \in DOMAIN Sets(heap, obj) /\ Sets(heap, obj)[o] = Held(w)
  BY <1>1 DEF Sets
<1>4. Get(o, t) <=> t \in Held(w)
  BY <1>1 DEF Held
<1>5. (ret' <=> t \in Held(w)) /\ ret' \in BOOLEAN
  <2>1. ret' = (BitOf(t) \in w[WordOf(t)])
    BY DEF Unset, Get
  <2>2. BitOf(t) \in w[WordOf(t)] <=> t \in Held(w)
    BY <1>1 DEF Held
  <2>3. (BitOf(t) \in w[WordOf(t)]) \in BOOLEAN
    OBVIOUS
  <2>4. ret' \in BOOLEAN
    BY ONLY <2>1, <2>3, Zenon
  <2>5. ret' <=> BitOf(t) \in w[WordOf(t)]
    BY ONLY <2>1, Zenon
  <2>. QED
    BY <2>2, <2>4, <2>5, Zenon
<1>6. ret' = (t \in Held(w))
  BY <1>5
<1>7. CASE ~Get(o, t)
  <2>1. UNCHANGED <<heap, obj>>
    BY <1>7 DEF Unset
  <2>2. BInv'
    BY <2>1, <1>1, <1>5 DEF BInv
  <2>3. Sets(heap, obj) = [Sets(heap, obj) EXCEPT ![o] = @ \ {t}]
    BY <1>3, <1>4, <1>7 DEF Sets
  <2>. QED
    BY <2>1, <2>2, <2>3, <1>3, <1>6, Mapped DEF Value!TUnset
<1>8. CASE Get(o, t)
  <2>1. heap' = Replaced(heap, a, v)
    BY <1>8, <1>2 DEF Unset, Replaced
  <2>2. obj' = [obj EXCEPT ![o].cnt = @ - 1]
    BY <1>8 DEF Unset
  <2>3. /\ v \in WordArrays /\ NoSpareBits(v) /\ Held(v) = Held(w) \ {t}
        /\ Cardinality(Held(v)) = Cardinality(Held(w)) - 1
    BY <1>1, <1>2, <1>8, ClearBit
  <2>. HIDE DEF v
  <2>4. obj' = Recounted(obj, o, Cardinality(Held(v)))
    BY <2>2, <2>3, <1>2 DEF Recounted
  <2>5. /\ Ok(heap', obj') /\ Blank(obj') = Blank(obj)
        /\ Sets(heap', obj') = Replaced(Sets(heap, obj), o, Held(v))
    BY <2>1, <2>3, <2>4, <1>1, Rewrite
  <2>6. BInv'
    BY <2>5, <1>1, <1>8 DEF BInv
  <2>7. Sets(heap', obj') = [Sets(heap, obj) EXCEPT ![o] = @ \ {t}]
    BY <2>3, <2>5, <1>3 DEF Replaced
  <2>. QED
    BY <2>5, <2>6, <2>7, <1>1, <1>3, <1>4, <1>8, Mapped DEF Value!TUnset
<1>. QED
  BY <1>7, <1>8

LEMMA DifferenceStep ==
  ASSUME BInv, NEW o \in Obj, NEW p \in Obj, Difference(o, p)
  PROVE  BInv' /\ Value!TDifference(o, p)
<1>. DEFINE w == heap[obj[o].arr]
            u == heap[obj[p].arr]
            c == obj[o].cap
            v == [k \in 0 .. c - 1 |-> w[k] \ u[k]]
            common == {wb \in (0 .. c - 1) \X (0 .. WordBits - 1) : wb[2] \in w[wb[1]] \cap u[wb[1]]}
<1>1. /\ heap' = [heap EXCEPT ![obj[o].arr] = v]
      /\ obj' = [obj EXCEPT ![o].cnt = @ - Cardinality(common)]
  BY DEF Difference
<1>2. o \in HoldingIn(obj) /\ p \in HoldingIn(obj) /\ Ok(heap, obj) /\ UNCHANGED ret
  BY DEF Difference, Holding, HoldingIn, Alive, BInv
<1>3. /\ w \in WordArrays /\ NoSpareBits(w) /\ o \in DOMAIN obj /\ c = Capacity
      /\ obj[o].cnt = Cardinality(Held(w)) /\ u \in WordArrays
  BY <1>2, HoldingOwns
<1>4. /\ o \in DOMAIN Sets(heap, obj) /\ Sets(heap, obj)[o] = Held(w)
      /\ p \in DOMAIN Sets(heap, obj) /\ Sets(heap, obj)[p] = Held(u)
  BY <1>2 DEF Sets
<1>5. v = Subtracted(w, u) /\ common = CommonBits(w, u)
  BY <1>3 DEF Subtracted, CommonBits
<1>. HIDE DEF v, common, w, u
<1>6. /\ v \in WordArrays /\ NoSpareBits(v) /\ Held(v) = Held(w) \ Held(u)
      /\ Cardinality(Held(v)) = Cardinality(Held(w)) - Cardinality(common)
  BY <1>3, <1>5, SubtractWords
<1>7. heap' = Replaced(heap, obj[o].arr, v) /\ obj' = Recounted(obj, o, Cardinality(Held(v)))
  BY <1>1, <1>3, <1>6 DEF Replaced, Recounted
<1>8. /\ Ok(heap', obj') /\ Blank(obj') = Blank(obj)
      /\ Sets(heap', obj') = Replaced(Sets(heap, obj), o, Held(v))
  BY <1>2, <1>6, <1>7, Rewrite
<1>9. BInv'
  BY <1>2, <1>8 DEF BInv
<1>10. Sets(heap', obj') = [Sets(heap, obj) EXCEPT ![o] = @ \ Sets(heap, obj)[p]]
  BY <1>4, <1>6, <1>8 DEF Replaced
<1>. QED
  BY <1>2, <1>4, <1>8, <1>9, <1>10, Mapped DEF Value!TDifference

-----------------------------------------------------------------------------
(* The theorems *)

LEMMA BInvInit == BInit => BInv /\ Value!TInit
<1>. SUFFICES ASSUME BInit PROVE BInv /\ Value!TInit
  OBVIOUS
<1>1. DOMAIN heap = {} /\ DOMAIN obj = {} /\ obj = [o \in {} |-> NullObject] /\ ret = FALSE
  BY DEF BInit
<1>2. HoldingIn(obj) = {} /\ Blank(obj) = {}
  BY <1>1 DEF HoldingIn, Blank
<1>3. Sets(heap, obj) = [o \in {} |-> {}]
  BY <1>2 DEF Sets
<1>4. ObjectsOk(obj) /\ OwnersOk(heap, obj)
  BY <1>1 DEF ObjectsOk, OwnersOk
<1>5. WordsOk(heap, obj) /\ CountsOk(heap, obj)
  BY <1>1, <1>2 DEF WordsOk, CountsOk
<1>. QED
  BY <1>1, <1>2, <1>3, <1>4, <1>5, Mapped DEF BInv, Ok, Value!TInit

LEMMA BInvNext == BInv /\ [BNext]_bvars => BInv' /\ [Value!TNext]_(Value!tvars)
<1>. SUFFICES ASSUME BInv, [BNext]_bvars PROVE BInv' /\ [Value!TNext]_(Value!tvars)
  OBVIOUS
<1>1. CASE UNCHANGED bvars
  <2>1. heap' = heap /\ obj' = obj /\ ret' = ret
    BY <1>1 DEF bvars
  <2>. QED
    BY <2>1, Mapped DEF BInv, Value!tvars
<1>2. ASSUME NEW o \in Obj, Default(o) PROVE BInv' /\ Value!TNext
  BY <1>2, DefaultStep DEF Value!TNext
<1>3. ASSUME NEW o \in Obj, Sized(o) PROVE BInv' /\ Value!TNext
  BY <1>3, SizedStep DEF Value!TNext
<1>4. ASSUME NEW o \in Obj, Destroy(o) PROVE BInv' /\ Value!TNext
  BY <1>4, DestroyStep DEF Value!TNext
<1>5. ASSUME NEW o \in Obj, NEW p \in Obj, Copy(o, p) PROVE BInv' /\ Value!TNext
  BY <1>5, CopyStep DEF Value!TNext
<1>6. ASSUME NEW o \in Obj, NEW p \in Obj, Move(o, p) PROVE BInv' /\ Value!TNext
  BY <1>6, MoveStep DEF Value!TNext
<1>7. ASSUME NEW o \in Obj, NEW p \in Obj, Difference(o, p) PROVE BInv' /\ Value!TNext
  BY <1>7, DifferenceStep DEF Value!TNext
<1>8. \A t \in Touched : t \in Value!Tuple
  BY BitSetAssumption DEF Tuple, Var, Bit, Value!Tuple, Value!Var, Value!Bit
<1>9. ASSUME NEW o \in Obj, NEW t \in Touched, Set(o, t) PROVE BInv' /\ Value!TNext
  BY <1>8, <1>9, SetStep DEF Value!TNext
<1>10. ASSUME NEW o \in Obj, NEW t \in Touched, Unset(o, t) PROVE BInv' /\ Value!TNext
  BY <1>8, <1>10, UnsetStep DEF Value!TNext
<1>. QED
  BY <1>1, <1>2, <1>3, <1>4, <1>5, <1>6, <1>7, <1>9, <1>10 DEF BNext

\* The invariant says what the run checks.
LEMMA BInvImplies ==
  ASSUME BInv
  PROVE  BitSetTypeOK /\ ArraysOwned /\ CountExact
<1>1. CountExact
  <2>1. ASSUME NEW o \in Holding PROVE obj[o].cnt = Cardinality(Contents(o))
    <3>1. o \in HoldingIn(obj) /\ Contents(o) = Held(heap[obj[o].arr])
      BY DEF Holding, HoldingIn, Alive, Contents, Get, Held
    <3>. QED
      BY <3>1, HoldingOwns DEF BInv
  <2>. QED
    BY <2>1 DEF CountExact
<1>2. ArraysOwned
  <2>1. \A a \in DOMAIN heap : a # Null
    BY BitSetAssumption DEF BInv, Ok, OwnersOk
  <2>2. \A a \in DOMAIN heap :
          \E o \in Alive : obj[o].arr = a /\ \A p \in Alive \ {o} : obj[p].arr # a
    BY <2>1 DEF BInv, Ok, OwnersOk, Alive
  <2>. QED
    BY <2>2 DEF ArraysOwned, BInv, Ok, WordsOk, Alive
<1>3. BitSetTypeOK
  BY DEF BitSetTypeOK, BInv, Ok, ObjectsOk, OwnersOk, Fields, Alive
<1>. QED
  BY <1>1, <1>2, <1>3

LEMMA BInvAlways == BSpec => []BInv
<1>1. BInit => BInv
  BY BInvInit
<1>2. BInv /\ [BNext]_bvars => BInv'
  BY BInvNext
<1>. QED
  BY <1>1, <1>2, PTL DEF BSpec

\* Every object keeps its fields in range; in particular no sequence of sets,
\* clears, differences, copies and moves takes the unsigned counter below 0.
THEOREM BitSetTypeCorrect == BSpec => []BitSetTypeOK
<1>1. BInv => BitSetTypeOK
  BY BInvImplies
<1>. QED
  BY <1>1, BInvAlways, PTL

\* Whatever std::sort and the vectors do with the sets, each array belongs to
\* one live object: none is freed twice, used after delete [] or leaked.
THEOREM ArraysAlwaysOwned == BSpec => []ArraysOwned
<1>1. BInv => ArraysOwned
  BY BInvImplies
<1>. QED
  BY <1>1, BInvAlways, PTL

\* count() is the number of tuples in the set, for any number of options and
\* any width of the words.
THEOREM CountAlwaysExact == BSpec => []CountExact
<1>1. BInv => CountExact
  BY BInvImplies
<1>. QED
  BY <1>1, BInvAlways, PTL

\* A SimpleBitSet is a variable holding a set of tuples by value: each
\* operation is the abstract one, on its own object only.
THEOREM BitSetImplementsSets == BSpec => ImplementsSets
<1>1. BInit => Value!TInit
  BY BInvInit
<1>2. BInv /\ [BNext]_bvars => [Value!TNext]_(Value!tvars)
  BY BInvNext
<1>. QED
  BY <1>1, <1>2, BInvAlways, PTL DEF BSpec, ImplementsSets, Value!TSpec

-----------------------------------------------------------------------------
(* The heap: positions *)

\* The array holds each of its options once, where the indices have it.
ExactHeap(g) ==
  /\ g.heap \in Seq(Var) /\ g.indices \in [Var -> Nat]
  /\ \A k \in DOMAIN g.heap : g.indices[g.heap[k]] = k
  /\ \A x \in Var : g.indices[x] # 0 => /\ g.indices[x] \in DOMAIN g.heap
                                       /\ g.heap[g.indices[x]] = x

HeapRecord == [heap : Seq(Var), indices : [Var -> Nat]]

\* From position i on, no item comes before the one at its parent.
OrderedFrom(q, s, i) == \A k \in 2 .. Len(s) : k \div 2 >= i => q[s[k \div 2]] <= q[s[k]]

LEMMA HalfFacts ==
  ASSUME NEW k \in Nat \ {0}
  PROVE  /\ k \div 2 \in Nat /\ k \div 2 < k /\ 2 * (k \div 2) <= k /\ k <= 2 * (k \div 2) + 1
         /\ k # 1 => k \div 2 >= 1
  OBVIOUS

LEMMA ExactOnce ==
  ASSUME NEW g, ExactHeap(g)
  PROVE  /\ \A j, k \in DOMAIN g.heap : g.heap[j] = g.heap[k] => j = k
         /\ \A x \in Var : g.indices[x] # 0 <=> x \in ToSet(g.heap)
<1>1. \A k \in DOMAIN g.heap : k # 0
  BY DEF ExactHeap
<1>. QED BY <1>1 DEF ExactHeap, ToSet

\* f puts the items that s has at some positions at these positions again.
Rearranges(s, f) ==
  /\ DOMAIN f \subseteq DOMAIN s
  /\ \A j, k \in DOMAIN f : f[j] = f[k] => j = k
  /\ \A k \in DOMAIN f : \E j \in DOMAIN f : f[k] = s[j]
  /\ \A j \in DOMAIN f : \E k \in DOMAIN f : f[k] = s[j]

LEMMA PlaceExact ==
  ASSUME NEW g, ExactHeap(g), NEW f, Rearranges(g.heap, f)
  PROVE  /\ ExactHeap(Place(g, f)) /\ Place(g, f) \in HeapRecord
         /\ Len(Place(g, f).heap) = Len(g.heap) /\ ToSet(Place(g, f).heap) = ToSet(g.heap)
         /\ \A k \in DOMAIN g.heap :
              Place(g, f).heap[k] = IF k \in DOMAIN f THEN f[k] ELSE g.heap[k]
<1>. DEFINE s == g.heap
            t == Place(g, f).heap
            ind == Place(g, f).indices
            n == Len(s)
<1>1. /\ n \in Nat /\ DOMAIN s = 1 .. n /\ \A k \in 1 .. n : s[k] \in Var /\ g.indices[s[k]] = k
      /\ \A x \in Var : g.indices[x] \in Nat
      /\ \A x \in Var : g.indices[x] # 0 => g.indices[x] \in 1 .. n /\ s[g.indices[x]] = x
  BY DEF ExactHeap
<1>2. /\ DOMAIN f \subseteq 1 .. n /\ \A j, k \in DOMAIN f : f[j] = f[k] => j = k
      /\ \A k \in DOMAIN f : \E j \in DOMAIN f : f[k] = s[j]
      /\ \A j \in DOMAIN f : \E k \in DOMAIN f : f[k] = s[j]
  BY <1>1 DEF Rearranges
<1>3. /\ t = [k \in 1 .. n |-> IF k \in DOMAIN f THEN f[k] ELSE s[k]]
      /\ ind = [x \in Var |-> IF \E k \in DOMAIN f : f[k] = x
                              THEN CHOOSE k \in DOMAIN f : f[k] = x
                              ELSE g.indices[x]]
  BY <1>1 DEF Place
<1>. HIDE DEF s
<1>4. ASSUME NEW k \in 1 .. n PROVE t[k] \in Var
  <2>1. k \in DOMAIN f => f[k] \in Var
    BY <1>1, <1>2
  <2>. QED BY <2>1, <1>1, <1>3
<1>5. t \in Seq(Var) /\ Len(t) = n /\ DOMAIN t = 1 .. n
  BY <1>1, <1>3, <1>4
<1>6. ASSUME NEW x \in Var, NEW k \in DOMAIN f, f[k] = x PROVE ind[x] = k
  <2>1. (CHOOSE j \in DOMAIN f : f[j] = x) = k
    BY <1>2, <1>6
  <2>. QED BY <2>1, <1>3, <1>6
<1>7. ASSUME NEW x \in Var, \A k \in DOMAIN f : f[k] # x PROVE ind[x] = g.indices[x]
  BY <1>3, <1>7
<1>. HIDE DEF t, ind
<1>8. ind \in [Var -> Nat]
  <2>1. ASSUME NEW x \in Var PROVE ind[x] \in Nat
    <3>1. CASE \E k \in DOMAIN f : f[k] = x
      <4>1. PICK k \in DOMAIN f : f[k] = x
        BY <3>1
      <4>2. ind[x] = k /\ k \in 1 .. n
        BY <4>1, <1>2, <1>6
      <4>. QED BY <4>2
    <3>2. CASE \A k \in DOMAIN f : f[k] # x
      BY <3>2, <1>1, <1>7
    <3>. QED BY <3>1, <3>2
  <2>. QED BY <2>1, <1>3
<1>9. ASSUME NEW k \in 1 .. n PROVE ind[t[k]] = k
  <2>1. CASE k \in DOMAIN f
    BY <2>1, <1>3, <1>4, <1>6
  <2>2. CASE k \notin DOMAIN f
    <3>1. t[k] = s[k] /\ s[k] \in Var
      BY <2>2, <1>1, <1>3
    <3>2. ASSUME NEW j \in DOMAIN f, f[j] = s[k] PROVE FALSE
      <4>1. PICK i \in DOMAIN f : f[j] = s[i]
        BY <1>2
      <4>2. i \in 1 .. n /\ s[i] = s[k]
        BY <4>1, <3>2, <1>2
      <4>3. i = k
        BY <4>2, <1>1
      <4>. QED BY <4>3, <2>2
    <3>. QED BY <3>1, <3>2, <1>1, <1>7
  <2>. QED BY <2>1, <2>2
<1>10. ASSUME NEW x \in Var, ind[x] # 0 PROVE ind[x] \in 1 .. n /\ t[ind[x]] = x
  <2>1. CASE \E k \in DOMAIN f : f[k] = x
    <3>1. PICK k \in DOMAIN f : f[k] = x
      BY <2>1
    <3>. QED BY <3>1, <1>2, <1>3, <1>6
  <2>2. CASE \A k \in DOMAIN f : f[k] # x
    <3>1. ind[x] \in 1 .. n /\ s[ind[x]] = x
      BY <2>2, <1>1, <1>7, <1>10
    <3>2. ind[x] \notin DOMAIN f
      BY <3>1, <2>2, <1>2
    <3>. QED BY <3>1, <3>2, <1>3
  <2>. QED BY <2>1, <2>2
<1>11. ToSet(t) = ToSet(s)
  <2>1. ASSUME NEW k \in 1 .. n PROVE \E j \in 1 .. n : t[k] = s[j]
    BY <1>2, <1>3
  <2>2. ASSUME NEW j \in 1 .. n PROVE \E k \in 1 .. n : t[k] = s[j]
    <3>1. CASE j \in DOMAIN f
      BY <3>1, <1>2, <1>3
    <3>2. CASE j \notin DOMAIN f
      BY <3>2, <1>3
    <3>. QED BY <3>1, <3>2
  <2>3. ToSet(t) = {t[k] : k \in 1 .. n} /\ ToSet(s) = {s[k] : k \in 1 .. n}
    BY <1>1, <1>5 DEF ToSet
  <2>. QED BY <2>1, <2>2, <2>3
<1>12. ExactHeap(Place(g, f))
  BY <1>5, <1>8, <1>9, <1>10 DEF ExactHeap, t, ind, s
<1>13. Place(g, f) \in HeapRecord
  BY <1>5, <1>8 DEF Place, HeapRecord, t, ind
<1>. QED BY <1>1, <1>3, <1>5, <1>11, <1>12, <1>13 DEF t, s

-----------------------------------------------------------------------------
(* The heap: rising *)

\* The positions P from i to the root: each but the root has its parent among
\* them, each but i has one child, and no two have the same parent.
IsPathUp(P, i) ==
  /\ P \subseteq 1 .. i /\ (i > 0 => i \in P)
  /\ \A p \in P : p # 1 => p \div 2 \in P
  /\ \A p, c \in P : p < c => p <= c \div 2
  /\ \A p \in P : p # i => \E c \in P : c \div 2 = p

LEMMA PathUpFacts ==
  ASSUME NEW i \in Nat
  PROVE  IsPathUp(PathUp(i), i)
<1>. DEFINE D == SUBSET Nat
            Op(up, k) == IF k = 0 THEN {} ELSE {k} \cup up[k \div 2]
            IsUp(up) == up = [k \in 0 .. i |-> Op(up, k)]
            step == [z \in (0 .. i) \X [0 .. i -> D] |-> Op(z[2], z[1])]
<1>1. \A k \in 1 .. i : k \in 0 .. i /\ k \div 2 \in 0 .. i /\ k \div 2 < k /\ k \in Nat
  BY HalfFacts
<1>2. LooksBack(0 .. i, D, step)
  <2>1. ASSUME NEW k \in 0 .. i, NEW f \in [0 .. i -> D] PROVE step[<<k, f>>] = Op(f, k) /\ Op(f, k) \in D
    <3>1. step[<<k, f>>] = Op(f, k)
      OBVIOUS
    <3>2. CASE k = 0
      BY <3>1, <3>2
    <3>3. CASE k # 0
      <4>1. f[k \div 2] \in D /\ {k} \subseteq Nat /\ Op(f, k) = {k} \cup f[k \div 2]
        BY <3>3, <1>1
      <4>. HIDE DEF step, Op
      <4>. QED BY <3>1, <4>1
    <3>. QED BY <3>2, <3>3
  <2>2. step \in [(0 .. i) \X [0 .. i -> D] -> D]
    BY <2>1
  <2>3. ASSUME NEW k \in 0 .. i, NEW f \in [0 .. i -> D], NEW g \in [0 .. i -> D],
               \A j \in 0 .. i : j < k => f[j] = g[j]
        PROVE  step[<<k, f>>] = step[<<k, g>>]
    <3>1. Op(f, k) = Op(g, k)
      <4>. HIDE DEF step, D
      <4>1. k # 0 => f[k \div 2] = g[k \div 2]
        BY <1>1, <2>3
      <4>. QED BY <4>1
    <3>. HIDE DEF step, Op
    <3>. QED BY <3>1, <2>1
  <2>. HIDE DEF step, D
  <2>. QED BY <2>2, <2>3 DEF LooksBack
<1>3. \E up : IsUp(up)
  <2>1. {} \in D
    OBVIOUS
  <2>2. 0 .. i \in SUBSET (0 .. i)
    OBVIOUS
  <2>. HIDE DEF step, D
  <2>3. PICK up : Recursive(0 .. i, D, step, up)
    BY <1>2, <2>1, <2>2, RecursiveFunction
  <2>4. up \in [0 .. i -> D] /\ \A k \in 0 .. i : up[k] = step[<<k, up>>]
    BY <2>3 DEF Recursive
  <2>5. \A k \in 0 .. i : step[<<k, up>>] = Op(up, k)
    BY <2>4 DEF step
  <2>6. up = [k \in 0 .. i |-> Op(up, k)]
    <3>1. up = [k \in 0 .. i |-> up[k]]
      BY <2>4
    <3>. HIDE DEF Op
    <3>. QED BY <3>1, <2>4, <2>5
  <2>. QED BY <2>6
<1>. DEFINE up == CHOOSE up : IsUp(up)
<1>4. IsUp(up)
  BY <1>3, Zenon
<1>5. PathUp(i) = up[i]
  BY Zenon DEF PathUp
<1>. HIDE DEF up
<1>6. \A k \in 0 .. i : up[k] = Op(up, k)
  BY <1>4
<1>. DEFINE Bad == {k \in 0 .. i : ~IsPathUp(up[k], k)}
<1>7. ASSUME NEW k \in 0 .. i, \A j \in 0 .. i : j < k => IsPathUp(up[j], j)
      PROVE  IsPathUp(up[k], k)
  <2>1. CASE k = 0
    <3>1. up[k] = {}
      BY <2>1, <1>6
    <3>. QED BY <3>1, <2>1 DEF IsPathUp
  <2>2. CASE k # 0
    <3>. DEFINE j == k \div 2
                P == up[k]
                Q == up[j]
    <3>1. k \in 1 .. i /\ j \in 0 .. i /\ j < k /\ k \in Nat \ {0} /\ j \in Nat
      BY <2>2, <1>1
    <3>2. P = {k} \cup Q
      BY <2>2, <1>6
    <3>3. IsPathUp(Q, j)
      BY <3>1, <1>7
    <3>4. k # 1 => j > 0
      BY <3>1, HalfFacts
    <3>5. k = 1 => j = 0
      OBVIOUS
    <3>. HIDE DEF P, Q
    <3>6. Q \subseteq 1 .. j /\ (j > 0 => j \in Q)
      BY <3>3 DEF IsPathUp
    <3>7. \A p \in Q : p # 1 => p \div 2 \in Q
      BY <3>3 DEF IsPathUp
    <3>8. \A p, c \in Q : p < c => p <= c \div 2
      BY <3>3 DEF IsPathUp
    <3>9. \A p \in Q : p # j => \E c \in Q : c \div 2 = p
      BY <3>3 DEF IsPathUp
    <3>10. P \subseteq 1 .. k /\ k \in P
      BY <3>1, <3>2, <3>6
    <3>11. \A p \in P : p # 1 => p \div 2 \in P
      BY <3>1, <3>2, <3>4, <3>6, <3>7
    <3>12. ASSUME NEW p \in P, NEW c \in P, p < c PROVE p <= c \div 2
      <4>1. p \in Q
        <5>. SUFFICES ASSUME p = k PROVE FALSE
          BY <3>2
        <5>1. c \in 1 .. k
          BY <3>10
        <5>. QED BY <5>1, <3>1, <3>12
      <4>2. CASE c = k
        BY <4>1, <4>2, <3>1, <3>6
      <4>3. CASE c \in Q
        BY <4>1, <4>3, <3>8, <3>12
      <4>. QED BY <4>2, <4>3, <3>2
    <3>13. ASSUME NEW p \in P, p # k PROVE \E c \in P : c \div 2 = p
      <4>1. p \in Q
        BY <3>2, <3>13
      <4>2. CASE p = j
        BY <4>2, <3>2
      <4>3. CASE p # j
        BY <4>1, <4>3, <3>2, <3>9
      <4>. QED BY <4>2, <4>3
    <3>14. IsPathUp(P, k)
      BY <3>10, <3>11, <3>12, <3>13 DEF IsPathUp
    <3>. QED BY <3>14 DEF P
  <2>. QED BY <2>1, <2>2
<1>8. Bad = {}
  <2>. SUFFICES ASSUME Bad # {} PROVE FALSE
    OBVIOUS
  <2>1. PICK m \in Bad : \A k \in Bad : m <= k
    <3>1. Bad \subseteq Nat
      OBVIOUS
    <3>. HIDE DEF Bad
    <3>. QED BY <3>1, NatMinimum
  <2>2. m \in 0 .. i
    OBVIOUS
  <2>3. ASSUME NEW j \in 0 .. i, j < m PROVE IsPathUp(up[j], j)
    <3>1. ~(m <= j)
      BY <2>2, <2>3
    <3>2. j \notin Bad
      <4>. HIDE DEF Bad
      <4>. QED BY <3>1, <2>1
    <3>. QED BY <3>2
  <2>. QED BY <2>1, <2>2, <2>3, <1>7
<1>. QED
  <2>1. i \in 0 .. i
    OBVIOUS
  <2>2. IsPathUp(up[i], i)
    BY <2>1, <1>8
  <2>. QED BY <2>2, <1>5

LEMMA MinLeast ==
  ASSUME NEW T, T \subseteq Nat, T # {}
  PROVE  Min(T) \in T /\ \A k \in T : Min(T) <= k
<1>1. \E m \in T : \A k \in T : m <= k
  BY NatMinimum
<1>. QED BY <1>1 DEF Min

\* What percolateUp may be given: only the item at i may come too late, and
\* what is below i would not come before its parent.
UpReady(q, s, i) ==
  /\ \A k \in 2 .. Len(s) : k # i => q[s[k \div 2]] <= q[s[k]]
  /\ \A k \in 2 .. Len(s) : k \div 2 = i /\ i # 1 => q[s[i \div 2]] <= q[s[k]]

LEMMA RiseSound ==
  ASSUME NEW g, ExactHeap(g), NEW q \in [Var -> Nat], NEW i \in DOMAIN g.heap
  PROVE  /\ ExactHeap(PercolateUp(q, g, i)) /\ ToSet(PercolateUp(q, g, i).heap) = ToSet(g.heap)
         /\ UpReady(q, g.heap, i) => OrderedFrom(q, PercolateUp(q, g, i).heap, 1)
<1>. DEFINE s == g.heap
            n == Len(s)
            x == s[i]
            U == PathUp(i)
            T == {t \in U : \A p \in U : t <= p /\ p < i => lt(q, x, s[p])}
            highest == Min(T)
            path == {p \in U : p >= highest}
            f == [p \in path |-> IF p = highest THEN x ELSE s[p \div 2]]
<1>1. PercolateUp(q, g, i) = Place(g, f)
  BY DEF PercolateUp
<1>2. /\ n \in Nat /\ i \in 1 .. n /\ i \in Nat \ {0} /\ DOMAIN s = 1 .. n
      /\ \A k \in 1 .. n : s[k] \in Var /\ q[s[k]] \in Nat
      /\ \A j, k \in 1 .. n : s[j] = s[k] => j = k
  <2>1. s \in Seq(Var) /\ i \in DOMAIN s /\ \A j, k \in DOMAIN s : s[j] = s[k] => j = k
    BY ExactOnce DEF ExactHeap
  <2>. HIDE DEF s
  <2>. QED BY <2>1
<1>3. IsPathUp(U, i)
  BY <1>2, PathUpFacts
<1>. HIDE DEF U
<1>4. /\ U \subseteq 1 .. i /\ i \in U
      /\ \A p \in U : p # 1 => p \div 2 \in U
      /\ \A p, c \in U : p < c => p <= c \div 2
      /\ \A p \in U : p # i => \E c \in U : c \div 2 = p
  BY <1>2, <1>3 DEF IsPathUp
<1>5. \A p \in U : p \in 1 .. n /\ p \in Nat \ {0} /\ p <= i
  BY <1>2, <1>4
<1>6. highest \in T /\ \A t \in T : highest <= t
  <2>1. i \in T
    BY <1>2, <1>4
  <2>2. T \subseteq Nat
    BY <1>5
  <2>. HIDE DEF T
  <2>. QED BY <2>1, <2>2, MinLeast
<1>. HIDE DEF highest
<1>7. /\ highest \in U /\ highest \in 1 .. n /\ highest <= i
      /\ \A p \in U : highest <= p /\ p < i => q[x] < q[s[p]]
  BY <1>5, <1>6 DEF lt
<1>8. ASSUME highest # 1 PROVE highest \div 2 \in U /\ highest \div 2 < highest /\ q[s[highest \div 2]] <= q[x]
  <2>. DEFINE t == highest \div 2
  <2>1. t \in U /\ t < highest /\ t \in 1 .. n /\ t \in Nat
    BY <1>4, <1>5, <1>7, <1>8, HalfFacts
  <2>2. t \notin T
    BY <2>1, <1>6, <1>7
  <2>3. PICK p \in U : t <= p /\ p < i /\ ~lt(q, x, s[p])
    BY <2>1, <2>2
  <2>4. p < highest
    BY <2>3, <1>5, <1>7 DEF lt
  <2>5. p <= t
    BY <2>4, <1>4, <1>7
  <2>6. p = t
    BY <2>1, <2>3, <2>5, <1>5
  <2>. QED BY <2>1, <2>3, <2>6, <1>2 DEF lt
<1>. HIDE DEF T
<1>9. /\ path \subseteq U /\ path \subseteq 1 .. n /\ highest \in path /\ i \in path
      /\ \A p \in U : p \in path <=> p >= highest
  <2>. HIDE DEF f, s
  <2>1. path \subseteq U /\ \A p \in U : p \in path <=> p >= highest
    OBVIOUS
  <2>. HIDE DEF path
  <2>2. path \subseteq 1 .. n
    BY <2>1, <1>5
  <2>3. highest >= highest /\ i >= highest
    BY <1>2, <1>7
  <2>. QED BY <2>1, <2>2, <2>3, <1>4, <1>7
<1>. HIDE DEF path
<1>10. ASSUME NEW p \in path, p # highest
       PROVE  /\ p \div 2 \in path /\ p \div 2 \in 1 .. n /\ p \div 2 < p /\ f[p] = s[p \div 2]
  <2>1. p \in U /\ p \in Nat \ {0} /\ highest < p
    BY <1>5, <1>7, <1>9, <1>10
  <2>2. highest <= p \div 2 /\ p # 1
    BY <2>1, <1>4, <1>5, <1>7
  <2>3. p \div 2 \in U /\ p \div 2 < p
    BY <2>1, <2>2, <1>4, HalfFacts
  <2>4. p \div 2 \in path
    BY <2>2, <2>3, <1>9
  <2>. QED BY <2>3, <2>4, <1>9, <1>10
<1>11. f[highest] = x /\ DOMAIN f = path
  BY <1>9
<1>. HIDE DEF f
<1>12. Rearranges(s, f)
  <2>1. ASSUME NEW j \in path, NEW k \in path, j < k, j # highest, k # highest PROVE f[j] # f[k]
    <3>1. j \div 2 < j /\ j <= k \div 2
      BY <2>1, <1>4, <1>9, <1>10
    <3>2. j \div 2 \in 1 .. n /\ k \div 2 \in 1 .. n /\ j \div 2 # k \div 2
      BY <3>1, <2>1, <1>9, <1>10
    <3>. QED BY <3>2, <2>1, <1>2, <1>10
  <2>2. ASSUME NEW k \in path, k # highest PROVE f[k] # f[highest]
    <3>1. k \div 2 \in 1 .. n /\ k \div 2 < k /\ k <= i /\ k \in 1 .. n
      BY <2>2, <1>5, <1>9, <1>10
    <3>2. k \div 2 # i
      BY <3>1, <1>2
    <3>. QED BY <3>1, <3>2, <2>2, <1>2, <1>10, <1>11
  <2>3. ASSUME NEW j \in path, NEW k \in path, f[j] = f[k] PROVE j = k
    <3>1. j \in 1 .. n /\ k \in 1 .. n
      BY <1>9
    <3>2. j < k \/ k < j \/ j = k
      BY <3>1
    <3>. QED BY <3>2, <2>1, <2>2, <2>3
  <2>4. \A k \in path : \E j \in path : f[k] = s[j]
    BY <1>9, <1>10, <1>11
  <2>5. ASSUME NEW j \in path PROVE \E k \in path : f[k] = s[j]
    <3>1. CASE j = i
      BY <3>1, <1>9, <1>11
    <3>2. CASE j # i
      <4>1. PICK c \in U : c \div 2 = j
        BY <3>2, <1>4, <1>9
      <4>2. j < c /\ j >= highest /\ j \in U
        BY <4>1, <1>5, <1>9, HalfFacts
      <4>3. c \in path /\ c # highest
        BY <4>1, <4>2, <1>5, <1>7, <1>9
      <4>. QED BY <4>1, <4>3, <1>10
    <3>. QED BY <3>1, <3>2
  <2>. QED BY <2>3, <2>4, <2>5, <1>2, <1>9, <1>11 DEF Rearranges
<1>. DEFINE t == Place(g, f).heap
<1>13. /\ ExactHeap(Place(g, f)) /\ Len(t) = n /\ ToSet(t) = ToSet(s)
       /\ \A k \in 1 .. n : t[k] = IF k \in path THEN f[k] ELSE s[k]
  BY <1>2, <1>11, <1>12, PlaceExact
<1>. HIDE DEF t
<1>14. ASSUME UpReady(q, s, i), NEW k \in 2 .. n PROVE q[t[k \div 2]] <= q[t[k]]
  <2>. DEFINE p == k \div 2
  <2>1. k \in 1 .. n /\ p \in 1 .. n /\ p < k /\ p \in Nat \ {0} /\ k \in Nat
    BY <1>2, HalfFacts
  <2>2. /\ \A j \in 2 .. n : j # i => q[s[j \div 2]] <= q[s[j]]
        /\ \A j \in 2 .. n : j \div 2 = i /\ i # 1 => q[s[i \div 2]] <= q[s[j]]
    BY <1>14 DEF UpReady
  <2>3. /\ q[s[k]] \in Nat /\ q[s[p]] \in Nat /\ q[x] \in Nat
        /\ t[k] = (IF k \in path THEN f[k] ELSE s[k]) /\ t[p] = (IF p \in path THEN f[p] ELSE s[p])
    BY <2>1, <1>2, <1>13
  <2>4. CASE k \in path /\ k = highest
    <3>1. p \in U /\ q[s[p]] <= q[x] /\ p \notin path
      BY <2>1, <2>4, <1>8, <1>9
    <3>. QED BY <3>1, <2>3, <2>4, <1>11
  <2>5. ASSUME p \in path, p # highest, p # i PROVE q[f[p]] <= q[s[p]] /\ q[f[p]] \in Nat
    <3>1. f[p] = s[p \div 2] /\ p \div 2 \in 1 .. n
      BY <2>5, <1>10
    <3>2. p \in 2 .. n
      BY <2>1, <2>5, <1>7, <1>9
    <3>. QED BY <3>1, <3>2, <2>2, <2>5, <1>2
  <2>6. ASSUME p \in path, p = highest, p # i PROVE q[f[p]] <= q[s[p]] /\ q[f[p]] \in Nat
    <3>1. q[x] < q[s[p]]
      BY <2>1, <2>6, <1>5, <1>7
    <3>. QED BY <3>1, <2>3, <2>6, <1>11
  <2>7. CASE k \in path /\ k # highest
    <3>1. p \in path /\ f[k] = s[p] /\ k <= i /\ p # i
      BY <2>1, <2>7, <1>5, <1>9, <1>10
    <3>. QED BY <3>1, <2>3, <2>5, <2>6, <2>7
  <2>8. CASE k \notin path /\ p \in path /\ p # i
    <3>1. q[s[p]] <= q[s[k]]
      BY <2>1, <2>2, <2>8, <1>9
    <3>. QED BY <3>1, <2>3, <2>5, <2>6, <2>8
  <2>9. CASE k \notin path /\ p \in path /\ p = i
    <3>1. CASE highest = i
      <4>1. q[s[i]] <= q[s[k]]
        BY <2>1, <2>2, <2>9, <1>9
      <4>. QED BY <4>1, <3>1, <2>3, <2>9, <1>11
    <3>2. CASE highest # i
      <4>1. i # 1 /\ f[i] = s[i \div 2]
        BY <3>2, <1>2, <1>7, <1>9, <1>10
      <4>. QED BY <4>1, <2>2, <2>3, <2>9
    <3>. QED BY <3>1, <3>2
  <2>10. CASE k \notin path /\ p \notin path
    BY <2>2, <2>3, <2>10, <1>9
  <2>. QED BY <2>4, <2>7, <2>8, <2>9, <2>10
<1>15. UpReady(q, s, i) => OrderedFrom(q, t, 1)
  BY <1>13, <1>14 DEF OrderedFrom
<1>. QED BY <1>1, <1>13, <1>15 DEF t

-----------------------------------------------------------------------------
(* The heap: sinking *)

LEMMA ChildFacts ==
  ASSUME NEW s \in Seq(Var), NEW q \in [Var -> Nat], NEW k \in Nat \ {0}, 2 * k <= Len(s)
  PROVE  /\ Child(q, s, k) \in 1 .. Len(s) /\ k < Child(q, s, k) /\ Child(q, s, k) \div 2 = k
         /\ \A c \in 1 .. Len(s) : c \div 2 = k => q[s[Child(q, s, k)]] <= q[s[c]]
<1>. DEFINE n == Len(s)
            left == 2 * k
            right == 2 * k + 1
<1>1. n \in Nat /\ \A c \in 1 .. n : q[s[c]] \in Nat
  OBVIOUS
<1>2. left \in 1 .. n /\ k < left /\ left \div 2 = k /\ k < right /\ right \div 2 = k
  BY <1>1
<1>3. ASSUME NEW c \in 1 .. n, c \div 2 = k PROVE c = left \/ (c = right /\ right <= n)
  BY <1>1, <1>3
<1>4. CASE right <= n /\ q[s[right]] < q[s[left]]
  <2>1. Child(q, s, k) = right /\ right \in 1 .. n
    BY <1>1, <1>4 DEF Child, lt
  <2>2. ASSUME NEW c \in 1 .. n, c \div 2 = k PROVE q[s[right]] <= q[s[c]]
    <3>1. c = left \/ c = right
      BY <2>2, <1>3
    <3>2. q[s[right]] \in Nat /\ q[s[left]] \in Nat
      BY <2>1, <1>1, <1>2
    <3>. HIDE DEF left, right
    <3>. QED BY <3>1, <3>2, <1>4
  <2>. QED BY <2>1, <2>2, <1>2
<1>5. CASE ~(right <= n /\ q[s[right]] < q[s[left]])
  <2>1. Child(q, s, k) = left
    BY <1>5 DEF Child, lt
  <2>2. ASSUME NEW c \in 1 .. n, c \div 2 = k PROVE q[s[left]] <= q[s[c]]
    <3>1. c = left \/ (c = right /\ right <= n)
      BY <2>2, <1>3
    <3>2. q[s[c]] \in Nat /\ q[s[left]] \in Nat
      BY <1>1, <1>2
    <3>. HIDE DEF left, right
    <3>. QED BY <3>1, <3>2, <1>5
  <2>. QED BY <2>1, <2>2, <1>2
<1>. QED BY <1>4, <1>5

\* x sinks past the first child of k.
SinksAt(q, s, x, k) == 2 * k <= Len(s) /\ lt(q, s[Child(q, s, k)], x)

\* The positions P down which x sinks from k: each but k is the first child of
\* its parent, no two have the same parent, and the last does not let it sink.
IsPathDown(P, q, s, x, k) ==
  /\ P \subseteq k .. Len(s) /\ k \in P
  /\ \A p \in P : SinksAt(q, s, x, p) => Child(q, s, p) \in P
  /\ \A p \in P : p # k => /\ p \div 2 \in P /\ SinksAt(q, s, x, p \div 2)
                           /\ Child(q, s, p \div 2) = p
  /\ \A p, c \in P : p < c => SinksAt(q, s, x, p) /\ Child(q, s, p) <= c
  /\ \E p \in P : ~SinksAt(q, s, x, p)

\* What percolateDown computes down from each position.
SinkPaths(q, s, x, path) ==
  path = [k \in DOMAIN s |-> {k} \cup IF SinksAt(q, s, x, k) THEN path[Child(q, s, k)] ELSE {}]

LEMMA SinkPathsExist ==
  ASSUME NEW s \in Seq(Var), NEW q \in [Var -> Nat], NEW x
  PROVE  \E path : SinkPaths(q, s, x, path)
<1>. DEFINE n == Len(s)
            S == 0 .. n - 1
            D == SUBSET Nat
            c(k) == Child(q, s, k)
            sinks(k) == SinksAt(q, s, x, k)
            Op(f, j) == {n - j} \cup IF sinks(n - j) THEN f[n - c(n - j)] ELSE {}
            step == [z \in S \X [S -> D] |-> Op(z[2], z[1])]
<1>1. n \in Nat /\ DOMAIN s = 1 .. n
  OBVIOUS
<1>2. ASSUME NEW k \in 1 .. n, sinks(k) PROVE c(k) \in 1 .. n /\ k < c(k)
  BY <1>2, ChildFacts DEF SinksAt
<1>. HIDE DEF c, sinks
<1>3. ASSUME NEW j \in S
      PROVE  /\ n - j \in 1 .. n /\ n - j \in Nat
             /\ sinks(n - j) => n - c(n - j) \in S /\ n - c(n - j) < j
  <2>1. n - j \in 1 .. n
    BY <1>1
  <2>2. sinks(n - j) => c(n - j) \in 1 .. n /\ n - j < c(n - j)
    BY <2>1, <1>2
  <2>. QED BY <2>1, <2>2, <1>1
<1>. HIDE DEF n
<1>4. LooksBack(S, D, step)
  <2>1. ASSUME NEW j \in S, NEW f \in [S -> D]
        PROVE  step[<<j, f>>] = Op(f, j) /\ Op(f, j) \in D
    <3>1. step[<<j, f>>] = Op(f, j)
      OBVIOUS
    <3>2. CASE sinks(n - j)
      <4>1. f[n - c(n - j)] \in D /\ {n - j} \subseteq Nat
        BY <3>2, <1>3
      <4>2. Op(f, j) = {n - j} \cup f[n - c(n - j)]
        BY <3>2
      <4>. HIDE DEF step, Op
      <4>. QED BY <3>1, <4>1, <4>2
    <3>3. CASE ~sinks(n - j)
      <4>1. Op(f, j) = {n - j} /\ n - j \in Nat
        BY <3>3, <1>3
      <4>. HIDE DEF step, Op
      <4>. QED BY <3>1, <4>1
    <3>. QED BY <3>2, <3>3
  <2>2. step \in [S \X [S -> D] -> D]
    BY <2>1
  <2>3. ASSUME NEW j \in S, NEW f \in [S -> D], NEW g \in [S -> D],
               \A i \in S : i < j => f[i] = g[i]
        PROVE  step[<<j, f>>] = step[<<j, g>>]
    <3>1. Op(f, j) = Op(g, j)
      <4>. HIDE DEF step, D
      <4>1. sinks(n - j) => f[n - c(n - j)] = g[n - c(n - j)]
        BY <1>3, <2>3
      <4>. QED BY <4>1
    <3>. HIDE DEF step, Op
    <3>. QED BY <3>1, <2>1
  <2>. HIDE DEF step, D
  <2>. QED BY <2>2, <2>3 DEF LooksBack
<1>5. {} \in D /\ S \in SUBSET (0 .. n)
  BY <1>1
<1>. HIDE DEF step, D
<1>6. PICK r : Recursive(S, D, step, r)
  BY <1>1, <1>4, <1>5, RecursiveFunction
<1>7. r \in [S -> D] /\ \A j \in S : r[j] = step[<<j, r>>]
  BY <1>6 DEF Recursive
<1>8. \A j \in S : r[j] = Op(r, j)
  BY <1>7 DEF step
<1>. DEFINE path == [k \in 1 .. n |-> r[n - k]]
<1>9. ASSUME NEW k \in 1 .. n
      PROVE  path[k] = {k} \cup IF sinks(k) THEN path[c(k)] ELSE {}
  <2>1. n - k \in S /\ n - (n - k) = k
    BY <1>1
  <2>2. r[n - k] = Op(r, n - k)
    BY <2>1, <1>8
  <2>3. r[n - k] = {k} \cup IF sinks(k) THEN r[n - c(k)] ELSE {}
    BY <2>1, <2>2
  <2>4. sinks(k) => path[c(k)] = r[n - c(k)]
    BY <1>2 DEF n
  <2>. QED BY <2>3, <2>4
<1>10. path = [k \in DOMAIN s |-> path[k]]
  BY <1>1
<1>. HIDE DEF path
<1>11. path = [k \in DOMAIN s |-> {k} \cup IF sinks(k) THEN path[c(k)] ELSE {}]
  BY <1>1, <1>9, <1>10
<1>12. SinkPaths(q, s, x, path)
  BY <1>11 DEF SinkPaths, c, sinks
<1>. QED BY <1>12

LEMMA PathDownFacts ==
  ASSUME NEW s \in Seq(Var), NEW q \in [Var -> Nat], NEW x, NEW path, SinkPaths(q, s, x, path),
         NEW i \in DOMAIN s
  PROVE  IsPathDown(path[i], q, s, x, i)
<1>. DEFINE n == Len(s)
            c(k) == Child(q, s, k)
            sinks(k) == SinksAt(q, s, x, k)
            Good(k) == IsPathDown(path[k], q, s, x, k)
            T == {j \in 0 .. n : \A k \in 1 .. n : k > n - j => Good(k)}
<1>1. n \in Nat /\ DOMAIN s = 1 .. n
  OBVIOUS
<1>2. ASSUME NEW k \in 1 .. n, sinks(k) PROVE c(k) \in 1 .. n /\ k < c(k) /\ c(k) \div 2 = k
  BY <1>2, ChildFacts DEF SinksAt
<1>3. \A k \in 1 .. n : path[k] = {k} \cup IF sinks(k) THEN path[c(k)] ELSE {}
  BY <1>1 DEF SinkPaths
<1>4. ASSUME NEW k \in 1 .. n, \A j \in 1 .. n : k < j => Good(j) PROVE Good(k)
  <2>. DEFINE P == path[k]
              Q == path[c(k)]
  <2>1. CASE ~sinks(k)
    <3>1. P = {k} /\ k \in 1 .. n
      BY <2>1, <1>3
    <3>. HIDE DEF P
    <3>2. IsPathDown(P, q, s, x, k)
      BY <3>1, <2>1, <1>1 DEF IsPathDown
    <3>. QED BY <3>2 DEF P
  <2>2. CASE sinks(k)
    <3>1. P = {k} \cup Q /\ c(k) \in 1 .. n /\ k < c(k) /\ c(k) \div 2 = k
      BY <2>2, <1>2, <1>3
    <3>2. IsPathDown(Q, q, s, x, c(k))
      BY <3>1, <1>4
    <3>. HIDE DEF P, Q
    <3>3. /\ Q \subseteq c(k) .. n /\ c(k) \in Q
          /\ \A p \in Q : sinks(p) => c(p) \in Q
      BY <3>2 DEF IsPathDown
    <3>4. \A p \in Q : p # c(k) => p \div 2 \in Q /\ sinks(p \div 2) /\ c(p \div 2) = p
      BY <3>2 DEF IsPathDown
    <3>5. \A p, d \in Q : p < d => sinks(p) /\ c(p) <= d
      BY <3>2 DEF IsPathDown
    <3>6. \E p \in Q : ~sinks(p)
      BY <3>2 DEF IsPathDown
    <3>. HIDE DEF sinks, c
    <3>7. P \subseteq k .. n /\ k \in P /\ \A p \in P : sinks(p) => c(p) \in P
      BY <3>1, <3>3, <1>1
    <3>8. ASSUME NEW p \in P, p # k PROVE p \div 2 \in P /\ sinks(p \div 2) /\ c(p \div 2) = p
      BY <3>1, <3>4, <3>8, <2>2
    <3>9. ASSUME NEW p \in P, NEW d \in P, p < d PROVE sinks(p) /\ c(p) <= d
      <4>1. d \in Q
        <5>. SUFFICES ASSUME d = k PROVE FALSE
          BY <3>1
        <5>1. p \in k .. n
          BY <3>7
        <5>. QED BY <5>1, <3>9
      <4>2. CASE p = k
        BY <4>1, <4>2, <2>2, <3>3
      <4>3. CASE p \in Q
        BY <4>1, <4>3, <3>5, <3>9
      <4>. QED BY <4>2, <4>3, <3>1
    <3>10. \E p \in P : ~sinks(p)
      BY <3>1, <3>6
    <3>11. IsPathDown(P, q, s, x, k)
      BY <3>7, <3>8, <3>9, <3>10 DEF IsPathDown, sinks, c
    <3>. QED BY <3>11 DEF P
  <2>. QED BY <2>1, <2>2
<1>. HIDE DEF Good
<1>5. 0 \in T
  BY <1>1
<1>6. ASSUME NEW j \in 1 .. n, j - 1 \in T PROVE j \in T
  <2>1. ASSUME NEW k \in 1 .. n, k > n - j PROVE Good(k)
    <3>1. ASSUME NEW d \in 1 .. n, k < d PROVE Good(d)
      <4>1. d > n - (j - 1)
        BY <1>1, <2>1, <3>1
      <4>. QED BY <4>1, <1>6
    <3>. QED BY <3>1, <1>4
  <2>. QED BY <2>1, <1>1
<1>. HIDE DEF T
<1>7. n \in T
  <2>1. \A j \in 0 .. n : j \in T
    BY <1>1, <1>5, <1>6, UpTo
  <2>. QED BY <2>1, <1>1
<1>8. i \in 1 .. n /\ i > n - n
  BY <1>1
<1>9. Good(i)
  BY <1>7, <1>8 DEF T
<1>. QED BY <1>9 DEF Good

LEMMA SinkSound ==
  ASSUME NEW g, ExactHeap(g), NEW q \in [Var -> Nat], NEW i \in DOMAIN g.heap
  PROVE  /\ ExactHeap(PercolateDown(q, g, i)) /\ PercolateDown(q, g, i) \in HeapRecord
         /\ Len(PercolateDown(q, g, i).heap) = Len(g.heap)
         /\ ToSet(PercolateDown(q, g, i).heap) = ToSet(g.heap)
         /\ OrderedFrom(q, g.heap, i + 1) => OrderedFrom(q, PercolateDown(q, g, i).heap, i)
<1>. DEFINE s == g.heap
            n == Len(s)
            x == s[i]
            c(k) == Child(q, s, k)
            sinks(k) == SinksAt(q, s, x, k)
            path == CHOOSE path : SinkPaths(q, s, x, path)
            f == [p \in path[i] |-> IF sinks(p) THEN s[c(p)] ELSE x]
<1>1. /\ s \in Seq(Var) /\ n \in Nat /\ i \in 1 .. n /\ DOMAIN s = 1 .. n /\ i \in DOMAIN s
      /\ \A j, k \in 1 .. n : s[j] = s[k] => j = k
  <2>1. s \in Seq(Var) /\ i \in DOMAIN s /\ \A j, k \in DOMAIN s : s[j] = s[k] => j = k
    BY ExactOnce DEF ExactHeap
  <2>. HIDE DEF s
  <2>. QED BY <2>1
<1>2. PercolateDown(q, g, i) = Place(g, f)
  BY Zenon DEF PercolateDown, SinkPaths, SinksAt
<1>3. SinkPaths(q, s, x, path)
  BY <1>1, SinkPathsExist, Zenon
<1>. HIDE DEF path
<1>. DEFINE P == path[i]
<1>4. IsPathDown(P, q, s, x, i)
  BY <1>1, <1>3, PathDownFacts
<1>. HIDE DEF P
<1>5. /\ P \subseteq i .. n /\ i \in P
      /\ \A p \in P : sinks(p) => c(p) \in P
      /\ \A p \in P : p # i => p \div 2 \in P /\ sinks(p \div 2) /\ c(p \div 2) = p
      /\ \A p, d \in P : p < d => sinks(p) /\ c(p) <= d
      /\ \E p \in P : ~sinks(p)
  BY <1>4 DEF IsPathDown
<1>6. ASSUME NEW k \in 1 .. n
      PROVE  /\ s[k] \in Var /\ q[s[k]] \in Nat
             /\ 2 * k <= n => /\ c(k) \in 1 .. n /\ k < c(k) /\ c(k) \div 2 = k
                             /\ \A d \in 1 .. n : d \div 2 = k => q[s[c(k)]] <= q[s[d]]
  <2>. HIDE DEF s
  <2>1. k \in Nat \ {0} /\ s[k] \in Var
    BY <1>1
  <2>. QED BY <2>1, <1>1, ChildFacts
<1>7. \A k \in 1 .. n : sinks(k) <=> 2 * k <= n /\ q[s[c(k)]] < q[x]
  BY DEF SinksAt, lt
<1>8. f = [p \in P |-> IF sinks(p) THEN s[c(p)] ELSE x]
  BY DEF P
<1>. HIDE DEF c, sinks, f, s
<1>9. /\ DOMAIN f = P /\ P \subseteq 1 .. n
      /\ \A p \in P : f[p] = IF sinks(p) THEN s[c(p)] ELSE x
  BY <1>1, <1>5, <1>8
<1>10. ASSUME NEW p \in P, sinks(p)
       PROVE  c(p) \in P /\ c(p) \in 1 .. n /\ p < c(p) /\ c(p) # i /\ f[p] = s[c(p)]
  <2>1. c(p) \in P /\ p \in 1 .. n /\ f[p] = s[c(p)] /\ p >= i
    BY <1>1, <1>5, <1>9, <1>10
  <2>2. c(p) \in 1 .. n /\ p < c(p)
    BY <2>1, <1>6, <1>7, <1>10
  <2>. QED BY <2>1, <2>2, <1>1
<1>11. Rearranges(s, f)
  <2>1. ASSUME NEW j \in P, NEW k \in P, j < k PROVE f[j] # f[k]
    <3>1. sinks(j) /\ c(j) <= k
      BY <2>1, <1>5
    <3>2. f[j] = s[c(j)] /\ c(j) \in 1 .. n /\ c(j) # i
      BY <3>1, <1>10
    <3>3. CASE sinks(k)
      <4>1. f[k] = s[c(k)] /\ c(k) \in 1 .. n /\ k < c(k)
        BY <3>3, <1>10
      <4>2. c(j) # c(k)
        BY <4>1, <3>1, <3>2, <1>9
      <4>. QED BY <4>1, <4>2, <3>2, <1>1
    <3>4. CASE ~sinks(k)
      <4>1. f[k] = s[i]
        BY <3>4, <1>9
      <4>. QED BY <4>1, <3>2, <1>1
    <3>. QED BY <3>3, <3>4
  <2>2. ASSUME NEW j \in P, NEW k \in P, f[j] = f[k] PROVE j = k
    <3>1. j < k \/ k < j \/ j = k
      BY <1>9
    <3>. QED BY <3>1, <2>1, <2>2
  <2>3. ASSUME NEW k \in P PROVE \E j \in P : f[k] = s[j]
    <3>1. CASE sinks(k)
      BY <3>1, <1>10
    <3>2. CASE ~sinks(k)
      BY <3>2, <1>5, <1>9
    <3>. QED BY <3>1, <3>2
  <2>4. ASSUME NEW j \in P PROVE \E k \in P : f[k] = s[j]
    <3>1. CASE j = i
      BY <3>1, <1>5, <1>9
    <3>2. CASE j # i
      <4>1. j \div 2 \in P /\ sinks(j \div 2) /\ c(j \div 2) = j
        BY <3>2, <1>5
      <4>. QED BY <4>1, <1>10
    <3>. QED BY <3>1, <3>2
  <2>. QED BY <2>2, <2>3, <2>4, <1>1, <1>9 DEF Rearranges
<1>. DEFINE t == Place(g, f).heap
<1>12. /\ ExactHeap(Place(g, f)) /\ Place(g, f) \in HeapRecord
       /\ Len(t) = n /\ ToSet(t) = ToSet(s)
       /\ \A k \in 1 .. n : t[k] = IF k \in P THEN f[k] ELSE s[k]
  BY <1>1, <1>9, <1>11, PlaceExact DEF s
<1>. HIDE DEF t
<1>13. ASSUME OrderedFrom(q, s, i + 1), NEW k \in 2 .. n, k \div 2 >= i
       PROVE  q[t[k \div 2]] <= q[t[k]]
  <2>. DEFINE p == k \div 2
  <2>1. k \in 1 .. n /\ p \in 1 .. n /\ p < k /\ 2 * p <= k /\ p >= i /\ k # i
    BY <1>1, <1>13, HalfFacts
  <2>2. \A j \in 2 .. n : j \div 2 >= i + 1 => q[s[j \div 2]] <= q[s[j]]
    BY <1>13 DEF OrderedFrom
  <2>3. /\ q[s[k]] \in Nat /\ q[s[p]] \in Nat /\ q[x] \in Nat
        /\ t[k] = (IF k \in P THEN f[k] ELSE s[k]) /\ t[p] = (IF p \in P THEN f[p] ELSE s[p])
    BY <2>1, <1>1, <1>6, <1>12
  <2>. SUFFICES q[t[p]] <= q[t[k]]
    OBVIOUS
  <2>. HIDE DEF p
  <2>4. CASE p \notin P
    <3>1. k \notin P /\ p # i
      BY <2>1, <2>4, <1>5 DEF p
    <3>2. p >= i + 1
      BY <3>1, <2>1, <1>1
    <3>3. q[s[p]] <= q[s[k]]
      BY <3>2, <2>2 DEF p
    <3>. QED BY <3>1, <3>3, <2>3, <2>4
  <2>5. CASE p \in P /\ ~sinks(p)
    <3>1. k \notin P
      BY <2>1, <2>5, <1>5
    <3>2. 2 * p <= n
      BY <2>1, <1>1
    <3>3. q[x] <= q[s[c(p)]] /\ q[s[c(p)]] <= q[s[k]] /\ q[s[c(p)]] \in Nat
      <4>1. c(p) \in 1 .. n /\ q[s[c(p)]] <= q[s[k]]
        BY <2>1, <3>2, <1>6 DEF p
      <4>2. ~(q[s[c(p)]] < q[x]) /\ q[s[c(p)]] \in Nat
        BY <4>1, <2>1, <2>5, <3>2, <1>6, <1>7
      <4>. QED BY <4>1, <4>2, <2>3
    <3>. QED BY <3>1, <3>3, <2>3, <2>5, <1>9
  <2>6. CASE p \in P /\ sinks(p) /\ k = c(p)
    <3>1. k \in P /\ f[p] = s[k]
      BY <2>6, <1>10
    <3>2. CASE sinks(k)
      <4>1. f[k] = s[c(k)] /\ c(k) \in 1 .. n /\ c(k) \div 2 = k /\ k >= i + 1 /\ c(k) >= 2
        BY <3>1, <3>2, <2>1, <1>1, <1>6, <1>7, <1>10
      <4>2. q[s[k]] <= q[s[c(k)]]
        BY <4>1, <2>2
      <4>. QED BY <4>1, <4>2, <3>1, <2>3, <2>6
    <3>3. CASE ~sinks(k)
      <4>1. f[k] = x /\ q[s[k]] < q[x]
        BY <3>1, <3>3, <2>1, <2>6, <1>7, <1>9
      <4>. QED BY <4>1, <3>1, <2>3, <2>6
    <3>. QED BY <3>2, <3>3
  <2>7. CASE p \in P /\ sinks(p) /\ k # c(p)
    <3>1. k \notin P
      BY <2>1, <2>7, <1>5 DEF p
    <3>2. f[p] = s[c(p)] /\ q[s[c(p)]] <= q[s[k]]
      BY <2>1, <2>7, <1>6, <1>7, <1>10 DEF p
    <3>. QED BY <3>1, <3>2, <2>3, <2>7
  <2>. QED BY <2>4, <2>5, <2>6, <2>7
<1>14. OrderedFrom(q, s, i + 1) => OrderedFrom(q, t, i)
  BY <1>12, <1>13 DEF OrderedFrom
<1>. QED BY <1>2, <1>12, <1>14 DEF t, s

-----------------------------------------------------------------------------
(* The heap: its operations *)

\* The first item comes before no other.
LEMMA RootLeast ==
  ASSUME NEW s \in Seq(Var), NEW q \in [Var -> Nat], OrderedFrom(q, s, 1), NEW k \in DOMAIN s
  PROVE  q[s[1]] <= q[s[k]]
<1>. DEFINE n == Len(s)
            Bad == {j \in 1 .. n : ~(q[s[1]] <= q[s[j]])}
<1>1. n \in Nat /\ DOMAIN s = 1 .. n /\ \A j \in 1 .. n : q[s[j]] \in Nat
  OBVIOUS
<1>2. Bad = {}
  <2>. SUFFICES ASSUME Bad # {} PROVE FALSE
    OBVIOUS
  <2>1. PICK m \in Bad : \A j \in Bad : m <= j
    <3>1. Bad \subseteq Nat
      OBVIOUS
    <3>. HIDE DEF Bad
    <3>. QED BY <3>1, NatMinimum
  <2>2. m \in 1 .. n /\ m # 1
    BY <1>1
  <2>3. m \in 2 .. n /\ m \div 2 \in 1 .. n /\ m \div 2 < m /\ m \div 2 >= 1
    BY <2>2, HalfFacts
  <2>4. m \div 2 \notin Bad
    <3>. HIDE DEF Bad
    <3>. QED BY <2>1, <2>3
  <2>5. q[s[1]] <= q[s[m \div 2]] /\ q[s[m \div 2]] <= q[s[m]]
    BY <2>3, <2>4 DEF OrderedFrom
  <2>6. 1 \in 1 .. n
    BY <2>2
  <2>. QED BY <2>1, <2>2, <2>3, <2>5, <2>6, <1>1
<1>. QED BY <1>1, <1>2

LEMMA PushedSound ==
  ASSUME NEW g, ExactHeap(g), NEW x \in Var, g.indices[x] = 0
  PROVE  /\ ExactHeap(Pushed(g, x)) /\ Len(g.heap) + 1 \in DOMAIN Pushed(g, x).heap
         /\ ToSet(Pushed(g, x).heap) = ToSet(g.heap) \cup {x} /\ x \notin ToSet(g.heap)
         /\ \A q : OrderedFrom(q, g.heap, 1) => UpReady(q, Pushed(g, x).heap, Len(g.heap) + 1)
<1>. DEFINE s == g.heap
            t == Append(s, x)
            n == Len(s)
            ind == g.indices
            ind2 == [ind EXCEPT ![x] = n + 1]
<1>1. /\ s \in Seq(Var) /\ ind \in [Var -> Nat] /\ \A k \in DOMAIN s : ind[s[k]] = k
      /\ \A y \in Var : ind[y] # 0 => ind[y] \in DOMAIN s /\ s[ind[y]] = y
      /\ ind[x] = 0 /\ Pushed(g, x) = [heap |-> t, indices |-> ind2]
  BY DEF ExactHeap, Pushed
<1>. HIDE DEF s, ind
<1>2. n \in Nat /\ DOMAIN s = 1 .. n /\ \A k \in 1 .. n : s[k] \in Var /\ s[k] # x
  BY <1>1
<1>3. /\ t \in Seq(Var) /\ Len(t) = n + 1 /\ DOMAIN t = 1 .. n + 1 /\ t[n + 1] = x
      /\ \A k \in 1 .. n : t[k] = s[k]
  BY <1>1
<1>4. ind2 \in [Var -> Nat] /\ ind2[x] = n + 1 /\ \A y \in Var : y # x => ind2[y] = ind[y]
  BY <1>1, <1>2
<1>. HIDE DEF t, ind2, n
<1>5. ASSUME NEW k \in 1 .. n + 1 PROVE ind2[t[k]] = k
  <2>1. CASE k = n + 1
    BY <2>1, <1>3, <1>4
  <2>2. CASE k # n + 1
    <3>1. k \in 1 .. n
      BY <2>2, <1>2
    <3>. QED BY <3>1, <1>1, <1>2, <1>3, <1>4
  <2>. QED BY <2>1, <2>2
<1>6. ASSUME NEW y \in Var, ind2[y] # 0 PROVE ind2[y] \in 1 .. n + 1 /\ t[ind2[y]] = y
  <2>1. CASE y = x
    BY <2>1, <1>2, <1>3, <1>4
  <2>2. CASE y # x
    <3>1. ind2[y] \in 1 .. n /\ s[ind2[y]] = y
      BY <2>2, <1>1, <1>2, <1>4, <1>6
    <3>. QED BY <3>1, <1>2, <1>3
  <2>. QED BY <2>1, <2>2
<1>7. ExactHeap(Pushed(g, x))
  <2>1. Pushed(g, x).heap = t /\ Pushed(g, x).indices = ind2
    BY <1>1
  <2>. QED BY <2>1, <1>3, <1>4, <1>5, <1>6 DEF ExactHeap
<1>8. ToSet(t) = ToSet(s) \cup {x} /\ x \notin ToSet(s)
  <2>1. ToSet(t) = {t[k] : k \in 1 .. n + 1} /\ ToSet(s) = {s[k] : k \in 1 .. n}
    BY <1>2, <1>3 DEF ToSet
  <2>2. \A k \in 1 .. n + 1 : k = n + 1 \/ k \in 1 .. n
    BY <1>2
  <2>3. n + 1 \in 1 .. n + 1 /\ 1 .. n \subseteq 1 .. n + 1
    BY <1>2
  <2>. QED BY <2>1, <2>2, <2>3, <1>2, <1>3
<1>9. ASSUME NEW q, OrderedFrom(q, s, 1) PROVE UpReady(q, t, n + 1)
  <2>1. ASSUME NEW k \in 2 .. n + 1, k # n + 1 PROVE q[t[k \div 2]] <= q[t[k]]
    <3>1. k \in 2 .. n /\ k \in 1 .. n /\ k \div 2 \in 1 .. n /\ k \div 2 >= 1
      BY <2>1, <1>2, HalfFacts
    <3>2. q[s[k \div 2]] <= q[s[k]]
      BY <3>1, <1>9 DEF OrderedFrom, n
    <3>. QED BY <3>1, <3>2, <1>3
  <2>2. ASSUME NEW k \in 2 .. n + 1 PROVE k \div 2 # n + 1
    BY <1>2, HalfFacts
  <2>. QED BY <2>1, <2>2, <1>3 DEF UpReady
<1>10. n + 1 \in 1 .. n + 1
  BY <1>2
<1>. QED BY <1>1, <1>3, <1>7, <1>8, <1>9, <1>10 DEF s, n

LEMMA TakenSound ==
  ASSUME NEW g, ExactHeap(g), g.heap # <<>>
  PROVE  /\ ExactHeap(Taken(g)) /\ Len(Taken(g).heap) = Len(g.heap) - 1
         /\ ToSet(Taken(g).heap) = ToSet(g.heap) \ {g.heap[1]}
         /\ g.heap[1] \in ToSet(g.heap) /\ Len(g.heap) \in Nat \ {0}
         /\ \A q : OrderedFrom(q, g.heap, 1) => OrderedFrom(q, Taken(g).heap, 2)
<1>. DEFINE s == g.heap
            n == Len(s)
            last == s[n]
            t == Front([s EXCEPT ![1] = last])
            ind == g.indices
            ind2 == [[ind EXCEPT ![last] = 1] EXCEPT ![s[1]] = 0]
<1>1. /\ s \in Seq(Var) /\ ind \in [Var -> Nat] /\ \A k \in DOMAIN s : ind[s[k]] = k
      /\ \A y \in Var : ind[y] # 0 => ind[y] \in DOMAIN s /\ s[ind[y]] = y
      /\ s # <<>> /\ Taken(g) = [heap |-> t, indices |-> ind2]
      /\ \A j, k \in DOMAIN s : s[j] = s[k] => j = k
  BY ExactOnce DEF ExactHeap, Taken, Last
<1>. HIDE DEF s, ind
<1>2. /\ n \in Nat \ {0} /\ DOMAIN s = 1 .. n /\ 1 \in 1 .. n /\ n \in 1 .. n
      /\ \A k \in 1 .. n : s[k] \in Var
      /\ \A j, k \in 1 .. n : s[j] = s[k] => j = k
  BY <1>1
<1>3. /\ t \in Seq(Var) /\ Len(t) = n - 1 /\ DOMAIN t = 1 .. n - 1
      /\ \A k \in 1 .. n - 1 : t[k] = IF k = 1 THEN s[n] ELSE s[k]
  <2>. DEFINE u == [s EXCEPT ![1] = last]
  <2>1. u \in Seq(Var) /\ Len(u) = n /\ \A k \in 1 .. n : u[k] = IF k = 1 THEN s[n] ELSE s[k]
    BY <1>1, <1>2
  <2>. HIDE DEF u, n
  <2>. QED BY <2>1, <1>2 DEF Front
<1>4. /\ ind2 \in [Var -> Nat] /\ ind2[s[1]] = 0 /\ (n # 1 => ind2[s[n]] = 1)
      /\ \A y \in Var : y # s[1] /\ y # s[n] => ind2[y] = ind[y]
  BY <1>1, <1>2
<1>. HIDE DEF t, ind2, n
<1>5. ASSUME NEW k \in 1 .. n - 1 PROVE ind2[t[k]] = k
  <2>0. k \in 1 .. n /\ k # n /\ n # 1
    BY <1>2
  <2>1. CASE k = 1
    BY <2>0, <2>1, <1>3, <1>4
  <2>2. CASE k # 1
    <3>1. t[k] = s[k] /\ s[k] # s[1] /\ s[k] # s[n] /\ s[k] \in Var
      BY <2>0, <2>2, <1>2, <1>3
    <3>. QED BY <3>1, <2>0, <1>1, <1>2, <1>4
  <2>. QED BY <2>1, <2>2
<1>6. ASSUME NEW y \in Var, ind2[y] # 0 PROVE ind2[y] \in 1 .. n - 1 /\ t[ind2[y]] = y
  <2>1. CASE y = s[n]
    <3>1. n # 1 /\ ind2[y] = 1 /\ 1 \in 1 .. n - 1
      BY <2>1, <1>2, <1>4, <1>6
    <3>. QED BY <3>1, <2>1, <1>3
  <2>2. CASE y # s[n]
    <3>1. y # s[1] /\ ind2[y] = ind[y]
      BY <2>2, <1>4, <1>6
    <3>2. ind[y] \in 1 .. n /\ s[ind[y]] = y
      BY <3>1, <1>1, <1>2, <1>6
    <3>3. ind[y] # n /\ ind[y] # 1
      BY <3>1, <3>2, <2>2
    <3>4. ind[y] \in 1 .. n - 1
      BY <3>2, <3>3, <1>2
    <3>. QED BY <3>1, <3>2, <3>3, <3>4, <1>3
  <2>. QED BY <2>1, <2>2
<1>7. ExactHeap(Taken(g))
  <2>1. Taken(g).heap = t /\ Taken(g).indices = ind2
    BY <1>1
  <2>. QED BY <2>1, <1>3, <1>4, <1>5, <1>6 DEF ExactHeap
<1>8. ToSet(t) = ToSet(s) \ {s[1]} /\ s[1] \in ToSet(s)
  <2>1. ToSet(t) = {t[k] : k \in 1 .. n - 1} /\ ToSet(s) = {s[k] : k \in 1 .. n}
    BY <1>2, <1>3 DEF ToSet
  <2>2. ASSUME NEW k \in 1 .. n - 1 PROVE \E j \in 1 .. n : t[k] = s[j] /\ j # 1
    <3>1. k \in 1 .. n /\ n # 1
      BY <1>2
    <3>. QED BY <3>1, <1>2, <1>3
  <2>3. ASSUME NEW j \in 1 .. n, j # 1 PROVE \E k \in 1 .. n - 1 : t[k] = s[j]
    <3>1. CASE j = n
      <4>1. 1 \in 1 .. n - 1
        BY <3>1, <2>3, <1>2
      <4>. QED BY <4>1, <3>1, <1>3
    <3>2. CASE j # n
      <4>1. j \in 1 .. n - 1
        BY <3>2, <1>2
      <4>. QED BY <4>1, <2>3, <1>3
    <3>. QED BY <3>1, <3>2
  <2>4. s[1] \in ToSet(s)
    BY <2>1, <1>2
  <2>5. ASSUME NEW y \in ToSet(t) PROVE y \in ToSet(s) /\ y # s[1]
    BY <2>1, <2>2, <1>2
  <2>6. ASSUME NEW y \in ToSet(s), y # s[1] PROVE y \in ToSet(t)
    <3>1. PICK j \in 1 .. n : y = s[j]
      BY <2>1
    <3>. QED BY <3>1, <2>1, <2>3, <2>6
  <2>. QED BY <2>4, <2>5, <2>6
<1>9. ASSUME NEW q, OrderedFrom(q, s, 1) PROVE OrderedFrom(q, t, 2)
  <2>1. ASSUME NEW k \in 2 .. n - 1, k \div 2 >= 2 PROVE q[t[k \div 2]] <= q[t[k]]
    <3>1. /\ k \in 2 .. n /\ k \in 1 .. n - 1 /\ k \div 2 \in 1 .. n - 1
          /\ k \div 2 >= 1 /\ k # 1 /\ k \div 2 # 1
      BY <2>1, <1>2, HalfFacts
    <3>2. q[s[k \div 2]] <= q[s[k]]
      BY <3>1, <1>9 DEF OrderedFrom, n
    <3>. QED BY <3>1, <3>2, <1>3
  <2>. QED BY <2>1, <1>3 DEF OrderedFrom
<1>. QED BY <1>1, <1>2, <1>3, <1>7, <1>8, <1>9 DEF s, n

LEMMA BuiltSound ==
  ASSUME NEW g, ExactHeap(g), NEW q \in [Var -> Nat], NEW S \in SUBSET Var, NEW s \in Ascending(S)
  PROVE  ExactHeap(Built(q, g, s)) /\ OrderedFrom(q, Built(q, g, s).heap, 1)
<1>. DEFINE n == Len(s)
            half == n \div 2
            ind == [x \in Var |-> IF \E k \in DOMAIN s : s[k] = x
                                 THEN CHOOSE k \in DOMAIN s : s[k] = x
                                 ELSE IF x \in ToSet(g.heap) THEN 0 ELSE g.indices[x]]
            start == [heap |-> s, indices |-> ind]
            Op(h, k) == PercolateDown(q, h, half + 1 - k)
            IsF(f) == f = [k \in 0 .. half |-> IF k = 0 THEN start ELSE Op(f[k - 1], k)]
            OkAt(h, k) == ExactHeap(h) /\ Len(h.heap) = n /\ OrderedFrom(q, h.heap, half + 1 - k)
            G == [k \in 0 .. half |-> {h \in HeapRecord : OkAt(h, k)}]
            F == [k \in 1 .. half |-> [h \in G[k - 1] |-> Op(h, k)]]
            sunk == CHOOSE f : IsF(f)
<1>1. Built(q, g, s) = sunk[half]
  BY Zenon DEF Built
<1>2. /\ s \in Seq(Var) /\ n \in Nat /\ DOMAIN s = 1 .. n
      /\ \A j, k \in 1 .. n : s[j] = s[k] => j = k
  <2>1. /\ s \in [1 .. Cardinality(S) -> Var]
        /\ \A j, k \in 1 .. Cardinality(S) : j < k => s[j] < s[k]
    BY DEF Ascending
  <2>2. IsFiniteSet(S) /\ Cardinality(S) \in Nat
    BY VarCount, FS_Subset, FS_CardinalityType
  <2>3. n = Cardinality(S) /\ s \in Seq(Var)
    BY <2>1, <2>2
  <2>4. ASSUME NEW j \in 1 .. n, NEW k \in 1 .. n, s[j] = s[k] PROVE j = k
    <3>1. s[j] \in Int /\ ~(j < k) /\ ~(k < j)
      BY <2>1, <2>3, <2>4 DEF Var
    <3>. QED BY <3>1
  <2>. QED BY <2>2, <2>3, <2>4
<1>3. half \in Nat /\ 2 * half <= n /\ n <= 2 * half + 1
  BY <1>2
<1>4. ExactHeap(start) /\ start \in HeapRecord
  <2>. DEFINE there(x) == \E k \in DOMAIN s : s[k] = x
  <2>1. ASSUME NEW x \in Var, NEW k \in 1 .. n, s[k] = x PROVE ind[x] = k
    <3>1. (CHOOSE j \in DOMAIN s : s[j] = x) = k
      BY <2>1, <1>2
    <3>. QED BY <3>1, <2>1, <1>2
  <2>2. ASSUME NEW x \in Var, ~there(x) PROVE ind[x] = 0
    <3>1. x \notin ToSet(g.heap) => g.indices[x] = 0
      BY ExactOnce
    <3>. QED BY <3>1, <2>2
  <2>3. \A x \in Var : there(x) => \E k \in 1 .. n : s[k] = x
    BY <1>2
  <2>4. DOMAIN ind = Var /\ ind = [x \in Var |-> ind[x]]
    OBVIOUS
  <2>. HIDE DEF ind, there
  <2>5. ASSUME NEW x \in Var PROVE ind[x] \in Nat /\ (ind[x] # 0 => ind[x] \in 1 .. n /\ s[ind[x]] = x)
    <3>1. CASE there(x)
      <4>1. PICK k \in 1 .. n : s[k] = x
        BY <3>1, <2>3
      <4>2. ind[x] = k
        BY <4>1, <2>1
      <4>. QED BY <4>1, <4>2
    <3>2. CASE ~there(x)
      BY <3>2, <2>2
    <3>. QED BY <3>1, <3>2
  <2>6. ind \in [Var -> Nat]
    BY <2>4, <2>5
  <2>7. \A k \in 1 .. n : s[k] \in Var /\ ind[s[k]] = k
    BY <2>1, <1>2
  <2>8. start.heap = s /\ start.indices = ind
    OBVIOUS
  <2>9. start \in HeapRecord
    BY <2>6, <1>2 DEF HeapRecord
  <2>. HIDE DEF start
  <2>. QED BY <2>5, <2>6, <2>7, <2>8, <2>9, <1>2 DEF ExactHeap
<1>5. start.heap = s
  OBVIOUS
<1>. HIDE DEF start
<1>6. OkAt(start, 0)
  <2>1. ASSUME NEW k \in 2 .. n PROVE ~(k \div 2 >= half + 1)
    BY <1>2, <1>3, HalfFacts
  <2>. QED BY <2>1, <1>3, <1>4, <1>5 DEF OrderedFrom
<1>. HIDE DEF n, half
<1>7. ASSUME NEW k \in 1 .. half, NEW h \in HeapRecord, OkAt(h, k - 1)
      PROVE  Op(h, k) \in HeapRecord /\ OkAt(Op(h, k), k)
  <2>. DEFINE i == half + 1 - k
  <2>1. i \in 1 .. n /\ half + 1 - (k - 1) = i + 1
    BY <1>2, <1>3
  <2>2. h.heap \in Seq(Var) /\ DOMAIN h.heap = 1 .. n
    BY <1>7, <1>2 DEF ExactHeap
  <2>3. OrderedFrom(q, h.heap, i + 1)
    BY <2>1, <1>7
  <2>. HIDE DEF i
  <2>4. /\ ExactHeap(PercolateDown(q, h, i)) /\ PercolateDown(q, h, i) \in HeapRecord
        /\ Len(PercolateDown(q, h, i).heap) = n /\ OrderedFrom(q, PercolateDown(q, h, i).heap, i)
    BY <2>1, <2>2, <2>3, <1>7, SinkSound
  <2>. QED BY <2>4 DEF i
<1>. HIDE DEF Op, OkAt
<1>8. StepsIn(half, G, start, F)
  <2>1. start \in G[0]
    BY <1>3, <1>4, <1>6
  <2>2. ASSUME NEW k \in 1 .. half, NEW h \in G[k - 1] PROVE F[k][h] \in G[k]
    <3>1. k \in 0 .. half /\ k - 1 \in 0 .. half
      BY <1>3
    <3>2. h \in HeapRecord /\ OkAt(h, k - 1)
      BY <3>1
    <3>3. Op(h, k) \in G[k]
      BY <3>1, <3>2, <1>7
    <3>4. F[k][h] = Op(h, k)
      OBVIOUS
    <3>. HIDE DEF F, G
    <3>. QED BY <3>3, <3>4
  <2>. HIDE DEF F, G
  <2>. QED BY <2>1, <2>2 DEF StepsIn
<1>9. \E f : IsF(f)
  <2>1. PICK f : RunsIn(half, G, start, F, f)
    <3>. HIDE DEF F, G
    <3>. QED BY <1>3, <1>8, Iteration
  <2>2. /\ f = [k \in 0 .. half |-> IF k = 0 THEN start ELSE F[k][f[k - 1]]]
        /\ \A k \in 0 .. half : f[k] \in G[k]
    BY <2>1 DEF RunsIn
  <2>3. ASSUME NEW k \in 1 .. half PROVE F[k][f[k - 1]] = Op(f[k - 1], k)
    <3>1. k - 1 \in 0 .. half
      BY <1>3
    <3>2. f[k - 1] \in G[k - 1]
      BY <3>1, <2>2
    <3>. QED BY <3>2
  <2>. HIDE DEF F, G
  <2>4. f = [k \in 0 .. half |-> IF k = 0 THEN start ELSE Op(f[k - 1], k)]
    <3>1. \A k \in 0 .. half : k # 0 => k \in 1 .. half
      BY <1>3
    <3>2. f = [k \in 0 .. half |-> f[k]]
      BY <2>2
    <3>3. \A k \in 0 .. half : f[k] = IF k = 0 THEN start ELSE Op(f[k - 1], k)
      BY <3>1, <2>2, <2>3
    <3>. QED BY <3>2, <3>3
  <2>. QED BY <2>4
<1>10. IsF(sunk)
  BY <1>9, Zenon
<1>. HIDE DEF sunk, F, G
<1>11. sunk[0] = start /\ \A k \in 1 .. half : sunk[k] = Op(sunk[k - 1], k)
  BY <1>3, <1>10
<1>. DEFINE T == {k \in 0 .. half : sunk[k] \in HeapRecord /\ OkAt(sunk[k], k)}
<1>12. 0 \in T
  BY <1>3, <1>4, <1>6, <1>11
<1>13. ASSUME NEW k \in 1 .. half, k - 1 \in T PROVE k \in T
  <2>1. k \in 0 .. half /\ sunk[k] = Op(sunk[k - 1], k)
    BY <1>3, <1>11
  <2>. QED BY <2>1, <1>7, <1>13
<1>. HIDE DEF T
<1>14. half \in T
  <2>1. \A k \in 0 .. half : k \in T
    BY <1>3, <1>12, <1>13, UpTo
  <2>. QED BY <2>1, <1>3
<1>15. OkAt(sunk[half], half) /\ half + 1 - half = 1
  BY <1>3, <1>14 DEF T
<1>. QED BY <1>1, <1>15 DEF OkAt

-----------------------------------------------------------------------------
(* The heap: its invariant and the pool of options *)

\* What every step keeps: array and indices agree, and unless keys were
\* rewritten under it the heap is ordered all the way to the root.
HeapInv ==
  /\ ExactHeap(order_heap)
  /\ key \in [Var -> 0 .. MaxKey] /\ stale \in BOOLEAN
  /\ ~stale => OrderedFrom(key, order_heap.heap, 1)

LEMMA KeysNat ==
  ASSUME NEW q \in [Var -> 0 .. MaxKey]
  PROVE  q \in [Var -> Nat]
BY MaxKeyAssumption

LEMMA ShortOrdered ==
  ASSUME NEW q, NEW s \in Seq(Var), Len(s) <= 1
  PROVE  OrderedFrom(q, s, 1)
BY DEF OrderedFrom

LEMMA HeapInvInit ==
  ASSUME HInit
  PROVE  HeapInv /\ Pool!PoolInit
<1>1. order_heap.heap = <<>> /\ order_heap.indices = [x \in Var |-> 0]
  BY DEF HInit
<1>2. ExactHeap(order_heap)
  BY <1>1 DEF ExactHeap
<1>3. \A x \in Var : x \in 0 .. MaxKey /\ MaxKey \in 0 .. MaxKey
  BY MaxKeyAssumption, NumVarAssumption DEF Var
<1>4. key \in [Var -> 0 .. MaxKey]
  BY <1>3 DEF HInit
<1>5. OrderedFrom(key, order_heap.heap, 1)
  BY <1>1 DEF OrderedFrom
<1>6. ToSet(order_heap.heap) = {}
  BY <1>1 DEF ToSet
<1>. QED BY <1>2, <1>4, <1>5, <1>6 DEF HeapInv, HInit, Pool!PoolInit, Pool!Key, Pool!Var, Var

LEMMA InsertStep ==
  ASSUME HeapInv, NEW x \in Var, Insert(x)
  PROVE  HeapInv' /\ Pool!PoolInsert(x)
<1>. DEFINE g == Pushed(order_heap, x)
            i == Len(order_heap.heap) + 1
<1>1. order_heap.indices[x] = 0
  BY DEF Insert, inHeap
<1>2. /\ ExactHeap(g) /\ i \in DOMAIN g.heap
      /\ ToSet(g.heap) = ToSet(order_heap.heap) \cup {x} /\ x \notin ToSet(order_heap.heap)
      /\ \A q : OrderedFrom(q, order_heap.heap, 1) => UpReady(q, g.heap, i)
  BY <1>1, PushedSound DEF HeapInv
<1>3. order_heap' = PercolateUp(key, g, i) /\ UNCHANGED <<key, stale, out>>
  BY DEF Insert
<1>4. key \in [Var -> Nat]
  BY KeysNat DEF HeapInv
<1>. HIDE DEF g, i
<1>5. /\ ExactHeap(order_heap') /\ ToSet(order_heap'.heap) = ToSet(g.heap)
      /\ UpReady(key, g.heap, i) => OrderedFrom(key, order_heap'.heap, 1)
  BY <1>2, <1>3, <1>4, RiseSound
<1>6. HeapInv'
  BY <1>2, <1>3, <1>5 DEF HeapInv
<1>. QED BY <1>2, <1>3, <1>5, <1>6 DEF Pool!PoolInsert

LEMMA RemoveMinStep ==
  ASSUME HeapInv, RemoveMin
  PROVE  HeapInv' /\ Pool!PoolTake
<1>. DEFINE s == order_heap.heap
            g == Taken(order_heap)
<1>1. ExactHeap(order_heap) /\ s # <<>> /\ s \in Seq(Var) /\ key \in [Var -> Nat]
  BY KeysNat DEF HeapInv, RemoveMin, ExactHeap
<1>2. /\ ExactHeap(g) /\ Len(g.heap) = Len(s) - 1 /\ ToSet(g.heap) = ToSet(s) \ {s[1]}
      /\ s[1] \in ToSet(s) /\ Len(s) \in Nat \ {0}
      /\ \A q : OrderedFrom(q, s, 1) => OrderedFrom(q, g.heap, 2)
  BY <1>1, TakenSound
<1>3. /\ order_heap' = IF Len(s) > 2 THEN PercolateDown(key, g, 1) ELSE g
      /\ stale' = (stale /\ Len(s) > 1) /\ out' = s[1] /\ UNCHANGED key
  BY DEF RemoveMin
<1>4. ToSet(s) = {s[1]} <=> ~(Len(s) > 1)
  <2>1. ASSUME Len(s) > 1 PROVE s[2] \in ToSet(s) /\ s[2] # s[1]
    BY <2>1, <1>1, ExactOnce DEF ToSet
  <2>2. ASSUME ~(Len(s) > 1) PROVE ToSet(s) = {s[1]}
    <3>1. DOMAIN s = {1}
      BY <2>2, <1>1, <1>2
    <3>. QED BY <3>1 DEF ToSet
  <2>. QED BY <2>1, <2>2
<1>5. stale \/ OrderedFrom(key, s, 1)
  BY DEF HeapInv
<1>6. stale \/ \A y \in ToSet(s) : key[s[1]] <= key[y]
  BY <1>1, <1>5, RootLeast DEF ToSet
<1>7. /\ ExactHeap(order_heap') /\ ToSet(order_heap'.heap) = ToSet(g.heap)
      /\ ~stale' => OrderedFrom(key, order_heap'.heap, 1)
  <2>. HIDE DEF s, g
  <2>1. CASE Len(s) > 2
    <3>1. 1 \in DOMAIN g.heap /\ 1 + 1 = 2
      BY <2>1, <1>2 DEF ExactHeap
    <3>2. /\ ExactHeap(PercolateDown(key, g, 1))
          /\ ToSet(PercolateDown(key, g, 1).heap) = ToSet(g.heap)
          /\ OrderedFrom(key, g.heap, 2) => OrderedFrom(key, PercolateDown(key, g, 1).heap, 1)
      BY <1>1, <1>2, <3>1, SinkSound
    <3>3. order_heap' = PercolateDown(key, g, 1) /\ Len(s) > 1
      BY <1>2, <1>3, <2>1
    <3>4. ~stale' => ~stale
      BY <1>3, <3>3, Zenon
    <3>. QED BY <1>2, <1>5, <3>2, <3>3, <3>4
  <2>2. CASE ~(Len(s) > 2)
    <3>1. order_heap' = g /\ Len(g.heap) <= 1 /\ g.heap \in Seq(Var)
      BY <1>2, <1>3, <2>2 DEF ExactHeap
    <3>. QED BY <1>2, <3>1, ShortOrdered
  <2>. QED BY <2>1, <2>2
<1>8. HeapInv'
  BY <1>3, <1>7 DEF HeapInv
<1>9. Pool!PoolTake
  BY <1>2, <1>3, <1>4, <1>6, <1>7 DEF Pool!PoolTake
<1>. QED BY <1>8, <1>9

LEMMA BumpStep ==
  ASSUME HeapInv, NEW x \in Var, Bump(x)
  PROVE  HeapInv' /\ Pool!PoolLower(x)
<1>. DEFINE s == order_heap.heap
            i == order_heap.indices[x]
<1>1. key[x] \in 0 .. MaxKey
  BY DEF HeapInv
<1>2. PICK k \in 0 .. key[x] : key' = [key EXCEPT ![x] = k]
  <2>1. CASE use_VSIDS
    BY <1>1, <2>1, MaxKeyAssumption DEF Bump
  <2>2. CASE ~use_VSIDS
    BY <1>1, <2>2, MaxKeyAssumption DEF Bump, HeapInv
  <2>. QED BY <2>1, <2>2
<1>3. key' \in [Var -> 0 .. MaxKey]
  <2>1. k \in 0 .. MaxKey
    BY <1>1, MaxKeyAssumption
  <2>. QED BY <1>2, <2>1 DEF HeapInv
<1>4. /\ key \in [Var -> Nat] /\ key' \in [Var -> Nat]
      /\ key'[x] <= key[x] /\ \A y \in Var : y # x => key'[y] = key[y]
  <2>1. key \in [Var -> Nat] /\ key' \in [Var -> Nat]
    BY <1>3, KeysNat DEF HeapInv
  <2>. QED BY <1>2, <2>1
<1>5. UNCHANGED <<stale, out>>
  BY DEF Bump
<1>6. ExactHeap(order_heap')/\ ToSet(order_heap'.heap) = ToSet(s)
      /\ (~stale => OrderedFrom(key', order_heap'.heap, 1))
  <2>1. CASE inHeap(x)
    <3>1. /\ ExactHeap(order_heap) /\ i \in DOMAIN s /\ s[i] = x /\ s \in Seq(Var)
          /\ order_heap' = PercolateUp(key', order_heap, i)
      BY <2>1 DEF Bump, HeapInv, ExactHeap, inHeap
    <3>2. ASSUME ~stale PROVE UpReady(key', s, i)
      <4>1. OrderedFrom(key, s, 1) /\ ~(\E j \in DOMAIN s : j # i /\ s[j] = x)
        BY <3>1, <3>2, ExactOnce DEF HeapInv
      <4>. HIDE DEF s, i
      <4>2. ASSUME NEW j \in 2 .. Len(s)
            PROVE  /\ j \in DOMAIN s /\ j \div 2 \in DOMAIN s /\ key[s[j \div 2]] <= key[s[j]]
                   /\ s[j] \in Var /\ s[j \div 2] \in Var
        <5>1. j \div 2 \in Nat /\ j \div 2 >= 1 /\ j \div 2 < j
          BY <4>2, HalfFacts
        <5>2. j \in DOMAIN s /\ j \div 2 \in DOMAIN s
          BY <3>1, <5>1
        <5>. QED BY <4>1, <3>1, <5>1, <5>2 DEF OrderedFrom
      <4>3. \A y \in Var : key[y] \in Nat /\ key'[y] \in Nat /\ key'[y] <= key[y]
        BY <1>4
      <4>4. ASSUME NEW j \in 2 .. Len(s), j # i PROVE key'[s[j \div 2]] <= key'[s[j]]
        <5>1. key'[s[j]] = key[s[j]]
          BY <4>1, <4>2, <4>4, <1>4
        <5>. QED BY <4>2, <4>3, <5>1
      <4>5. ASSUME NEW j \in 2 .. Len(s), j \div 2 = i, i # 1 PROVE key'[s[i \div 2]] <= key'[s[j]]
        <5>1. i \in 2 .. Len(s)
          BY <3>1, <4>5
        <5>2. j # i
          BY <4>5, HalfFacts
        <5>3. /\ key[s[i \div 2]] <= key[s[i]] /\ key[s[i]] <= key[s[j]] /\ key'[s[j]] = key[s[j]]
              /\ s[i \div 2] \in Var /\ s[i] \in Var /\ s[j] \in Var
          BY <4>1, <4>2, <4>5, <5>1, <5>2, <1>4
        <5>. QED BY <4>3, <5>3
      <4>. QED BY <4>4, <4>5 DEF UpReady
    <3>3. /\ ExactHeap(order_heap') /\ ToSet(order_heap'.heap) = ToSet(s)
          /\ UpReady(key', s, i) => OrderedFrom(key', order_heap'.heap, 1)
      BY <1>4, <3>1, RiseSound
    <3>. QED BY <3>2, <3>3
  <2>2. CASE ~inHeap(x)
    <3>1. order_heap' = order_heap /\ ExactHeap(order_heap) /\ s \in Seq(Var)
      BY <2>2 DEF Bump, HeapInv, ExactHeap
    <3>2. \A j \in DOMAIN s : s[j] \in Var /\ s[j] # x
      BY <2>2, <3>1 DEF ExactHeap, inHeap
    <3>3. ASSUME ~stale PROVE OrderedFrom(key', s, 1)
      <4>1. OrderedFrom(key, s, 1)
        BY <3>3 DEF HeapInv
      <4>. HIDE DEF s
      <4>2. ASSUME NEW j \in 2 .. Len(s) PROVE key'[s[j \div 2]] <= key'[s[j]]
        <5>1. j \div 2 \in Nat /\ j \div 2 >= 1 /\ j \div 2 < j
          BY HalfFacts
        <5>2. j \in DOMAIN s /\ j \div 2 \in DOMAIN s
          BY <3>1, <5>1
        <5>3. key[s[j \div 2]] <= key[s[j]]
          BY <4>1, <5>1 DEF OrderedFrom
        <5>. QED BY <1>4, <3>2, <5>2, <5>3
      <4>. QED BY <4>2 DEF OrderedFrom
    <3>. QED BY <3>1, <3>3
  <2>. QED BY <2>1, <2>2
<1>7. HeapInv'
  BY <1>3, <1>5, <1>6 DEF HeapInv
<1>. QED BY <1>2, <1>5, <1>6, <1>7 DEF Pool!PoolLower

LEMMA RebuildStep ==
  ASSUME HeapInv, NEW S \in SUBSET Var, Rebuild(S)
  PROVE  HeapInv' /\ Pool!PoolRebuild
<1>1. PICK s \in Ascending(S) : order_heap' = Built(key, order_heap, s)
  BY DEF Rebuild
<1>2. ExactHeap(order_heap') /\ OrderedFrom(key, order_heap'.heap, 1)
  BY <1>1, KeysNat, BuiltSound DEF HeapInv
<1>3. stale' = FALSE /\ UNCHANGED <<key, out>>
  BY DEF Rebuild
<1>4. ToSet(order_heap'.heap) \in SUBSET Var
  BY <1>2 DEF ExactHeap, ToSet
<1>5. HeapInv'
  BY <1>2, <1>3 DEF HeapInv
<1>. QED BY <1>3, <1>4, <1>5 DEF Pool!PoolRebuild, Pool!Var, Var

LEMMA ReshuffleStep ==
  ASSUME HeapInv, Reshuffle
  PROVE  HeapInv' /\ Pool!PoolRewrite
<1>1. /\ key' \in [Var -> Var] /\ UNCHANGED <<order_heap, out>>
      /\ stale' = (stale \/ order_heap.heap # <<>>)
  BY DEF Reshuffle
<1>2. Var \subseteq 0 .. MaxKey
  BY MaxKeyAssumption, NumVarAssumption DEF Var
<1>3. key' \in [Var -> 0 .. MaxKey]
  BY <1>1, <1>2
<1>4. order_heap.heap \in Seq(Var)
  BY DEF HeapInv, ExactHeap
<1>5. ASSUME ~stale' PROVE OrderedFrom(key', order_heap'.heap, 1)
  <2>1. order_heap.heap = <<>> /\ order_heap' = order_heap
    BY <1>1, <1>5, Zenon
  <2>. QED BY <2>1 DEF OrderedFrom
<1>6. order_heap.heap # <<>> <=> ToSet(order_heap.heap) # {}
  <2>1. CASE order_heap.heap = <<>>
    BY <2>1 DEF ToSet
  <2>2. CASE order_heap.heap # <<>>
    <3>1. 1 \in DOMAIN order_heap.heap
      BY <1>4, <2>2
    <3>. QED BY <2>2, <3>1 DEF ToSet
  <2>. QED BY <2>1, <2>2
<1>7. HeapInv'
  BY <1>1, <1>3, <1>5 DEF HeapInv
<1>8. stale' = (stale \/ ToSet(order_heap.heap) # {})
  BY <1>1, <1>6, Zenon
<1>9. ToSet(order_heap.heap)' = ToSet(order_heap.heap)
  BY <1>1
<1>. QED BY <1>1, <1>3, <1>7, <1>8, <1>9 DEF Pool!PoolRewrite, Pool!Key, Pool!Var, Var

LEMMA HeapInvNext ==
  HeapInv /\ [HNext]_hvars => HeapInv' /\ [Pool!PoolNext]_(Pool!poolVars)
<1>1. ASSUME HeapInv, HNext PROVE HeapInv' /\ Pool!PoolNext
  <2>1. ASSUME NEW x \in Var, Insert(x) PROVE HeapInv' /\ Pool!PoolNext
    BY <1>1, <2>1, InsertStep DEF Pool!PoolNext, Pool!Var, Var
  <2>2. ASSUME NEW x \in Var, Bump(x) PROVE HeapInv' /\ Pool!PoolNext
    BY <1>1, <2>2, BumpStep DEF Pool!PoolNext, Pool!Var, Var
  <2>3. CASE RemoveMin
    BY <1>1, <2>3, RemoveMinStep DEF Pool!PoolNext
  <2>4. CASE Reshuffle
    BY <1>1, <2>4, ReshuffleStep DEF Pool!PoolNext
  <2>5. ASSUME NEW S \in SUBSET Var, Rebuild(S) PROVE HeapInv' /\ Pool!PoolNext
    BY <1>1, <2>5, RebuildStep DEF Pool!PoolNext
  <2>. QED BY <1>1, <2>1, <2>2, <2>3, <2>4, <2>5 DEF HNext
<1>2. ASSUME HeapInv, UNCHANGED hvars PROVE HeapInv' /\ UNCHANGED Pool!poolVars
  BY <1>2 DEF HeapInv, hvars, Pool!poolVars
<1>. QED BY <1>1, <1>2

LEMMA HeapInvAlways == HSpec => []HeapInv
<1>. QED BY HeapInvInit, HeapInvNext, PTL DEF HSpec

\* No option is in the heap twice, is missing from it while inHeap says it is
\* there, or is kept out of it while it is not there, whatever is inserted,
\* bumped, removed or rebuilt.
THEOREM IndicesAlwaysExact == HSpec => []IndicesExact
<1>1. HeapInv => IndicesExact
  BY DEF HeapInv, ExactHeap, IndicesExact, inHeap
<1>. QED BY <1>1, HeapInvAlways, PTL

\* The heap hands out each of its options once, the one with the least key
\* unless keys were rewritten under it: what the search takes it for.
THEOREM HeapImplementsPool == HSpec => ImplementsPool
<1>1. HInit => Pool!PoolInit
  BY HeapInvInit
<1>2. HeapInv /\ [HNext]_hvars => [Pool!PoolNext]_(Pool!poolVars)
  BY HeapInvNext
<1>. QED BY <1>1, <1>2, HeapInvAlways, PTL DEF HSpec, ImplementsPool, Pool!PoolSpec

-----------------------------------------------------------------------------
(* Startup: settings, files and readers *)

Option == {"k", "weighted", "context_aware", "reduction", "reduced_path", "output_path",
           "pure_cdcl", "pure_sls"}

Para ==
  [candidate_set_size : Int, candidates : Int, part_for_sls : Int,
   flag_use_weighted_sampling : BOOLEAN, context_aware_method : Int,
   flag_use_cnf_reduction : BOOLEAN, flag_reduced_cnf_as_temp : BOOLEAN,
   reduced_cnf_file_path : {"temp", "named"}, testcase_set_save_path : {"default", "given"},
   flag_use_pure_cdcl : BOOLEAN, flag_use_pure_sls : BOOLEAN]

Path == {"input", "temp", "named"}
Input == files["input"]
Reduced == files[cnf_file_path]   \* the file the readers read

\* f says all that input says; or, once the number of its clauses is read,
\* fewer of them follow; or it is what an earlier run left.
Faithful(f, input) ==
  /\ f \in File /\ f.open /\ Whole(f) /\ f.nvar <= NumVar
  /\ Models(f.clauses) = Models(input.clauses)

Broken(f) ==
  /\ f \in File /\ f.open
  /\ Counted(f) => f.nvar <= NumVar /\ Len(f.clauses) < f.nclauses

Leftover(f) ==
  /\ f \in File
  /\ Counted(f) => f.open /\ Len(f.clauses) <= f.nclauses

Worked == reducer \in {"idle", "well"}

SettingsInv ==
  /\ DOMAIN files = Path /\ Input \in Inputs /\ \A path \in Path : DimacsFile(files[path])
  /\ cnf_file_path \in Path /\ para \in Para /\ argu \in Argument
  /\ stage \in {"parse", "reduce"} =>
       num_var = 0 /\ cnf_file_path = "input" /\ reducer = "idle"

\* With an input: what is on disk, and the options read so far.
FilesInv ==
  /\ stage \in {"pbo", "read", "first", "generate", "save", "clean"} =>
       \/ Worked /\ Faithful(Reduced, Input)
       \/ reducer = "cut" /\ Broken(Reduced)
       \/ reducer = "nothing" /\ Leftover(Reduced)
  /\ stage \in {"pbo", "read"} => num_var = NumVar
  /\ stage \in {"first", "generate"} => num_var \in Nat /\ num_var >= NumVar
  /\ stage \in {"first", "generate", "save", "clean"} /\ Counted(Reduced) =>
       reducer = "nothing" \/ num_var = NumVar
  /\ stage \in {"first", "generate", "save", "clean", "done"} /\ Worked => num_var = NumVar

PboInv ==
  stage \in {"read", "first", "generate", "save", "clean", "done"} /\ Worked =>
    /\ pbo_solver.num_vars = NumVar
    /\ Models(pbo_solver.clauses) = Models(Input.clauses)

\* What satisfies the clauses that were read satisfies the file they were
\* read from, which is the input's unless the reducer wrote nothing.
CnfInv ==
  /\ stage \in {"first", "generate", "save", "clean", "done"} /\ Worked =>
       Models(cnf_clauses) = Models(Input.clauses)
  /\ stage \in {"first", "generate", "save", "clean"} /\ Counted(Reduced) =>
       IF reducer = "nothing"
       THEN \A tc : Satisfies(tc, cnf_clauses) => Satisfies(tc, Reduced.clauses)
       ELSE Models(cnf_clauses) \subseteq Models(Input.clauses)
  /\ stage \in {"first", "generate", "save", "clean"} /\ as_backbone => Reduced.open

\* Rows are models of what was read, or empty; nothing empty is saved, and
\* nothing where no file was read.
RowsInv ==
  /\ stage = "generate" => testcase_set \subseteq Solutions(cnf_clauses) \cup {<<>>}
  /\ stage = "save" => as_backbone /\ testcase_set \subseteq Solutions(cnf_clauses)
  /\ stage = "clean" => as_backbone /\ saved.rows \subseteq Solutions(cnf_clauses)

StartInv == SettingsInv /\ (Input.open => FilesInv /\ PboInv /\ CnfInv /\ RowsInv)

LEMMA ApplyPara ==
  ASSUME argu \in Argument, NEW p \in Para, NEW option \in Option
  PROVE  Apply(p, option) \in Para
<1>1. /\ argu.k \in Int /\ argu.context_aware + 1 \in Int /\ p.candidate_set_size \in Int
  BY DEF Argument, Para
<1>2. CASE option = "k"
  BY <1>1, <1>2 DEF Para, Apply
<1>3. CASE option = "weighted"
  BY <1>1, <1>3 DEF Para, Apply
<1>4. CASE option = "context_aware"
  BY <1>1, <1>4 DEF Para, Apply
<1>5. CASE option = "reduction"
  BY <1>1, <1>5 DEF Para, Apply
<1>6. CASE option = "reduced_path"
  BY <1>6 DEF Para, Apply
<1>7. CASE option = "output_path"
  BY <1>7 DEF Para, Apply
<1>8. CASE option = "pure_cdcl"
  <2>1. Apply(p, option) = [p EXCEPT !.flag_use_pure_cdcl = TRUE, !.part_for_sls = 0]
    BY <1>8 DEF Apply
  <2>2. [p EXCEPT !.flag_use_pure_cdcl = TRUE] \in Para
    BY DEF Para
  <2>3. \A r \in Para : [r EXCEPT !.part_for_sls = 0] \in Para
    BY DEF Para
  <2>. QED BY <2>1, <2>2, <2>3
<1>9. CASE option = "pure_sls"
  BY <1>1, <1>9 DEF Para, Apply
<1>. QED BY <1>2, <1>3, <1>4, <1>5, <1>6, <1>7, <1>8, <1>9 DEF Option

LEMMA AllSetPara ==
  ASSUME argu \in Argument
  PROVE  AllSet \in Para
<1>. DEFINE n == Len(Setters)
            Op(p, k) == IF Given(Setters[k]) THEN Apply(p, Setters[k]) ELSE p
            F == [k \in 0 .. n |-> [p \in Para |-> Op(p, k)]]
            G == [k \in 0 .. n |-> Para]
            IsF(f) == f = [k \in 0 .. n |-> IF k = 0 THEN DefaultPara ELSE Op(f[k - 1], k)]
            set == CHOOSE f : IsF(f)
<1>1. AllSet = set[n]
  BY Zenon DEF AllSet
<1>2. n \in Nat /\ \A k \in 1 .. n : Setters[k] \in Option
  BY DEF Setters, Option
<1>3. DefaultPara \in Para
  BY DEF DefaultPara, Para
<1>4. ASSUME NEW k \in 1 .. n, NEW p \in Para PROVE Op(p, k) \in Para
  BY <1>2, <1>4, ApplyPara
<1>. HIDE DEF n, Op
<1>5. StepsIn(n, G, DefaultPara, F)
  <2>1. DefaultPara \in G[0]
    BY <1>2, <1>3
  <2>2. ASSUME NEW k \in 1 .. n, NEW p \in G[k - 1] PROVE F[k][p] \in G[k]
    <3>1. k \in 0 .. n /\ k - 1 \in 0 .. n
      BY <1>2
    <3>. QED BY <3>1, <1>4
  <2>. HIDE DEF F, G
  <2>. QED BY <2>1, <2>2 DEF StepsIn
<1>6. \E f : IsF(f) /\ \A k \in 0 .. n : f[k] \in Para
  <2>1. PICK f : RunsIn(n, G, DefaultPara, F, f)
    <3>. HIDE DEF F, G
    <3>. QED BY <1>2, <1>5, Iteration
  <2>2. /\ f = [k \in 0 .. n |-> IF k = 0 THEN DefaultPara ELSE F[k][f[k - 1]]]
        /\ \A k \in 0 .. n : f[k] \in G[k]
    BY <2>1 DEF RunsIn
  <2>3. \A k \in 0 .. n : f[k] \in Para
    BY <2>2
  <2>4. ASSUME NEW k \in 0 .. n, k # 0 PROVE F[k][f[k - 1]] = Op(f[k - 1], k)
    <3>1. k - 1 \in 0 .. n
      BY <1>2, <2>4
    <3>. QED BY <3>1, <2>3
  <2>. HIDE DEF F, G
  <2>. QED BY <2>2, <2>3, <2>4
<1>7. IsF(set)
  BY <1>6, Zenon
<1>. HIDE DEF set
<1>8. \A k \in 0 .. n : set[k] \in Para
  <2>. DEFINE T == {k \in 0 .. n : set[k] \in Para}
  <2>1. 0 \in T
    BY <1>2, <1>3, <1>7
  <2>2. ASSUME NEW k \in 1 .. n, k - 1 \in T PROVE k \in T
    <3>1. k \in 0 .. n /\ set[k] = Op(set[k - 1], k)
      BY <1>2, <1>7
    <3>. QED BY <3>1, <2>2, <1>4
  <2>. HIDE DEF T
  <2>3. \A k \in 0 .. n : k \in T
    BY <1>2, <2>1, <2>2, UpTo
  <2>. QED BY <2>3 DEF T
<1>. QED BY <1>1, <1>2, <1>8

LEMMA HeaderFacts ==
  ASSUME NEW f \in File
  PROVE  /\ f.nvar <= NumVar => HeaderVars(f, NumVar) = NumVar
         /\ HeaderVars(f, NumVar) \in Nat /\ HeaderVars(f, NumVar) >= NumVar
         /\ HeaderVars(f, 0) \in Nat
BY NumVarAssumption DEF HeaderVars, File, NoNumber

\* The number of options never falls; only a "p" line without one lets it grow
\* by chance.
LEMMA VarsReadFacts ==
  ASSUME NEW f \in File, NEW nvar \in VarsRead(f, NumVar)
  PROVE  /\ nvar \in Nat /\ nvar >= NumVar
         /\ f.nvar # NoNumber /\ f.nvar <= NumVar => nvar = NumVar
<1>1. PICK n \in IF f.header /\ f.nvar = NoNumber THEN GarbageVars ELSE {f.nvar} :
        nvar = HeaderVars([f EXCEPT !.nvar = n], NumVar)
  BY DEF VarsRead
<1>2. n \in Nat \cup {NoNumber}
  BY <1>1, NumVarAssumption DEF GarbageVars, File
<1>3. [f EXCEPT !.nvar = n] \in File /\ [f EXCEPT !.nvar = n].nvar = n
  BY <1>2 DEF File
<1>4. f.nvar # NoNumber /\ f.nvar <= NumVar => n <= NumVar
  BY <1>1
<1>. QED BY <1>1, <1>3, <1>4, HeaderFacts

LEMMA Refilled ==
  ASSUME NEW S, NEW s \in Seq(S)
  PROVE  [c \in 1 .. Len(s) |-> IF c <= Len(s) THEN s[c] ELSE <<>>] = s
OBVIOUS

LEMMA WholeRead ==
  ASSUME NEW f \in File, Len(f.clauses) = f.nclauses
  PROVE  ClausesRead(f, f.nclauses) = f.clauses
<1>1. f.clauses \in Seq(Seq(Int \ {0}))
  BY DEF File
<1>2. [c \in 1 .. Len(f.clauses) |-> IF c <= Len(f.clauses) THEN f.clauses[c] ELSE <<>>] = f.clauses
  BY <1>1, Refilled
<1>. QED BY <1>2 DEF ClausesRead

\* The clauses that are missing are read as empty ones, which nothing satisfies.
LEMMA BrokenRead ==
  ASSUME NEW f \in File, Counted(f), Len(f.clauses) < f.nclauses
  PROVE  \A tc : ~Satisfies(tc, ClausesRead(f, f.nclauses))
<1>. DEFINE c == Len(f.clauses) + 1
            F == ClausesRead(f, f.nclauses)
<1>1. f.nclauses \in Nat /\ Len(f.clauses) \in Nat
  BY DEF File, Counted, NoNumber
<1>2. c \in DOMAIN F /\ F[c] = <<>>
  BY <1>1 DEF ClausesRead
<1>3. \A tc : ~SatClause(tc, F[c])
  BY <1>2 DEF SatClause
<1>. HIDE DEF c, F
<1>4. \A tc : ~Satisfies(tc, F)
  BY <1>2, <1>3 DEF Satisfies
<1>. QED BY <1>4 DEF F

LEMMA InputFaithful ==
  ASSUME NEW f \in Inputs, f.open
  PROVE  Faithful(f, f) /\ f.nvar = NumVar
<1>1. f \in File /\ (f = Absent \/ (Whole(f) /\ f.nvar = NumVar))
  BY StartupAssumption DEF DimacsFile
<1>2. ~Absent.open
  BY DEF Absent
<1>. QED BY <1>1, <1>2, NumVarAssumption DEF Faithful

LEMMA WellFaithful ==
  ASSUME NEW input, NEW f \in ReducedWell(input)
  PROVE  Faithful(f, input) /\ DimacsFile(f)
<1>1. f \in ReducedFiles /\ Models(f.clauses) = Models(input.clauses)
  BY DEF ReducedWell
<1>2. f \in File /\ Whole(f) /\ f.nvar <= NumVar /\ f.open
  BY <1>1, StartupAssumption DEF Whole, DimacsFile
<1>. QED BY <1>1, <1>2, StartupAssumption DEF Faithful

LEMMA NoClauses ==
  ASSUME NEW S
  PROVE  <<>> \in Seq(S)
OBVIOUS

LEMMA AbsentDimacs == DimacsFile(Absent) /\ DimacsFile(Empty)
<1>1. Absent \in File /\ Empty \in File
  BY NoClauses DEF Absent, Empty, File
<1>. QED BY <1>1, NoClauses DEF Absent, Empty, DimacsFile, Counted, NoNumber

LEMMA CutBroken ==
  ASSUME NEW input, NEW w \in ReducedWell(input), NEW f \in Cuts(w)
  PROVE  Broken(f) /\ DimacsFile(f)
<1>1. w \in File /\ Whole(w) /\ w.open /\ w.nvar <= NumVar /\ DimacsFile(w)
  BY WellFaithful DEF Faithful
<1>2. /\ w.nvar \in Nat /\ w.nclauses \in Nat /\ Len(w.clauses) = w.nclauses
      /\ w.clauses \in Seq(Seq(Int \ {0})) /\ w.clauses \in Seq(Seq((-w.nvar .. w.nvar) \ {0}))
  BY <1>1 DEF File, Whole, NoNumber, DimacsFile
<1>3. CASE f = Empty
  BY <1>3, AbsentDimacs DEF Broken, Empty, Absent, Counted, DimacsFile
<1>4. ASSUME NEW v \in Nat \cup {NoNumber}, NEW n \in Nat \cup {NoNumber},
             v = NoNumber => n = NoNumber,
             n # NoNumber => v <= NumVar /\ n > 0,
             f = HeaderOnly(v, n)
      PROVE  Broken(f) /\ DimacsFile(f)
  <2>1. /\ f = [open |-> TRUE, header |-> TRUE, nvar |-> v, nclauses |-> n, clauses |-> <<>>,
                torn |-> FALSE]
    BY <1>4 DEF Empty, Absent, HeaderOnly
  <2>2. f \in File
    BY <2>1, NoClauses DEF File
  <2>3. f.clauses \in Seq(Seq((-f.nvar .. f.nvar) \ {0})) /\ Len(f.clauses) = 0
    BY <2>1, NoClauses
  <2>4. f.open /\ f.header /\ f.nvar = v /\ f.nclauses = n /\ f.torn = FALSE
    BY <2>1
  <2>. QED BY <1>4, <2>2, <2>3, <2>4 DEF Broken, DimacsFile, Counted, NoNumber
<1>5. \/ f \in {Empty, HeaderOnly(NoNumber, NoNumber)}
      \/ \E v \in {w.nvar} \cup 1 .. w.nvar : f = HeaderOnly(v, NoNumber)
      \/ \E n \in 1 .. w.nclauses - 1 : f = HeaderOnly(w.nvar, n)
      \/ \E n \in 0 .. w.nclauses - 1, torn \in BOOLEAN : f = Partial(w, n, torn)
  BY DEF Cuts
<1>6. CASE f = HeaderOnly(NoNumber, NoNumber)
  BY <1>4, <1>6
<1>7. ASSUME NEW v \in {w.nvar} \cup 1 .. w.nvar, f = HeaderOnly(v, NoNumber)
      PROVE  Broken(f) /\ DimacsFile(f)
  BY <1>2, <1>4, <1>7 DEF NoNumber
<1>8. ASSUME NEW n \in 1 .. w.nclauses - 1, f = HeaderOnly(w.nvar, n)
      PROVE  Broken(f) /\ DimacsFile(f)
  BY <1>1, <1>2, <1>4, <1>8 DEF NoNumber
<1>9. ASSUME NEW n \in 0 .. w.nclauses - 1, NEW torn \in BOOLEAN, f = Partial(w, n, torn)
      PROVE  Broken(f) /\ DimacsFile(f)
  <2>1. /\ SubSeq(w.clauses, 1, n) \in Seq(Seq(Int \ {0}))
        /\ SubSeq(w.clauses, 1, n) \in Seq(Seq((-w.nvar .. w.nvar) \ {0}))
        /\ Len(SubSeq(w.clauses, 1, n)) = n
    BY <1>2, <1>9
  <2>2. f = [w EXCEPT !.clauses = SubSeq(w.clauses, 1, n), !.torn = torn]
    BY <1>9 DEF Partial
  <2>3. f \in File
    BY <1>1, <2>1, <2>2 DEF File
  <2>4. /\ f.clauses = SubSeq(w.clauses, 1, n) /\ f.torn = torn /\ f.open /\ f.header
        /\ f.nvar = w.nvar /\ f.nclauses = w.nclauses
    BY <1>1, <2>2 DEF File, Whole
  <2>. QED BY <1>1, <1>2, <1>9, <2>1, <2>3, <2>4 DEF Broken, DimacsFile, Counted, NoNumber
<1>. QED BY <1>3, <1>5, <1>6, <1>7, <1>8, <1>9

-----------------------------------------------------------------------------
(* Startup: the steps *)

LEMMA StartInvInit ==
  ASSUME SInit
  PROVE  StartInv
<1>1. PICK input \in Inputs, named \in {Absent} \cup LeftoverFiles :
        files = [path \in {"input", "temp", "named"} |->
                   CASE path = "input" -> input [] path = "temp" -> Absent
                     [] path = "named" -> named]
  BY DEF SInit
<1>2. /\ DOMAIN files = Path /\ Input = input
      /\ files["input"] = input /\ files["temp"] = Absent /\ files["named"] = named
  BY <1>1 DEF Path, Input
<1>3. DimacsFile(input) /\ DimacsFile(named)
  BY StartupAssumption, AbsentDimacs
<1>4. \A path \in Path : DimacsFile(files[path])
  BY <1>2, <1>3, AbsentDimacs DEF Path
<1>5. para \in Para
  BY DEF SInit, DefaultPara, Para
<1>6. argu \in Argument
  BY StartupAssumption DEF SInit
<1>7. SettingsInv
  BY <1>2, <1>4, <1>5, <1>6 DEF SInit, SettingsInv, Path
<1>8. stage = "parse"
  BY DEF SInit
<1>. QED BY <1>7, <1>8 DEF StartInv, FilesInv, PboInv, CnfInv, RowsInv

LEMMA ConfigureStep ==
  ASSUME StartInv, Configure
  PROVE  StartInv'
<1>1. stage' \in {"argument_error", "crashed", "reduce"}
  BY DEF Configure
<1>2. para' \in Para
  BY AllSetPara DEF Configure, StartInv, SettingsInv
<1>3. SettingsInv'
  BY <1>2 DEF Configure, StartInv, SettingsInv, Input, dataVars
<1>. QED BY <1>1, <1>3 DEF StartInv, FilesInv, PboInv, CnfInv, RowsInv

LEMMA ReduceStep ==
  ASSUME StartInv, Reduce
  PROVE  StartInv'
<1>. DEFINE path == para.reduced_cnf_file_path
<1>1. /\ stage = "reduce" /\ stage' = "pbo" /\ argu' = argu
      /\ num_var = 0 /\ num_var' \in VarsRead(Input, num_var) /\ cnf_file_path = "input"
      /\ DOMAIN files = Path /\ Input \in Inputs /\ para \in Para /\ argu \in Argument
      /\ reducer = "idle" /\ \A p \in Path : DimacsFile(files[p])
  BY DEF Reduce, StartInv, SettingsInv, Input
<1>2. path \in {"temp", "named"}
  BY <1>1 DEF Para
<1>3. para' \in Para
  BY <1>1 DEF Reduce, Para
<1>4. \/ UNCHANGED <<reducer, files, cnf_file_path>>
      \/ /\ cnf_file_path' = path /\ reducer' \in {"well", "cut", "nothing"}
         /\ \E f \in LeftBy(reducer', Input, files[path]) : files' = [files EXCEPT ![path] = f]
  BY DEF Reduce, Input
<1>5. /\ DOMAIN files' = Path /\ Input' = Input /\ cnf_file_path' \in Path
      /\ \A p \in Path : DimacsFile(files'[p])
      /\ Input.open => \/ Worked' /\ Faithful(Reduced', Input)
                       \/ reducer' = "cut" /\ Broken(Reduced')
                       \/ reducer' = "nothing" /\ Leftover(Reduced')
  <2>1. CASE UNCHANGED <<reducer, files, cnf_file_path>>
    <3>1. Reduced' = Input /\ Input' = Input
      BY <1>1, <2>1 DEF Reduced, Input
    <3>. QED BY <1>1, <2>1, <3>1, InputFaithful DEF Path, Worked
  <2>2. ASSUME cnf_file_path' = path, reducer' \in {"well", "cut", "nothing"},
               NEW f \in LeftBy(reducer', Input, files[path]),
               files' = [files EXCEPT ![path] = f]
        PROVE  /\ DOMAIN files' = Path /\ Input' = Input /\ cnf_file_path' \in Path
               /\ \A p \in Path : DimacsFile(files'[p])
               /\ \/ Worked' /\ Faithful(Reduced', Input)
                  \/ reducer' = "cut" /\ Broken(Reduced')
                  \/ reducer' = "nothing" /\ Leftover(Reduced')
    <3>1. DOMAIN files' = Path /\ Input' = Input /\ cnf_file_path' \in Path /\ Reduced' = f
      BY <1>1, <1>2, <2>2 DEF Input, Reduced, Path
    <3>2. /\ DimacsFile(f)
          /\ \/ Worked' /\ Faithful(f, Input)
             \/ reducer' = "cut" /\ Broken(f)
             \/ reducer' = "nothing" /\ Leftover(f)
      <4>1. CASE reducer' = "well"
        BY <2>2, <4>1, WellFaithful DEF LeftBy, Worked
      <4>2. CASE reducer' = "cut"
        BY <2>2, <4>2, CutBroken DEF LeftBy
      <4>3. CASE reducer' = "nothing"
        <5>1. f = files[path] /\ path \in Path
          BY <1>2, <2>2, <4>3 DEF LeftBy, Path
        <5>. QED BY <1>1, <4>3, <5>1 DEF DimacsFile, Leftover, Counted
      <4>. QED BY <2>2, <4>1, <4>2, <4>3
    <3>3. \A p \in Path : files'[p] = IF p = path THEN f ELSE files[p]
      BY <1>1, <2>2
    <3>. QED BY <1>1, <3>1, <3>2, <3>3
  <2>. QED BY <1>4, <2>1, <2>2
<1>6. SettingsInv'
  BY <1>1, <1>3, <1>5 DEF SettingsInv
<1>7. ASSUME Input.open PROVE num_var' = NumVar
  <2>1. Input \in File /\ Input.nvar = NumVar /\ Input.header
    BY <1>1, <1>7, InputFaithful DEF Faithful, Whole
  <2>2. [Input EXCEPT !.nvar = NumVar] = Input
    BY <2>1 DEF File
  <2>3. VarsRead(Input, 0) = {HeaderVars([Input EXCEPT !.nvar = NumVar], 0)}
    <3>1. (IF Input.header /\ Input.nvar = NoNumber THEN GarbageVars ELSE {Input.nvar}) = {NumVar}
      BY <2>1, NumVarAssumption DEF NoNumber
    <3>. QED BY <3>1, Zenon DEF VarsRead
  <2>4. num_var' = HeaderVars(Input, 0)
    BY <1>1, <2>2, <2>3
  <2>. QED BY <2>1, <2>4, NumVarAssumption DEF HeaderVars
<1>. QED BY <1>1, <1>5, <1>6, <1>7 DEF StartInv, FilesInv, PboInv, CnfInv, RowsInv

LEMMA PboStep ==
  ASSUME StartInv, InitPbOCCSATSolver
  PROVE  StartInv'
<1>1. /\ stage = "pbo" /\ stage' \in {"hung", "crashed", "read"} /\ UNCHANGED fileVars
      /\ UNCHANGED <<num_var, cnf_clauses, as_backbone, testcase_set, saved>>
  BY DEF InitPbOCCSATSolver
<1>2. Input' = Input /\ Reduced' = Reduced /\ Worked' = Worked
  BY <1>1 DEF fileVars, Input, Reduced, Worked
<1>3. SettingsInv'
  BY <1>1, <1>2 DEF StartInv, SettingsInv, fileVars
<1>4. ASSUME Input.open PROVE FilesInv'
  BY <1>1, <1>2, <1>4 DEF StartInv, FilesInv, fileVars
<1>5. ASSUME Input.open, stage' = "read", Worked
      PROVE  pbo_solver'.num_vars = NumVar /\ Models(pbo_solver'.clauses) = Models(Input.clauses)
  <2>1. Faithful(Reduced, Input) /\ num_var = NumVar
    BY <1>1, <1>5 DEF StartInv, FilesInv, Worked
  <2>2. /\ Reduced \in File /\ Reduced.open /\ Reduced.header /\ Reduced.nvar <= NumVar
        /\ Len(Reduced.clauses) = Reduced.nclauses
    BY <2>1 DEF Faithful, Whole
  <2>3. Counted(Reduced)
    BY <2>2 DEF Counted, NoNumber, File
  <2>4. pbo_solver' = [open |-> TRUE, num_vars |-> HeaderVars(Reduced, num_var),
                       clauses |-> ClausesRead(Reduced, Reduced.nclauses)]
    BY <1>5, <2>2, <2>3 DEF InitPbOCCSATSolver, Reduced
  <2>. QED BY <2>1, <2>2, <2>4, HeaderFacts, WholeRead DEF Faithful
<1>. QED BY <1>1, <1>2, <1>3, <1>4, <1>5 DEF StartInv, PboInv, CnfInv, RowsInv

LEMMA ReadCNFStep ==
  ASSUME StartInv, ReadCNF
  PROVE  StartInv'
<1>1. /\ stage = "read" /\ stage' \in {"hung", "crashed", "first"} /\ UNCHANGED fileVars
      /\ UNCHANGED <<pbo_solver, testcase_set, saved>>
  BY DEF ReadCNF
<1>2. Input' = Input /\ Reduced' = Reduced /\ Worked' = Worked /\ reducer' = reducer
  BY <1>1 DEF fileVars, Input, Reduced, Worked
<1>3. SettingsInv'
  BY <1>1, <1>2 DEF StartInv, SettingsInv, fileVars
<1>4. ASSUME Input.open, stage' = "first" PROVE FilesInv' /\ CnfInv'
  <2>1. /\ \/ Worked /\ Faithful(Reduced, Input)
           \/ reducer = "cut" /\ Broken(Reduced)
           \/ reducer = "nothing" /\ Leftover(Reduced)
        /\ num_var = NumVar
    BY <1>1, <1>4 DEF StartInv, FilesInv
  <2>2. Reduced \in File
    BY <2>1 DEF Faithful, Broken, Leftover
  <2>3. PICK nvar \in VarsRead(Reduced, NumVar),
             n \in IF Counted(Reduced) THEN {Reduced.nclauses} ELSE Garbage :
          LET refused == ~Reduced.open \/ nvar <= 0 \/ n < 0
          IN  /\ num_var' = nvar /\ as_backbone' = ~refused
              /\ cnf_clauses' = IF refused THEN cnf_clauses ELSE ClausesRead(Reduced, n)
    BY <1>4, <2>1 DEF ReadCNF, Reduced
  <2>4. num_var' = nvar /\ (as_backbone' => Reduced.open)
    BY <2>3
  <2>5. num_var' \in Nat /\ num_var' >= NumVar
    BY <2>2, <2>3, VarsReadFacts
  <2>6. ASSUME Counted(Reduced)
        PROVE  /\ cnf_clauses' = ClausesRead(Reduced, Reduced.nclauses)
               /\ reducer # "nothing" => num_var' = NumVar
    <3>1. Reduced.open /\ Reduced.nclauses \in Nat
      BY <2>1, <2>2, <2>6 DEF Faithful, Broken, Leftover, Counted, File, NoNumber
    <3>2. cnf_clauses' = ClausesRead(Reduced, Reduced.nclauses)
      BY <2>3, <2>5, <2>6, <3>1, NumVarAssumption
    <3>3. ASSUME reducer # "nothing" PROVE num_var' = NumVar
      <4>1. Reduced.header /\ Reduced.nvar <= NumVar
        BY <2>1, <2>6, <3>3 DEF Faithful, Broken, Counted
      <4>2. Reduced.nvar # NoNumber
        BY <1>3, <1>2, <2>6 DEF SettingsInv, DimacsFile, Counted, Reduced
      <4>. QED BY <2>2, <2>3, <4>1, <4>2, VarsReadFacts
    <3>. QED BY <3>2, <3>3
  <2>7. Worked => Counted(Reduced) /\ reducer # "nothing"
    BY <2>1, <2>2 DEF Worked, Faithful, Whole, Counted, NoNumber, File
  <2>8. FilesInv'
    <3>1. /\ \/ Worked' /\ Faithful(Reduced', Input')
             \/ reducer' = "cut" /\ Broken(Reduced')
             \/ reducer' = "nothing" /\ Leftover(Reduced')
      BY <1>2, <2>1
    <3>2. Counted(Reduced') => reducer' = "nothing" \/ num_var' = NumVar
      BY <1>2, <2>6
    <3>3. Worked' => num_var' = NumVar
      BY <1>2, <2>6, <2>7
    <3>. QED BY <1>4, <2>5, <3>1, <3>2, <3>3 DEF FilesInv
  <2>9. CASE Worked /\ Faithful(Reduced, Input)
    <3>1. Models(cnf_clauses') = Models(Input.clauses)
      BY <2>2, <2>6, <2>7, <2>9, WholeRead DEF Faithful, Whole
    <3>. QED BY <1>2, <2>4, <2>7, <2>8, <2>9, <3>1 DEF CnfInv
  <2>10. CASE reducer = "cut" /\ Broken(Reduced)
    <3>1. Counted(Reduced) => Models(cnf_clauses') = {}
      BY <2>2, <2>6, <2>10, BrokenRead DEF Broken, Models
    <3>. QED BY <1>2, <2>4, <2>8, <2>10, <3>1 DEF CnfInv, Worked
  <2>11. CASE reducer = "nothing" /\ Leftover(Reduced)
    <3>1. ASSUME Counted(Reduced), NEW tc, Satisfies(tc, cnf_clauses')
          PROVE  Satisfies(tc, Reduced.clauses)
      <4>1. Reduced.nclauses \in Nat /\ Len(Reduced.clauses) \in Nat
        BY <2>2, <3>1 DEF File, Counted, NoNumber
      <4>2. Len(Reduced.clauses) = Reduced.nclauses
        BY <2>2, <2>6, <2>11, <3>1, <4>1, BrokenRead DEF Leftover
      <4>. QED BY <2>2, <2>6, <3>1, <4>2, WholeRead
    <3>. QED BY <1>2, <2>4, <2>8, <2>11, <3>1 DEF CnfInv, Worked
  <2>. QED BY <2>1, <2>9, <2>10, <2>11
<1>5. ASSUME Input.open PROVE PboInv'
  BY <1>1, <1>2, <1>5 DEF StartInv, PboInv
<1>. QED BY <1>1, <1>2, <1>3, <1>4, <1>5 DEF StartInv, FilesInv, CnfInv, RowsInv

\* The steps after reading: the formula and the file stay.
LEMMA StaysRead ==
  ASSUME StartInv, UNCHANGED <<fileVars, num_var, cnf_clauses, as_backbone, pbo_solver>>,
         \/ stage = "first" /\ stage' = "generate"
         \/ stage \in {"generate", "save"} /\ stage' \in {"save", "clean"}
         \/ stage' \in {"crashed", "no_row", "interrupted"}
  PROVE  /\ SettingsInv' /\ Input' = Input
         /\ Input.open => FilesInv' /\ PboInv' /\ CnfInv'
         /\ \A F : Solutions(F)' = Solutions(F)
<1>1. Input' = Input /\ Reduced' = Reduced /\ Worked' = Worked /\ reducer' = reducer
  BY DEF fileVars, Input, Reduced, Worked
<1>2. SettingsInv'
  BY <1>1 DEF StartInv, SettingsInv, fileVars
<1>3. ASSUME Input.open PROVE FilesInv' /\ PboInv' /\ CnfInv'
  <2>1. FilesInv'
    BY <1>1, <1>3 DEF StartInv, FilesInv
  <2>2. PboInv'
    BY <1>1, <1>3 DEF StartInv, PboInv
  <2>3. CnfInv'
    BY <1>1, <1>3 DEF StartInv, CnfInv
  <2>. QED BY <2>1, <2>2, <2>3
<1>. QED BY <1>1, <1>2, <1>3 DEF Solutions

LEMMA FirstStep ==
  ASSUME StartInv, FirstTestcase
  PROVE  StartInv'
<1>1. /\ stage = "first" /\ stage' = "generate"
      /\ UNCHANGED <<fileVars, num_var, cnf_clauses, as_backbone, pbo_solver>>
      /\ testcase_set' \subseteq Solutions(cnf_clauses) \cup {<<>>}
  BY DEF FirstTestcase
<1>2. RowsInv'
  BY <1>1, StaysRead DEF RowsInv
<1>. QED BY <1>1, <1>2, StaysRead DEF StartInv

LEMMA GenerateStep ==
  ASSUME StartInv, Generate
  PROVE  StartInv'
<1>1. /\ stage = "generate"
      /\ UNCHANGED <<fileVars, num_var, cnf_clauses, as_backbone, pbo_solver>>
      /\ stage' \in {"crashed", "no_row", "save"}
  BY DEF Generate
<1>2. ASSUME Input.open, stage' = "save"
      PROVE  as_backbone /\ testcase_set' \subseteq Solutions(cnf_clauses)
  <2>1. ~OutOfBounds
    BY <1>2 DEF Generate
  <2>2. \E n \in 0 .. MaxMoreRows : \E more \in [1 .. n -> Solutions(cnf_clauses)] :
          testcase_set' = testcase_set \cup {more[k] : k \in 1 .. n}
    BY <1>2, <2>1 DEF Generate
  <2>3. num_var \in Nat /\ num_var >= 2
    BY <1>1, <1>2, NumVarAssumption DEF StartInv, FilesInv
  <2>4. <<>> \notin testcase_set /\ as_backbone
    BY <2>1, <2>3 DEF OutOfBounds
  <2>5. testcase_set \subseteq Solutions(cnf_clauses) \cup {<<>>}
    BY <1>1, <1>2 DEF StartInv, RowsInv
  <2>. QED BY <2>2, <2>4, <2>5
<1>3. ASSUME Input.open PROVE RowsInv'
  BY <1>1, <1>2, <1>3, StaysRead DEF RowsInv
<1>. QED BY <1>1, <1>3, StaysRead DEF StartInv

LEMMA SaveStep ==
  ASSUME StartInv, SaveTestcaseSet
  PROVE  StartInv'
<1>1. /\ stage = "save" /\ stage' = "clean"
      /\ UNCHANGED <<fileVars, num_var, cnf_clauses, as_backbone, pbo_solver>>
      /\ saved'.rows = testcase_set
  BY DEF SaveTestcaseSet
<1>2. ASSUME Input.open PROVE RowsInv'
  BY <1>1, <1>2, StaysRead DEF StartInv, RowsInv
<1>. QED BY <1>1, <1>2, StaysRead DEF StartInv

LEMMA CleanStep ==
  ASSUME StartInv, RemoveTempFiles
  PROVE  StartInv'
<1>1. /\ stage = "clean" /\ stage' = "done"
      /\ UNCHANGED <<argu, reducer, para, cnf_file_path, dataVars>>
      /\ \/ files' = files
         \/ files' = [files EXCEPT ![para.reduced_cnf_file_path] = Absent]
  BY DEF RemoveTempFiles
<1>2. para.reduced_cnf_file_path \in {"temp", "named"} /\ DOMAIN files = Path
  BY DEF StartInv, SettingsInv, Para
<1>3. Input' = Input /\ DOMAIN files' = Path /\ Worked' = Worked
  BY <1>1, <1>2 DEF Input, Path, Worked
<1>4. \A path \in Path : files'[path] \in {files[path], Absent}
  BY <1>1, <1>2
<1>5. SettingsInv'
  BY <1>1, <1>3, <1>4, AbsentDimacs DEF StartInv, SettingsInv
<1>6. ASSUME Input.open PROVE FilesInv' /\ PboInv' /\ CnfInv' /\ RowsInv'
  BY <1>1, <1>3, <1>6 DEF StartInv, FilesInv, PboInv, CnfInv, RowsInv, dataVars
<1>. QED BY <1>3, <1>5, <1>6 DEF StartInv

LEMMA StartInvNext ==
  StartInv /\ [SNext]_svars => StartInv'
<1>. SUFFICES ASSUME StartInv, [SNext]_svars PROVE StartInv'
  OBVIOUS
<1>1. CASE HandleInterrupt
  <2>1. /\ stage' = "interrupted" /\ UNCHANGED <<fileVars, num_var, cnf_clauses, as_backbone, pbo_solver>>
    BY <1>1 DEF HandleInterrupt, dataVars
  <2>2. RowsInv'
    BY <2>1 DEF RowsInv
  <2>. QED BY <2>1, <2>2, StaysRead DEF StartInv
<1>2. CASE UNCHANGED svars
  <2>1. UNCHANGED <<Input, Reduced, Worked>>
    BY <1>2 DEF svars, Input, Reduced, Worked
  <2>2. SettingsInv'
    BY <1>2, <2>1 DEF svars, StartInv, SettingsInv
  <2>3. Input.open => FilesInv' /\ PboInv' /\ CnfInv'
    BY <1>2, <2>1 DEF svars, StartInv, FilesInv, PboInv, CnfInv
  <2>4. Input.open => RowsInv'
    BY <1>2, <2>1 DEF svars, StartInv, RowsInv, Solutions
  <2>. QED BY <2>1, <2>2, <2>3, <2>4 DEF StartInv
<1>. QED BY <1>1, <1>2, ConfigureStep, ReduceStep, PboStep, ReadCNFStep, FirstStep, GenerateStep,
            SaveStep, CleanStep DEF SNext, SStep

LEMMA StartInvAlways == SSpec => []StartInv
<1>. QED BY StartInvInit, StartInvNext, PTL DEF SSpec

\* For every file at the reducer's path before and after it runs: rows are
\* saved only if they are valid configurations of the input, or, when the
\* reducer wrote nothing, models of the whole formula that stood there; nothing
\* is said of a file whose "p" line is missing or ends before its last number.
THEOREM SavedRowsAlwaysValid == SSpec => []SavedRowsValid
<1>1. ASSUME StartInv, stage = "clean", Input.open, Reduced.open => Counted(Reduced)
      PROVE  saved.rows \subseteq IF reducer = "nothing" THEN Solutions(Reduced.clauses)
                                  ELSE Models(Input.clauses)
  <2>1. Counted(Reduced) /\ saved.rows \subseteq Solutions(cnf_clauses)
    BY <1>1 DEF StartInv, CnfInv, RowsInv
  <2>2. CASE reducer = "nothing"
    BY <1>1, <2>1, <2>2 DEF StartInv, CnfInv, Solutions
  <2>3. CASE reducer # "nothing"
    <3>1. num_var = NumVar /\ Models(cnf_clauses) \subseteq Models(Input.clauses)
      BY <1>1, <2>1, <2>3 DEF StartInv, FilesInv, CnfInv
    <3>2. Solutions(cnf_clauses) = Models(cnf_clauses)
      BY <3>1 DEF Solutions, Models, TestCase, Var
    <3>. QED BY <2>1, <2>3, <3>1, <3>2
  <2>. QED BY <2>2, <2>3
<1>2. StartInv => SavedRowsValid
  BY <1>1 DEF SavedRowsValid, Input, Reduced
<1>. QED BY <1>2, StartInvAlways, PTL

\* Once both readers are through, both hold the formula of the input over all
\* its options, if the reducer did its work.
THEOREM ReadersAlwaysAgree == SSpec => []ReadersAgree
<1>1. StartInv => ReadersAgree
  BY DEF StartInv, ReadersAgree, FilesInv, PboInv, CnfInv, Input, Worked
<1>. QED BY <1>1, StartInvAlways, PTL
=============================================================================
