--------------------------- MODULE PbOCCSATProofs ---------------------------
(***************************************************************************)
(* Proofs about the local search, for every number of options, every file, *)
(* all settings and all starts: what it caches is what could be counted    *)
(* afresh, and what it returns is a model.                                 *)
(***************************************************************************)
EXTENDS PbOCCSAT, CNFProofs

-----------------------------------------------------------------------------
(* Sequences *)

Distinct(s) == \A j, k \in DOMAIN s : s[j] = s[k] => j = k

LEMMA AppendItem ==
  ASSUME NEW X, NEW s \in Seq(X), NEW x \in X
  PROVE  /\ Append(s, x) \in Seq(X) /\ Len(Append(s, x)) = Len(s) + 1
         /\ ToSet(Append(s, x)) = ToSet(s) \cup {x}
         /\ Distinct(s) /\ x \notin ToSet(s) => Distinct(Append(s, x))
<1>. DEFINE t == Append(s, x)
<1>1. /\ t \in Seq(X) /\ Len(s) \in Nat /\ DOMAIN s = 1 .. Len(s)
      /\ DOMAIN t = 1 .. Len(s) + 1 /\ Len(t) = Len(s) + 1
      /\ \A k \in 1 .. Len(s) : t[k] = s[k]
      /\ t[Len(s) + 1] = x
  OBVIOUS
<1>. HIDE DEF t
<1>2. ToSet(t) = ToSet(s) \cup {x}
  <2>1. \A y \in ToSet(t) : y \in ToSet(s) \cup {x}
    BY <1>1 DEF ToSet
  <2>2. \A y \in ToSet(s) : y \in ToSet(t)
    BY <1>1 DEF ToSet
  <2>3. x \in ToSet(t)
    BY <1>1 DEF ToSet
  <2>. QED BY <2>1, <2>2, <2>3
<1>3. ASSUME Distinct(s), x \notin ToSet(s) PROVE Distinct(t)
  <2>1. \A k \in 1 .. Len(s) : s[k] # x
    BY <1>1, <1>3 DEF ToSet
  <2>2. ASSUME NEW j \in 1 .. Len(s) + 1, NEW k \in 1 .. Len(s) + 1, t[j] = t[k] PROVE j = k
    BY <1>1, <1>3, <2>1, <2>2 DEF Distinct
  <2>. QED BY <1>1, <2>2 DEF Distinct
<1>. QED BY <1>1, <1>2, <1>3 DEF t

\* Filtered keeps the items in S and brings in no repetition.
LEMMA FilteredItems ==
  ASSUME NEW X, NEW s \in Seq(X), NEW S
  PROVE  /\ Filtered(s, S) \in Seq(X)
         /\ ToSet(Filtered(s, S)) = ToSet(s) \cap S
         /\ Distinct(s) => Distinct(Filtered(s, S))
<1>. DEFINE n == Len(s)
            Op(t, k) == IF s[k] \in S THEN Append(t, s[k]) ELSE t
            IsF(f) == f = [k \in 0 .. n |-> IF k = 0 THEN <<>> ELSE Op(f[k - 1], k)]
            Good(t, k) == /\ t \in Seq(X) /\ ToSet(t) = {s[j] : j \in 1 .. k} \cap S
                          /\ Distinct(s) => Distinct(t)
            G == [k \in 0 .. n |-> {t \in Seq(X) : Good(t, k)}]
            F == [k \in 1 .. n |-> [t \in G[k - 1] |-> Op(t, k)]]
<1>1. n \in Nat /\ DOMAIN s = 1 .. n /\ \A k \in 1 .. n : s[k] \in X
  OBVIOUS
<1>. HIDE DEF n
<1>2. <<>> \in G[0]
  <2>1. ToSet(<<>>) = {} /\ Distinct(<<>>)
    BY DEF ToSet, Distinct
  <2>2. {s[j] : j \in 1 .. 0} = {}
    OBVIOUS
  <2>. QED BY <2>1, <2>2, <1>1
<1>3. ASSUME NEW k \in 1 .. n, NEW t \in G[k - 1] PROVE Op(t, k) \in G[k]
  <2>1. Good(t, k - 1)
    BY <1>1, SMTT(30)
  <2>2. {s[j] : j \in 1 .. k} = {s[j] : j \in 1 .. k - 1} \cup {s[k]}
    OBVIOUS
  <2>3. Good(Op(t, k), k)
    <3>1. CASE s[k] \in S
      <4>1. ToSet(Append(t, s[k])) = {s[j] : j \in 1 .. k} \cap S
        BY <2>1, <2>2, <3>1, <1>1, AppendItem
      <4>2. Distinct(s) => s[k] \notin ToSet(t)
        <5>. SUFFICES ASSUME Distinct(s), s[k] \in ToSet(t) PROVE FALSE
          OBVIOUS
        <5>1. PICK j \in 1 .. k - 1 : s[j] = s[k]
          BY <2>1
        <5>2. j \in DOMAIN s /\ k \in DOMAIN s /\ j # k
          BY <1>1
        <5>. QED BY <5>1, <5>2 DEF Distinct
      <4>3. Append(t, s[k]) \in Seq(X) /\ (Distinct(s) => Distinct(Append(t, s[k])))
        BY <2>1, <4>2, <1>1, AppendItem
      <4>. QED BY <3>1, <4>1, <4>3
    <3>2. CASE s[k] \notin S
      BY <2>1, <2>2, <3>2
    <3>. QED BY <3>1, <3>2
  <2>. HIDE DEF Op, Good
  <2>. QED BY <2>3 DEF Good
<1>. HIDE DEF Op, G
<1>4. \E f : IsF(f)
  <2>1. StepsIn(n, G, <<>>, F)
    BY <1>2, <1>3 DEF StepsIn
  <2>. HIDE DEF F
  <2>2. PICK f : RunsIn(n, G, <<>>, F, f)
    BY <1>1, <2>1, Iteration
  <2>3. \A k \in 1 .. n : f[k - 1] \in G[k - 1]
    BY <2>2, <1>1 DEF RunsIn
  <2>4. \A k \in 1 .. n : F[k][f[k - 1]] = Op(f[k - 1], k)
    BY <2>3 DEF F
  <2>5. f = [k \in 0 .. n |-> IF k = 0 THEN <<>> ELSE Op(f[k - 1], k)]
    BY <2>2, <2>4, <1>1, SMTT(30) DEF RunsIn
  <2>. QED BY <2>5
<1>. DEFINE f == CHOOSE f : IsF(f)
<1>5. IsF(f)
  BY <1>4, Zenon
<1>6. Filtered(s, S) = f[n]
  BY Zenon DEF Filtered, Op, n
<1>. HIDE DEF f
<1>7. f[0] = <<>> /\ \A k \in 1 .. n : f[k] = Op(f[k - 1], k)
  BY <1>1, <1>5
<1>8. f[n] \in G[n]
  <2>. DEFINE T == {k \in 0 .. n : f[k] \in G[k]}
  <2>1. 0 \in T
    BY <1>1, <1>2, <1>7
  <2>2. ASSUME NEW k \in 1 .. n, k - 1 \in T PROVE k \in T
    BY <2>2, <1>3, <1>7
  <2>. HIDE DEF T
  <2>3. n \in T
    BY <1>1, <2>1, <2>2, UpTo, SMTT(30)
  <2>. QED BY <2>3 DEF T
<1>9. {s[j] : j \in 1 .. n} = ToSet(s)
  BY <1>1 DEF ToSet
<1>10. Good(f[n], n)
  BY <1>1, <1>8 DEF G
<1>. QED BY <1>6, <1>9, <1>10

\* Dropping repeated literals keeps the set of literals.
LEMMA WithoutRepeatsItems ==
  ASSUME NEW X, NEW cl \in Seq(X)
  PROVE  /\ WithoutRepeats(cl) \in Seq(X)
         /\ ToSet(WithoutRepeats(cl)) = ToSet(cl)
         /\ Distinct(WithoutRepeats(cl))
<1>. DEFINE n == Len(cl)
            Op(t, p) == IF Contains(t, cl[p]) THEN t ELSE Append(t, cl[p])
            IsF(f) == f = [p \in 0 .. n |-> IF p = 0 THEN <<>> ELSE Op(f[p - 1], p)]
            Good(t, p) == t \in Seq(X) /\ ToSet(t) = {cl[j] : j \in 1 .. p} /\ Distinct(t)
            G == [p \in 0 .. n |-> {t \in Seq(X) : Good(t, p)}]
            F == [p \in 1 .. n |-> [t \in G[p - 1] |-> Op(t, p)]]
<1>1. n \in Nat /\ DOMAIN cl = 1 .. n /\ \A p \in 1 .. n : cl[p] \in X
  OBVIOUS
<1>. HIDE DEF n
<1>2. <<>> \in G[0]
  <2>1. ToSet(<<>>) = {} /\ Distinct(<<>>)
    BY DEF ToSet, Distinct
  <2>2. {cl[j] : j \in 1 .. 0} = {}
    OBVIOUS
  <2>. QED BY <2>1, <2>2, <1>1
<1>3. ASSUME NEW k \in 1 .. n, NEW t \in G[k - 1] PROVE Op(t, k) \in G[k]
  <2>1. Good(t, k - 1)
    BY <1>1
  <2>2. {cl[j] : j \in 1 .. k} = {cl[j] : j \in 1 .. k - 1} \cup {cl[k]}
    OBVIOUS
  <2>3. Contains(t, cl[k]) <=> cl[k] \in ToSet(t)
    BY <2>1, SMTT(30) DEF Contains, ToSet
  <2>4. Good(Op(t, k), k)
    <3>1. CASE cl[k] \notin ToSet(t)
      <4>1. Op(t, k) = Append(t, cl[k])
        BY <2>3, <3>1
      <4>2. cl[k] \in X /\ t \in Seq(X)
        BY <1>1, <2>1
      <4>3. Good(Append(t, cl[k]), k)
        BY <2>1, <2>2, <3>1, <4>2, AppendItem
      <4>. QED BY <4>1, <4>3
    <3>2. CASE cl[k] \in ToSet(t)
      BY <2>1, <2>2, <2>3, <3>2
    <3>. QED BY <3>1, <3>2
  <2>. HIDE DEF Op, Good
  <2>. QED BY <2>4 DEF Good
<1>. HIDE DEF Op, G
<1>4. \E f : IsF(f)
  <2>1. StepsIn(n, G, <<>>, F)
    BY <1>2, <1>3 DEF StepsIn
  <2>. HIDE DEF F
  <2>2. PICK f : RunsIn(n, G, <<>>, F, f)
    BY <1>1, <2>1, Iteration
  <2>3. \A k \in 1 .. n : f[k - 1] \in G[k - 1]
    BY <2>2, <1>1 DEF RunsIn
  <2>4. \A k \in 1 .. n : F[k][f[k - 1]] = Op(f[k - 1], k)
    BY <2>3 DEF F
  <2>5. f = [k \in 0 .. n |-> IF k = 0 THEN <<>> ELSE Op(f[k - 1], k)]
    BY <2>2, <2>4, <1>1 DEF RunsIn
  <2>. QED BY <2>5
<1>. DEFINE f == CHOOSE f : IsF(f)
<1>5. IsF(f)
  BY <1>4, Zenon
<1>6. WithoutRepeats(cl) = f[n]
  BY Zenon DEF WithoutRepeats, Op, n
<1>. HIDE DEF f
<1>7. f[0] = <<>> /\ \A k \in 1 .. n : f[k] = Op(f[k - 1], k)
  BY <1>1, <1>5
<1>8. f[n] \in G[n]
  <2>. DEFINE T == {k \in 0 .. n : f[k] \in G[k]}
  <2>1. 0 \in T
    BY <1>1, <1>2, <1>7
  <2>2. ASSUME NEW k \in 1 .. n, k - 1 \in T PROVE k \in T
    BY <2>2, <1>3, <1>7
  <2>. HIDE DEF T
  <2>3. n \in T
    BY <1>1, <2>1, <2>2, UpTo
  <2>. QED BY <2>3 DEF T
<1>9. {cl[j] : j \in 1 .. n} = ToSet(cl)
  BY <1>1 DEF ToSet
<1>10. Good(f[n], n)
  BY <1>1, <1>8 DEF G
<1>. QED BY <1>6, <1>9, <1>10

-----------------------------------------------------------------------------
(* What build_instance makes of a file *)

\* Clauses cls that have literals, each of another option.
ClausesInv(cls) ==
  /\ cls \in Seq(Seq(Literal))
  /\ \A c \in DOMAIN cls :
       /\ Len(cls[c]) > 0
       /\ \A p, q \in DOMAIN cls[c] : LitVar(cls[c][p]) = LitVar(cls[c][q]) => p = q

\* Repeated literals and tautologies make no difference to the models.
LEMMA BuiltClauses ==
  ASSUME NEW file \in Formula, \A c \in DOMAIN file : Len(file[c]) > 0
  PROVE  ClausesInv(BuildInstance(file)) /\ Models(BuildInstance(file)) = Models(file)
<1>. DEFINE S    == {cl \in ToSet(file) : ~Tautology(cl)}
            kept == Filtered(file, S)
            cls  == [c \in DOMAIN kept |-> WithoutRepeats(kept[c])]
<1>1. file \in Seq(Seq(Literal)) /\ DOMAIN file = 1 .. Len(file) /\ Len(file) \in Nat
  BY DEF Formula, Clause
<1>2. kept \in Seq(Seq(Literal)) /\ ToSet(kept) = ToSet(file) \cap S
  <2>. HIDE DEF S
  <2>. QED BY <1>1, FilteredItems
<1>3. ToSet(kept) = S
  BY <1>2
<1>4. BuildInstance(file) = cls
  BY Zenon DEF BuildInstance
<1>. HIDE DEF S
<1>5. ASSUME NEW c \in DOMAIN kept
      PROVE  /\ kept[c] \in S /\ kept[c] \in Seq(Literal) /\ cls[c] = WithoutRepeats(kept[c])
             /\ cls[c] \in Seq(Literal)
             /\ ToSet(cls[c]) = ToSet(kept[c]) /\ Distinct(cls[c])
  <2>1. kept[c] \in S
    BY <1>3 DEF ToSet
  <2>2. kept[c] \in Seq(Literal)
    BY <1>2
  <2>. HIDE DEF kept
  <2>. QED BY <2>1, <2>2, WithoutRepeatsItems
<1>. HIDE DEF kept
<1>6. DOMAIN cls = DOMAIN kept /\ DOMAIN kept = 1 .. Len(kept) /\ Len(kept) \in Nat
  BY <1>2
<1>7. cls \in Seq(Seq(Literal))
  BY <1>5, <1>6
<1>8. ASSUME NEW c \in DOMAIN cls
      PROVE  /\ Len(cls[c]) > 0
             /\ \A p, q \in DOMAIN cls[c] : LitVar(cls[c][p]) = LitVar(cls[c][q]) => p = q
  <2>1. /\ kept[c] \in S /\ kept[c] \in Seq(Literal) /\ cls[c] \in Seq(Literal)
        /\ ToSet(cls[c]) = ToSet(kept[c]) /\ Distinct(cls[c])
    BY <1>5, <1>6
  <2>. HIDE DEF cls
  <2>2. kept[c] \in ToSet(file) /\ ~Tautology(kept[c])
    BY <2>1 DEF S
  <2>3. PICK k \in DOMAIN file : kept[c] = file[k]
    BY <2>2 DEF ToSet
  <2>4. 1 \in DOMAIN kept[c]
    BY <2>1, <2>3
  <2>5. kept[c][1] \in ToSet(cls[c])
    BY <2>1, <2>4 DEF ToSet
  <2>6. Len(cls[c]) > 0
    BY <2>1, <2>5 DEF ToSet
  <2>7. ASSUME NEW p \in DOMAIN cls[c], NEW q \in DOMAIN cls[c],
               LitVar(cls[c][p]) = LitVar(cls[c][q])
        PROVE  p = q
    <3>1. cls[c][p] \in Literal /\ cls[c][q] \in Literal
      BY <2>1
    <3>2. cls[c][q] = cls[c][p] \/ cls[c][q] = -cls[c][p]
      BY <3>1, <2>7, LiteralFacts
    <3>3. cls[c][p] \in ToSet(kept[c]) /\ cls[c][q] \in ToSet(kept[c])
      BY <2>1 DEF ToSet
    <3>4. PICK i \in DOMAIN kept[c], j \in DOMAIN kept[c] :
             kept[c][i] = cls[c][p] /\ kept[c][j] = cls[c][q]
      BY <3>3 DEF ToSet
    <3>5. ~(kept[c][j] = -kept[c][i])
      BY <2>2 DEF Tautology
    <3>6. cls[c][q] = cls[c][p]
      BY <3>2, <3>4, <3>5
    <3>. QED BY <3>6, <2>1 DEF Distinct
  <2>. QED BY <2>6, <2>7
<1>9. ASSUME NEW tc \in TestCase PROVE Satisfies(tc, cls) <=> Satisfies(tc, file)
  <2>1. ASSUME NEW c \in DOMAIN kept PROVE SatClause(tc, cls[c]) <=> SatClause(tc, kept[c])
    <3>1. ToSet(cls[c]) = ToSet(kept[c])
      BY <1>5
    <3>2. \A cl : SatClause(tc, cl) <=> \E l \in ToSet(cl) : Holds(tc, l)
      BY DEF SatClause, ToSet
    <3>. HIDE DEF cls
    <3>. QED BY <3>1, <3>2
  <2>2. ASSUME NEW cl \in ToSet(file), Tautology(cl) PROVE SatClause(tc, cl)
    <3>1. PICK p \in DOMAIN cl, q \in DOMAIN cl : cl[p] = -cl[q]
      BY <2>2 DEF Tautology
    <3>2. cl \in Seq(Literal)
      BY <1>1 DEF ToSet
    <3>3. cl[q] \in Literal
      BY <3>2
    <3>. QED BY <3>1, <3>3, LiteralFacts DEF SatClause
  <2>3. Satisfies(tc, cls) <=> \A cl \in S : SatClause(tc, cl)
    <3>1. Satisfies(tc, cls) <=> \A c \in DOMAIN kept : SatClause(tc, cls[c])
      BY <1>6 DEF Satisfies
    <3>. HIDE DEF cls
    <3>2. \A cl \in S : \E c \in DOMAIN kept : kept[c] = cl
      BY <1>3 DEF ToSet
    <3>. QED BY <3>1, <3>2, <2>1, <1>5
  <2>4. Satisfies(tc, file) <=> \A cl \in ToSet(file) : SatClause(tc, cl)
    BY DEF Satisfies, ToSet
  <2>. QED BY <2>2, <2>3, <2>4 DEF S
<1>10. Models(cls) = Models(file)
  BY <1>9 DEF Models
<1>. QED BY <1>4, <1>7, <1>8, <1>10 DEF ClausesInv

-----------------------------------------------------------------------------
(* Stacks with an index array *)

StackOn(S) == [items : Seq(S), index : [S -> Nat]]

\* The stack s of items of S holds F, and finds each of them.
Holding(s, S, F) == s \in StackOn(S) /\ Indexed(s) /\ ToSet(s.items) = F

LEMMA HoldingEmpty ==
  ASSUME NEW S
  PROVE  Holding(EmptyStack(S), S, {})
BY DEF Holding, EmptyStack, StackOn, Indexed, ToSet

LEMMA HoldingTypes ==
  ASSUME NEW S, NEW F, NEW s, Holding(s, S, F)
  PROVE  /\ s.items \in Seq(S) /\ s.index \in [S -> Nat]
         /\ Len(s.items) \in Nat /\ DOMAIN s.items = 1 .. Len(s.items)
         /\ \A k \in 1 .. Len(s.items) : s.items[k] \in F /\ s.items[k] \in S
                                         /\ s.index[s.items[k]] = k
         /\ Distinct(s.items)
         /\ \A x \in F : x \in S /\ s.index[x] \in 1 .. Len(s.items) /\ s.items[s.index[x]] = x
<1>1. s.items \in Seq(S) /\ s.index \in [S -> Nat]
  BY DEF Holding, StackOn
<1>2. Len(s.items) \in Nat /\ DOMAIN s.items = 1 .. Len(s.items)
  BY <1>1
<1>3. \A k \in 1 .. Len(s.items) : s.items[k] \in F /\ s.items[k] \in S
                                   /\ s.index[s.items[k]] = k
  <2>1. \A k \in 1 .. Len(s.items) : s.items[k] \in S
    BY <1>1
  <2>2. \A k \in 1 .. Len(s.items) : s.items[k] \in F /\ s.index[s.items[k]] = k
    BY <1>2 DEF Holding, Indexed, ToSet
  <2>. QED BY <2>1, <2>2
<1>4. Distinct(s.items)
  BY <1>2, <1>3 DEF Distinct
<1>5. \A x \in F : x \in S /\ s.index[x] \in 1 .. Len(s.items) /\ s.items[s.index[x]] = x
  <2>1. \A x \in F : \E k \in 1 .. Len(s.items) : s.items[k] = x
    BY <1>2 DEF Holding, ToSet
  <2>. QED BY <2>1, <1>3
<1>. QED BY <1>1, <1>2, <1>3, <1>4, <1>5

LEMMA HoldingPushed ==
  ASSUME NEW S, NEW F, NEW s, Holding(s, S, F), NEW x \in S, x \notin F
  PROVE  Holding(Push(s, x), S, F \cup {x})
<1>. DEFINE t == Push(s, x)
            n == Len(s.items)
<1>1. /\ s.items \in Seq(S) /\ s.index \in [S -> Nat] /\ n \in Nat
      /\ \A k \in 1 .. n : s.items[k] \in F /\ s.items[k] \in S /\ s.index[s.items[k]] = k
  BY HoldingTypes
<1>2. t.items = Append(s.items, x) /\ t.index = [s.index EXCEPT ![x] = n + 1]
      /\ t = [items |-> t.items, index |-> t.index]
  BY DEF Push
<1>3. /\ t.items \in Seq(S) /\ ToSet(t.items) = F \cup {x} /\ Len(t.items) = n + 1
      /\ t.index \in [S -> Nat] /\ t.index[x] = n + 1
      /\ \A y \in S : y # x => t.index[y] = s.index[y]
  BY <1>1, <1>2, AppendItem DEF Holding
<1>4. t.items[n + 1] = x /\ \A k \in 1 .. n : t.items[k] = s.items[k]
  BY <1>1, <1>2
<1>. HIDE DEF t, n
<1>5. \A k \in 1 .. n + 1 : t.index[t.items[k]] = k
  <2>1. \A k \in 1 .. n : t.index[t.items[k]] = k
    BY <1>1, <1>3, <1>4, ZenonT(40)
  <2>. QED BY <2>1, <1>1, <1>3, <1>4
<1>6. DOMAIN t.items = 1 .. n + 1
  BY <1>3
<1>7. t \in StackOn(S)
  BY <1>2, <1>3 DEF StackOn
<1>. QED BY <1>3, <1>5, <1>6, <1>7 DEF Holding, Indexed, t

LEMMA HoldingPopped ==
  ASSUME NEW S, NEW F, NEW s, Holding(s, S, F), NEW x \in F
  PROVE  Holding(SwapPop(s, x), S, F \ {x})
<1>. DEFINE t == SwapPop(s, x)
            n == Len(s.items)
            k == s.index[x]
            l == s.items[n]
            u == [s.items EXCEPT ![k] = l]
<1>1. /\ s.items \in Seq(S) /\ s.index \in [S -> Nat] /\ n \in Nat
      /\ \A j \in 1 .. n : s.items[j] \in F /\ s.items[j] \in S /\ s.index[s.items[j]] = j
      /\ x \in S /\ k \in 1 .. n /\ s.items[k] = x
      /\ \A y \in F : s.index[y] \in 1 .. n /\ s.items[s.index[y]] = y
  BY HoldingTypes
<1>2. n \in 1 .. n /\ l \in S /\ l \in F /\ s.index[l] = n
  BY <1>1
<1>3. /\ t.items = SubSeq(u, 1, n - 1)
      /\ t.index = [s.index EXCEPT ![l] = k, ![x] = 0]
      /\ t = [items |-> t.items, index |-> t.index]
  BY DEF SwapPop, Last
<1>4. u \in Seq(S) /\ Len(u) = n /\ \A j \in 1 .. n : u[j] = IF j = k THEN l ELSE s.items[j]
  BY <1>1, <1>2
<1>. HIDE DEF n, k, l, t, u
<1>5. /\ t.items \in Seq(S) /\ Len(t.items) = n - 1 /\ n - 1 \in Nat
      /\ \A j \in 1 .. n - 1 : t.items[j] = IF j = k THEN l ELSE s.items[j]
  BY <1>1, <1>2, <1>3, <1>4, SMTT(30)
<1>6. /\ t.index \in [S -> Nat] /\ (l # x => t.index[l] = k)
      /\ \A y \in S : y # x /\ y # l => t.index[y] = s.index[y]
  <2>. DEFINE g == [s.index EXCEPT ![l] = k]
  <2>1. k \in Nat
    BY <1>1
  <2>2. g \in [S -> Nat] /\ g[l] = k /\ \A y \in S : y # l => g[y] = s.index[y]
    BY <1>1, <1>2, <2>1
  <2>3. t.index = [g EXCEPT ![x] = 0]
    BY <1>3
  <2>. HIDE DEF g
  <2>. QED BY <1>1, <1>2, <2>2, <2>3
<1>7. DOMAIN t.items = 1 .. n - 1
  BY <1>5
<1>8. \A j \in 1 .. n - 1 : t.index[t.items[j]] = j
  <2>. SUFFICES ASSUME NEW j \in 1 .. n - 1 PROVE t.index[t.items[j]] = j
    OBVIOUS
  <2>1. j \in 1 .. n /\ j # n
    BY <1>1
  <2>2. CASE j = k
    <3>1. l # x
      BY <1>1, <1>2, <2>1, <2>2
    <3>. QED BY <3>1, <2>2, <1>5, <1>6
  <2>3. CASE j # k
    <3>1. s.items[j] # x /\ s.items[j] # l /\ s.items[j] \in S /\ s.index[s.items[j]] = j
      BY <1>1, <1>2, <2>1, <2>3
    <3>. QED BY <3>1, <2>3, <1>5, <1>6
  <2>. QED BY <2>2, <2>3
<1>9. ToSet(t.items) = F \ {x}
  <2>1. ASSUME NEW j \in 1 .. n - 1 PROVE t.items[j] \in F \ {x}
    <3>1. j \in 1 .. n /\ j # n
      BY <1>1
    <3>2. CASE j = k
      <4>1. l # x
        BY <1>1, <1>2, <3>1, <3>2
      <4>. QED BY <4>1, <3>2, <1>2, <1>5
    <3>3. CASE j # k
      <4>1. s.items[j] # x /\ s.items[j] \in F
        BY <1>1, <3>1, <3>3
      <4>. QED BY <4>1, <3>3, <1>5
    <3>. QED BY <3>2, <3>3
  <2>2. ASSUME NEW y \in F \ {x} PROVE \E j \in 1 .. n - 1 : t.items[j] = y
    <3>1. s.index[y] \in 1 .. n /\ s.items[s.index[y]] = y /\ s.index[y] # k
      BY <1>1
    <3>2. CASE s.index[y] = n
      <4>1. y = l /\ k # n
        BY <3>1, <3>2, <1>1 DEF l
      <4>2. k \in 1 .. n - 1
        BY <4>1, <1>1
      <4>. QED BY <4>1, <4>2, <1>5
    <3>3. CASE s.index[y] # n
      <4>1. s.index[y] \in 1 .. n - 1
        BY <3>1, <3>3, <1>1
      <4>. QED BY <4>1, <3>1, <1>5
    <3>. QED BY <3>2, <3>3
  <2>. QED BY <2>1, <2>2, <1>7 DEF ToSet
<1>10. t \in StackOn(S)
  BY <1>3, <1>5, <1>6 DEF StackOn
<1>. QED BY <1>7, <1>8, <1>9, <1>10 DEF Holding, Indexed, t

StackRecord == [unsat : StackOn(ClauseId), var : StackOn(Var), app : [Var -> Int], total : Int]

\* The options stacked are those that are counted.
OptionsHeld(t) ==
  /\ t \in StackRecord
  /\ Holding(t.var, Var, {v \in Var : t.app[v] > 0})
  /\ \A v \in Var : t.app[v] \in Nat

LEMMA CountedOnceHeld ==
  ASSUME NEW t, OptionsHeld(t), NEW v \in Var
  PROVE  /\ OptionsHeld(CountedOnce(t, v))
         /\ CountedOnce(t, v).unsat = t.unsat /\ CountedOnce(t, v).total = t.total
         /\ CountedOnce(t, v).app = [t.app EXCEPT ![v] = @ + 1]
<1>. DEFINE u == CountedOnce(t, v)
            On(x) == {y \in Var : x.app[y] > 0}
<1>1. /\ t \in StackRecord /\ t.app \in [Var -> Int] /\ t.var \in StackOn(Var)
      /\ t.unsat \in StackOn(ClauseId) /\ t.total \in Int
      /\ Holding(t.var, Var, On(t)) /\ \A y \in Var : t.app[y] \in Nat
  BY DEF OptionsHeld, StackRecord
<1>2. u = [unsat |-> t.unsat, var |-> IF t.app[v] = 0 THEN Push(t.var, v) ELSE t.var,
           app |-> [t.app EXCEPT ![v] = @ + 1], total |-> t.total]
  <2>1. t = [unsat |-> t.unsat, var |-> t.var, app |-> t.app, total |-> t.total]
    BY <1>1 DEF StackRecord
  <2>2. u = [t EXCEPT !.app[v] = @ + 1,
                      !.var = IF t.app[v] = 0 THEN Push(t.var, v) ELSE t.var]
    BY <2>1 DEF CountedOnce
  <2>3. [t EXCEPT !.app[v] = @ + 1] = [unsat |-> t.unsat, var |-> t.var,
             app |-> [t.app EXCEPT ![v] = @ + 1], total |-> t.total]
    BY <2>1
  <2>. QED BY <2>1, <2>2, <2>3
<1>. HIDE DEF u
<1>3. /\ u.unsat = t.unsat /\ u.total = t.total /\ u.app = [t.app EXCEPT ![v] = @ + 1]
      /\ u.var = IF t.app[v] = 0 THEN Push(t.var, v) ELSE t.var
  BY <1>2
<1>4. u.app \in [Var -> Int] /\ u.app[v] = t.app[v] + 1 /\ \A y \in Var : y # v => u.app[y] = t.app[y]
  BY <1>1, <1>3
<1>5. \A y \in Var : u.app[y] \in Nat
  BY <1>1, <1>4
<1>6. Holding(u.var, Var, On(u))
  <2>1. CASE t.app[v] = 0
    <3>1. v \notin On(t) /\ On(u) = On(t) \cup {v}
      BY <1>1, <1>4, <2>1
    <3>. HIDE DEF On
    <3>2. Holding(Push(t.var, v), Var, On(t) \cup {v})
      BY <1>1, <3>1, HoldingPushed
    <3>. QED BY <3>1, <3>2, <2>1, <1>3
  <2>2. CASE t.app[v] # 0
    <3>1. On(u) = On(t)
      BY <1>1, <1>4, <2>2
    <3>. HIDE DEF On
    <3>. QED BY <3>1, <2>2, <1>1, <1>3
  <2>. QED BY <2>1, <2>2
<1>7. u \in StackRecord
  BY <1>1, <1>2, <1>4, <1>6, <1>3 DEF StackRecord, Holding
<1>. QED BY <1>3, <1>5, <1>6, <1>7 DEF OptionsHeld, u

LEMMA CountedOffHeld ==
  ASSUME NEW t, OptionsHeld(t), NEW v \in Var, t.app[v] > 0
  PROVE  /\ OptionsHeld(CountedOff(t, v))
         /\ CountedOff(t, v).unsat = t.unsat /\ CountedOff(t, v).total = t.total
         /\ CountedOff(t, v).app = [t.app EXCEPT ![v] = @ - 1]
<1>. DEFINE u == CountedOff(t, v)
            On(x) == {y \in Var : x.app[y] > 0}
<1>1. /\ t \in StackRecord /\ t.app \in [Var -> Int] /\ t.var \in StackOn(Var)
      /\ t.unsat \in StackOn(ClauseId) /\ t.total \in Int
      /\ Holding(t.var, Var, On(t)) /\ \A y \in Var : t.app[y] \in Nat
  BY DEF OptionsHeld, StackRecord
<1>2. u = [unsat |-> t.unsat, var |-> IF t.app[v] = 1 THEN SwapPop(t.var, v) ELSE t.var,
           app |-> [t.app EXCEPT ![v] = @ - 1], total |-> t.total]
  <2>1. t = [unsat |-> t.unsat, var |-> t.var, app |-> t.app, total |-> t.total]
    BY <1>1 DEF StackRecord
  <2>2. u = [t EXCEPT !.app[v] = @ - 1,
                      !.var = IF t.app[v] = 1 THEN SwapPop(t.var, v) ELSE t.var]
    BY <2>1 DEF CountedOff
  <2>3. [t EXCEPT !.app[v] = @ - 1] = [unsat |-> t.unsat, var |-> t.var,
             app |-> [t.app EXCEPT ![v] = @ - 1], total |-> t.total]
    BY <2>1
  <2>. QED BY <2>1, <2>2, <2>3
<1>. HIDE DEF u
<1>3. /\ u.unsat = t.unsat /\ u.total = t.total /\ u.app = [t.app EXCEPT ![v] = @ - 1]
      /\ u.var = IF t.app[v] = 1 THEN SwapPop(t.var, v) ELSE t.var
  BY <1>2
<1>4. u.app \in [Var -> Int] /\ u.app[v] = t.app[v] - 1 /\ \A y \in Var : y # v => u.app[y] = t.app[y]
  BY <1>1, <1>3
<1>5. \A y \in Var : u.app[y] \in Nat
  BY <1>1, <1>4
<1>6. Holding(u.var, Var, On(u))
  <2>1. CASE t.app[v] = 1
    <3>1. v \in On(t) /\ On(u) = On(t) \ {v}
      BY <1>1, <1>4, <2>1
    <3>. HIDE DEF On
    <3>2. Holding(SwapPop(t.var, v), Var, On(t) \ {v})
      BY <1>1, <3>1, HoldingPopped
    <3>. QED BY <3>1, <3>2, <2>1, <1>3
  <2>2. CASE t.app[v] # 1
    <3>1. On(u) = On(t)
      BY <1>1, <1>4, <2>2
    <3>. HIDE DEF On
    <3>. QED BY <3>1, <2>2, <1>1, <1>3
  <2>. QED BY <2>1, <2>2
<1>7. u \in StackRecord
  BY <1>1, <1>2, <1>4, <1>6, <1>3 DEF StackRecord, Holding
<1>. QED BY <1>3, <1>5, <1>6, <1>7 DEF OptionsHeld, u

LEMMA ClauseFacts ==
  ASSUME ClausesInv(clauses)
  PROVE  /\ Len(clauses) \in Nat /\ ClauseId = 1 .. Len(clauses)
         /\ \A c \in ClauseId :
              /\ Len(clauses[c]) \in Nat \ {0} /\ DOMAIN clauses[c] = 1 .. Len(clauses[c])
              /\ \A p \in 1 .. Len(clauses[c]) :
                   clauses[c][p] \in Literal /\ VarSeq(c)[p] = LitVar(clauses[c][p])
                   /\ VarSeq(c)[p] \in Var
              /\ VarSeq(c) \in Seq(Var) /\ Len(VarSeq(c)) = Len(clauses[c])
              /\ Distinct(VarSeq(c)) /\ ToSet(VarSeq(c)) = VarsOf(c)
              /\ VarsOf(c) \subseteq Var /\ VarsOf(c) # {}
              /\ \A v \in Var : v \in VarsOf(c) <=> c \in ClausesOf(v)
<1>1. /\ clauses \in Seq(Seq(Literal))
      /\ \A c \in DOMAIN clauses :
           /\ Len(clauses[c]) > 0
           /\ \A p, q \in DOMAIN clauses[c] : LitVar(clauses[c][p]) = LitVar(clauses[c][q]) => p = q
  BY DEF ClausesInv
<1>2. Len(clauses) \in Nat /\ ClauseId = 1 .. Len(clauses)
  BY <1>1 DEF ClauseId
<1>. SUFFICES ASSUME NEW c \in ClauseId
              PROVE  /\ Len(clauses[c]) \in Nat \ {0} /\ DOMAIN clauses[c] = 1 .. Len(clauses[c])
                     /\ \A p \in 1 .. Len(clauses[c]) :
                          clauses[c][p] \in Literal /\ VarSeq(c)[p] = LitVar(clauses[c][p])
                          /\ VarSeq(c)[p] \in Var
                     /\ VarSeq(c) \in Seq(Var) /\ Len(VarSeq(c)) = Len(clauses[c])
                     /\ Distinct(VarSeq(c)) /\ ToSet(VarSeq(c)) = VarsOf(c)
                     /\ VarsOf(c) \subseteq Var /\ VarsOf(c) # {}
                     /\ \A v \in Var : v \in VarsOf(c) <=> c \in ClausesOf(v)
  BY <1>2
<1>3. clauses[c] \in Seq(Literal) /\ Len(clauses[c]) > 0 /\ c \in DOMAIN clauses
  BY <1>1 DEF ClauseId
<1>4. Len(clauses[c]) \in Nat \ {0} /\ DOMAIN clauses[c] = 1 .. Len(clauses[c])
  BY <1>3
<1>5. ASSUME NEW p \in 1 .. Len(clauses[c])
      PROVE  /\ clauses[c][p] \in Literal /\ VarSeq(c)[p] = LitVar(clauses[c][p])
             /\ VarSeq(c)[p] \in Var
  <2>1. clauses[c][p] \in Literal
    BY <1>3
  <2>2. VarSeq(c)[p] = LitVar(clauses[c][p])
    BY <1>4 DEF VarSeq
  <2>. QED BY <2>1, <2>2, LiteralFacts
<1>6. VarSeq(c) \in Seq(Var) /\ Len(VarSeq(c)) = Len(clauses[c])
      /\ DOMAIN VarSeq(c) = 1 .. Len(clauses[c])
  <2>1. VarSeq(c) \in [1 .. Len(clauses[c]) -> Var]
    BY <1>4, <1>5 DEF VarSeq
  <2>. QED BY <2>1, <1>4
<1>7. Distinct(VarSeq(c))
  BY <1>1, <1>3, <1>4, <1>5, <1>6 DEF Distinct
<1>8. ToSet(VarSeq(c)) = VarsOf(c)
  BY <1>4, <1>5, <1>6 DEF ToSet, VarsOf
<1>9. VarsOf(c) \subseteq Var /\ VarsOf(c) # {}
  <2>1. VarSeq(c)[1] \in ToSet(VarSeq(c))
    BY <1>4, <1>6 DEF ToSet
  <2>2. ToSet(VarSeq(c)) \subseteq Var
    BY <1>5, <1>6 DEF ToSet
  <2>. QED BY <2>1, <2>2, <1>8
<1>10. \A v \in Var : v \in VarsOf(c) <=> c \in ClausesOf(v)
  BY DEF ClausesOf
<1>. QED BY <1>4, <1>5, <1>6, <1>7, <1>8, <1>9, <1>10

-----------------------------------------------------------------------------
(* How many false clauses have an option *)

\* How many of the clauses in B have option v.
LEMMA CountAdded ==
  ASSUME ClausesInv(clauses), NEW B \in SUBSET ClauseId, NEW c \in ClauseId, c \notin B, NEW v \in Var
  PROVE  /\ Cardinality(ClausesOf(v) \cap B) \in Nat
         /\ Cardinality(ClausesOf(v) \cap (B \cup {c}))
              = Cardinality(ClausesOf(v) \cap B) + (IF v \in VarsOf(c) THEN 1 ELSE 0)
<1>. DEFINE K == ClausesOf(v) \cap B
<1>1. IsFiniteSet(K) /\ Cardinality(K) \in Nat
  <2>1. IsFiniteSet(1 .. Len(clauses)) /\ ClauseId = 1 .. Len(clauses)
    BY ClauseFacts, FS_Interval
  <2>. QED BY <2>1, FS_Subset, FS_CardinalityType
<1>2. CASE v \in VarsOf(c)
  <2>1. ClausesOf(v) \cap (B \cup {c}) = K \cup {c} /\ c \notin K
    BY <1>2 DEF ClausesOf
  <2>. HIDE DEF K
  <2>2. Cardinality(K \cup {c}) = Cardinality(K) + 1
    BY <1>1, <2>1, FS_AddElement
  <2>. QED BY <2>1, <2>2, <1>1, <1>2 DEF K
<1>3. CASE v \notin VarsOf(c)
  <2>1. ClausesOf(v) \cap (B \cup {c}) = K
    BY <1>3 DEF ClausesOf
  <2>. QED BY <2>1, <1>1, <1>3
<1>. QED BY <1>2, <1>3

LEMMA CountRemoved ==
  ASSUME ClausesInv(clauses), NEW B \in SUBSET ClauseId, NEW c \in B, NEW v \in Var
  PROVE  /\ Cardinality(ClausesOf(v) \cap B) \in Nat
         /\ Cardinality(ClausesOf(v) \cap (B \ {c})) \in Nat
         /\ Cardinality(ClausesOf(v) \cap (B \ {c}))
              = Cardinality(ClausesOf(v) \cap B) - (IF v \in VarsOf(c) THEN 1 ELSE 0)
<1>1. (B \ {c}) \cup {c} = B /\ c \notin B \ {c} /\ B \ {c} \in SUBSET ClauseId /\ c \in ClauseId
  OBVIOUS
<1>2. /\ Cardinality(ClausesOf(v) \cap (B \ {c})) \in Nat
      /\ Cardinality(ClausesOf(v) \cap B)
           = Cardinality(ClausesOf(v) \cap (B \ {c})) + (IF v \in VarsOf(c) THEN 1 ELSE 0)
  BY <1>1, CountAdded
<1>. QED BY <1>2

-----------------------------------------------------------------------------
(* unsat and sat *)

\* The clause itself goes on or off; then its options are counted.
UnsatStart(st, c, w) == [st EXCEPT !.unsat = Push(@, c), !.total = @ + w]
SatStart(st, c, w)   == [st EXCEPT !.unsat = SwapPop(@, c), !.total = @ - w]

\* The stacks st are those of the false clauses B with the weights w.
StacksHold(st, B, w) ==
  /\ OptionsHeld(st)
  /\ Holding(st.unsat, ClauseId, B)
  /\ \A v \in Var : st.app[v] = Cardinality(ClausesOf(v) \cap B)
  /\ st.total = SumOver(B, w)

\* From st the options of c up to its p-th were counted as t shows: by d each.
CountedTo(t, st, c, p, d) ==
  /\ OptionsHeld(t)
  /\ t.unsat = st.unsat /\ t.total = st.total
  /\ \A v \in Var : t.app[v] = st.app[v] + (IF v \in {VarSeq(c)[j] : j \in 1 .. p} THEN d ELSE 0)

LEMMA UnsatCounts ==
  ASSUME ClausesInv(clauses), NEW c \in ClauseId, NEW st, OptionsHeld(st),
         NEW w, OptionsHeld(UnsatStart(st, c, w)), UnsatStart(st, c, w).app = st.app
  PROVE  CountedTo(Unsat(st, c, w), UnsatStart(st, c, w), c, Len(clauses[c]), 1)
<1>. DEFINE n == Len(clauses[c])
            b == UnsatStart(st, c, w)
            Op(t, p) == CountedOnce(t, VarSeq(c)[p])
            IsF(f) == f = [p \in 0 .. n |-> IF p = 0 THEN b ELSE Op(f[p - 1], p)]
            X(p) == {VarSeq(c)[j] : j \in 1 .. p}
            G == [p \in 0 .. n |-> {t \in StackRecord : CountedTo(t, b, c, p, 1)}]
            F == [p \in 1 .. n |-> [t \in G[p - 1] |-> Op(t, p)]]
<1>1. n \in Nat
  BY ClauseFacts
<1>2. /\ DOMAIN VarSeq(c) = 1 .. n /\ \A p \in 1 .. n : VarSeq(c)[p] \in Var /\ VarSeq(c)[p] \in VarsOf(c)
      /\ \A p, q \in 1 .. n : VarSeq(c)[p] = VarSeq(c)[q] => p = q
  BY ClauseFacts DEF Distinct, ToSet
<1>3. b \in StackRecord /\ b.app \in [Var -> Int]
  BY DEF OptionsHeld, StackRecord
<1>. HIDE DEF n, b
<1>a. b \in G[0]
  <2>1. X(0) = {}
    OBVIOUS
  <2>2. CountedTo(b, b, c, 0, 1)
    BY <2>1, <1>3 DEF CountedTo, b
  <2>. QED BY <2>2, <1>1, <1>3
<1>b. ASSUME NEW p \in 1 .. n, NEW t \in G[p - 1] PROVE Op(t, p) \in G[p]
  <2>. DEFINE v == VarSeq(c)[p]
              u == Op(t, p)
  <2>1. CountedTo(t, b, c, p - 1, 1) /\ t \in StackRecord
    BY <1>1
  <2>2. v \in Var /\ v \notin X(p - 1) /\ X(p) = X(p - 1) \cup {v}
    BY <1>1, <1>2
  <2>3. OptionsHeld(t) /\ t.unsat = b.unsat /\ t.total = b.total /\ t.app \in [Var -> Int]
    BY <2>1 DEF CountedTo, StackRecord
  <2>4. \A y \in Var : t.app[y] = b.app[y] + (IF y \in X(p - 1) THEN 1 ELSE 0)
    BY <2>1 DEF CountedTo
  <2>. HIDE DEF X
  <2>5. /\ OptionsHeld(u) /\ u.unsat = t.unsat /\ u.total = t.total
        /\ u.app = [t.app EXCEPT ![v] = @ + 1]
    BY <2>2, <2>3, CountedOnceHeld
  <2>. HIDE DEF u, v
  <2>6. \A y \in Var : u.app[y] = b.app[y] + (IF y \in X(p) THEN 1 ELSE 0)
    <3>. SUFFICES ASSUME NEW y \in Var PROVE u.app[y] = b.app[y] + (IF y \in X(p) THEN 1 ELSE 0)
      OBVIOUS
    <3>1. b.app[y] \in Int /\ t.app[y] = b.app[y] + (IF y \in X(p - 1) THEN 1 ELSE 0)
      BY <1>3, <2>4
    <3>2. CASE y = v
      <4>1. u.app[y] = t.app[y] + 1
        BY <2>3, <2>5, <3>2, <3>1
      <4>. QED BY <4>1, <3>1, <3>2, <2>2
    <3>3. CASE y # v
      <4>1. u.app[y] = t.app[y]
        BY <2>3, <2>5, <3>3
      <4>2. y \in X(p) <=> y \in X(p - 1)
        BY <2>2, <3>3
      <4>. QED BY <4>1, <4>2, <3>1
    <3>. QED BY <3>2, <3>3
  <2>7. CountedTo(u, b, c, p, 1) /\ u \in StackRecord
    BY <2>3, <2>5, <2>6 DEF CountedTo, OptionsHeld, X
  <2>. QED BY <2>7, <1>1 DEF u
<1>. HIDE DEF Op, G
<1>4. \E f : IsF(f)
  <2>1. StepsIn(n, G, b, F)
    BY <1>a, <1>b DEF StepsIn
  <2>. HIDE DEF F
  <2>2. PICK f : RunsIn(n, G, b, F, f)
    BY <1>1, <2>1, Iteration
  <2>3. \A k \in 1 .. n : f[k - 1] \in G[k - 1]
    BY <2>2, <1>1 DEF RunsIn
  <2>4. \A k \in 1 .. n : F[k][f[k - 1]] = Op(f[k - 1], k)
    BY <2>3 DEF F
  <2>5. f = [k \in 0 .. n |-> IF k = 0 THEN b ELSE Op(f[k - 1], k)]
    BY <2>2, <2>4, <1>1 DEF RunsIn
  <2>. QED BY <2>5
<1>. DEFINE f == CHOOSE f : IsF(f)
<1>5. IsF(f)
  BY <1>4, Zenon
<1>6. Unsat(st, c, w) = f[n]
  BY Zenon DEF Unsat, UnsatStart, Op, n, b
<1>. HIDE DEF f
<1>7. f[0] = b /\ \A k \in 1 .. n : f[k] = Op(f[k - 1], k)
  BY <1>1, <1>5
<1>8. f[n] \in G[n]
  <2>. DEFINE T == {k \in 0 .. n : f[k] \in G[k]}
  <2>1. 0 \in T
    BY <1>1, <1>a, <1>7
  <2>2. ASSUME NEW k \in 1 .. n, k - 1 \in T PROVE k \in T
    BY <2>2, <1>b, <1>7
  <2>. HIDE DEF T
  <2>3. n \in T
    BY <1>1, <2>1, <2>2, UpTo
  <2>. QED BY <2>3 DEF T
<1>9. CountedTo(f[n], b, c, n, 1)
  BY <1>1, <1>8 DEF G
<1>. QED BY <1>6, <1>9 DEF b, n

LEMMA SatCounts ==
  ASSUME ClausesInv(clauses), NEW c \in ClauseId, NEW st, OptionsHeld(st), \A v \in VarsOf(c) : st.app[v] > 0,
         NEW w, OptionsHeld(SatStart(st, c, w)), SatStart(st, c, w).app = st.app
  PROVE  CountedTo(Sat(st, c, w), SatStart(st, c, w), c, Len(clauses[c]), (-1))
<1>. DEFINE n == Len(clauses[c])
            b == SatStart(st, c, w)
            Op(t, p) == CountedOff(t, VarSeq(c)[p])
            IsF(f) == f = [p \in 0 .. n |-> IF p = 0 THEN b ELSE Op(f[p - 1], p)]
            X(p) == {VarSeq(c)[j] : j \in 1 .. p}
            G == [p \in 0 .. n |-> {t \in StackRecord : CountedTo(t, b, c, p, (-1))}]
            F == [p \in 1 .. n |-> [t \in G[p - 1] |-> Op(t, p)]]
<1>1. n \in Nat
  BY ClauseFacts
<1>2. /\ DOMAIN VarSeq(c) = 1 .. n /\ \A p \in 1 .. n : VarSeq(c)[p] \in Var /\ VarSeq(c)[p] \in VarsOf(c)
      /\ \A p, q \in 1 .. n : VarSeq(c)[p] = VarSeq(c)[q] => p = q
  BY ClauseFacts DEF Distinct, ToSet
<1>3. b \in StackRecord /\ b.app \in [Var -> Int]
  BY DEF OptionsHeld, StackRecord
<1>. HIDE DEF n, b
<1>a. b \in G[0]
  <2>1. X(0) = {}
    OBVIOUS
  <2>2. CountedTo(b, b, c, 0, (-1))
    BY <2>1, <1>3 DEF CountedTo, b
  <2>. QED BY <2>2, <1>1, <1>3
<1>b. ASSUME NEW p \in 1 .. n, NEW t \in G[p - 1] PROVE Op(t, p) \in G[p]
  <2>. DEFINE v == VarSeq(c)[p]
              u == Op(t, p)
  <2>1. CountedTo(t, b, c, p - 1, (-1)) /\ t \in StackRecord
    BY <1>1
  <2>2. v \in Var /\ v \notin X(p - 1) /\ X(p) = X(p - 1) \cup {v}
    BY <1>1, <1>2
  <2>3. OptionsHeld(t) /\ t.unsat = b.unsat /\ t.total = b.total /\ t.app \in [Var -> Int]
    BY <2>1 DEF CountedTo, StackRecord
  <2>4. \A y \in Var : t.app[y] = b.app[y] + (IF y \in X(p - 1) THEN (-1) ELSE 0)
    BY <2>1 DEF CountedTo
  <2>. HIDE DEF X
  <2>5. /\ OptionsHeld(u) /\ u.unsat = t.unsat /\ u.total = t.total
        /\ u.app = [t.app EXCEPT ![v] = @ - 1]
    <3>1. t.app[v] > 0
      BY <2>2, <2>4, <1>2, <1>3 DEF b
    <3>. QED BY <3>1, <2>2, <2>3, CountedOffHeld
  <2>. HIDE DEF u, v
  <2>6. \A y \in Var : u.app[y] = b.app[y] + (IF y \in X(p) THEN (-1) ELSE 0)
    <3>. SUFFICES ASSUME NEW y \in Var PROVE u.app[y] = b.app[y] + (IF y \in X(p) THEN (-1) ELSE 0)
      OBVIOUS
    <3>1. b.app[y] \in Int /\ t.app[y] = b.app[y] + (IF y \in X(p - 1) THEN (-1) ELSE 0)
      BY <1>3, <2>4
    <3>2. CASE y = v
      <4>1. u.app[y] = t.app[y] + (-1)
        BY <2>3, <2>5, <3>2, <3>1
      <4>. QED BY <4>1, <3>1, <3>2, <2>2
    <3>3. CASE y # v
      <4>1. u.app[y] = t.app[y]
        BY <2>3, <2>5, <3>3
      <4>2. y \in X(p) <=> y \in X(p - 1)
        BY <2>2, <3>3
      <4>. QED BY <4>1, <4>2, <3>1
    <3>. QED BY <3>2, <3>3
  <2>7. CountedTo(u, b, c, p, (-1)) /\ u \in StackRecord
    BY <2>3, <2>5, <2>6 DEF CountedTo, OptionsHeld, X
  <2>. QED BY <2>7, <1>1 DEF u
<1>. HIDE DEF Op, G
<1>4. \E f : IsF(f)
  <2>1. StepsIn(n, G, b, F)
    BY <1>a, <1>b DEF StepsIn
  <2>. HIDE DEF F
  <2>2. PICK f : RunsIn(n, G, b, F, f)
    BY <1>1, <2>1, Iteration
  <2>3. \A k \in 1 .. n : f[k - 1] \in G[k - 1]
    BY <2>2, <1>1 DEF RunsIn
  <2>4. \A k \in 1 .. n : F[k][f[k - 1]] = Op(f[k - 1], k)
    BY <2>3 DEF F
  <2>5. f = [k \in 0 .. n |-> IF k = 0 THEN b ELSE Op(f[k - 1], k)]
    BY <2>2, <2>4, <1>1 DEF RunsIn
  <2>. QED BY <2>5
<1>. DEFINE f == CHOOSE f : IsF(f)
<1>5. IsF(f)
  BY <1>4, Zenon
<1>6. Sat(st, c, w) = f[n]
  BY Zenon DEF Sat, SatStart, Op, n, b
<1>. HIDE DEF f
<1>7. f[0] = b /\ \A k \in 1 .. n : f[k] = Op(f[k - 1], k)
  BY <1>1, <1>5
<1>8. f[n] \in G[n]
  <2>. DEFINE T == {k \in 0 .. n : f[k] \in G[k]}
  <2>1. 0 \in T
    BY <1>1, <1>a, <1>7
  <2>2. ASSUME NEW k \in 1 .. n, k - 1 \in T PROVE k \in T
    BY <2>2, <1>b, <1>7
  <2>. HIDE DEF T
  <2>3. n \in T
    BY <1>1, <2>1, <2>2, UpTo
  <2>. QED BY <2>3 DEF T
<1>9. CountedTo(f[n], b, c, n, (-1))
  BY <1>1, <1>8 DEF G
<1>. QED BY <1>6, <1>9 DEF b, n

LEMMA UnsatHeld ==
  ASSUME ClausesInv(clauses), NEW B \in SUBSET ClauseId, NEW w \in [ClauseId -> Int],
         NEW st, StacksHold(st, B, w), NEW c \in ClauseId, c \notin B
  PROVE  StacksHold(Unsat(st, c, w[c]), B \cup {c}, w)
<1>. DEFINE b == UnsatStart(st, c, w[c])
            t == Unsat(st, c, w[c])
            n == Len(clauses[c])
<1>1. /\ OptionsHeld(st) /\ st \in StackRecord /\ Holding(st.unsat, ClauseId, B)
      /\ Holding(st.var, Var, {v \in Var : st.app[v] > 0}) /\ \A v \in Var : st.app[v] \in Nat
      /\ \A v \in Var : st.app[v] = Cardinality(ClausesOf(v) \cap B)
      /\ st.total = SumOver(B, w)
  BY DEF StacksHold, OptionsHeld
<1>2. /\ ClauseId = 1 .. Len(clauses) /\ Len(clauses) \in Nat /\ c \in ClauseId /\ w[c] \in Int
      /\ VarsOf(c) \subseteq Var
  BY ClauseFacts
<1>3. Holding(Push(st.unsat, c), ClauseId, B \cup {c})
  BY <1>1, <1>2, HoldingPushed
<1>4. st.total \in Int /\ SumOver(B \cup {c}, w) = st.total + w[c]
  BY <1>1, <1>2, SumAdded
<1>5. b = [unsat |-> Push(st.unsat, c), var |-> st.var, app |-> st.app, total |-> st.total + w[c]]
  <2>1. st = [unsat |-> st.unsat, var |-> st.var, app |-> st.app, total |-> st.total]
    BY <1>1 DEF StackRecord
  <2>2. b = [st EXCEPT !.unsat = Push(st.unsat, c), !.total = st.total + w[c]]
    BY DEF UnsatStart
  <2>3. [st EXCEPT !.unsat = Push(st.unsat, c)]
          = [unsat |-> Push(st.unsat, c), var |-> st.var, app |-> st.app, total |-> st.total]
    BY <2>1
  <2>. QED BY <2>1, <2>2, <2>3
<1>6. /\ b.unsat = Push(st.unsat, c) /\ b.var = st.var /\ b.app = st.app
      /\ b.total = st.total + w[c]
  BY <1>5
<1>. HIDE DEF b
<1>7. OptionsHeld(b)
  <2>1. b \in StackRecord
    BY <1>1, <1>3, <1>4, <1>5 DEF StackRecord, Holding
  <2>. QED BY <2>1, <1>1, <1>6 DEF OptionsHeld
<1>8. CountedTo(t, b, c, n, 1)
  BY <1>1, <1>2, <1>6, <1>7, UnsatCounts DEF b
<1>9. {VarSeq(c)[j] : j \in 1 .. n} = VarsOf(c)
  <2>1. DOMAIN VarSeq(c) = 1 .. n /\ ToSet(VarSeq(c)) = VarsOf(c)
    BY <1>2, ClauseFacts
  <2>. QED BY <2>1 DEF ToSet
<1>. HIDE DEF t, n
<1>10. /\ OptionsHeld(t) /\ t.unsat = b.unsat /\ t.total = b.total
       /\ \A v \in Var : t.app[v] = b.app[v] + (IF v \in VarsOf(c) THEN 1 ELSE 0)
  BY <1>8, <1>9 DEF CountedTo
<1>11. \A v \in Var : t.app[v] = Cardinality(ClausesOf(v) \cap (B \cup {c}))
  <2>. SUFFICES ASSUME NEW v \in Var PROVE t.app[v] = Cardinality(ClausesOf(v) \cap (B \cup {c}))
    OBVIOUS
  <2>1. t.app[v] = Cardinality(ClausesOf(v) \cap B) + (IF v \in VarsOf(c) THEN 1 ELSE 0)
    BY <1>1, <1>6, <1>10
  <2>2. /\ Cardinality(ClausesOf(v) \cap B) \in Nat
        /\ Cardinality(ClausesOf(v) \cap (B \cup {c}))
             = Cardinality(ClausesOf(v) \cap B) + (IF v \in VarsOf(c) THEN 1 ELSE 0)
    BY <1>2, CountAdded, SMTT(30)
  <2>. QED BY <2>1, <2>2
<1>. QED BY <1>3, <1>4, <1>6, <1>10, <1>11 DEF StacksHold, t

LEMMA SatHeld ==
  ASSUME ClausesInv(clauses), NEW B \in SUBSET ClauseId, NEW w \in [ClauseId -> Int],
         NEW st, StacksHold(st, B, w), NEW c \in B
  PROVE  StacksHold(Sat(st, c, w[c]), B \ {c}, w)
<1>. DEFINE b == SatStart(st, c, w[c])
            t == Sat(st, c, w[c])
            n == Len(clauses[c])
<1>1. /\ OptionsHeld(st) /\ st \in StackRecord /\ Holding(st.unsat, ClauseId, B)
      /\ Holding(st.var, Var, {v \in Var : st.app[v] > 0}) /\ \A v \in Var : st.app[v] \in Nat
      /\ \A v \in Var : st.app[v] = Cardinality(ClausesOf(v) \cap B)
      /\ st.total = SumOver(B, w)
  BY DEF StacksHold, OptionsHeld
<1>2. /\ ClauseId = 1 .. Len(clauses) /\ Len(clauses) \in Nat /\ c \in ClauseId /\ w[c] \in Int
      /\ VarsOf(c) \subseteq Var
  BY ClauseFacts
<1>3. Holding(SwapPop(st.unsat, c), ClauseId, B \ {c})
  BY <1>1, <1>2, HoldingPopped
<1>4. st.total \in Int /\ SumOver(B \ {c}, w) = st.total - w[c]
  <2>1. w \in [1 .. Len(clauses) -> Int] /\ c \in 1 .. Len(clauses) /\ c \in B
    BY <1>2
  <2>. QED BY <2>1, <1>1, <1>2, SumRemoved, SMTT(30)
<1>5. b = [unsat |-> SwapPop(st.unsat, c), var |-> st.var, app |-> st.app, total |-> st.total - w[c]]
  <2>1. st = [unsat |-> st.unsat, var |-> st.var, app |-> st.app, total |-> st.total]
    BY <1>1 DEF StackRecord
  <2>2. b = [st EXCEPT !.unsat = SwapPop(st.unsat, c), !.total = st.total - w[c]]
    BY DEF SatStart
  <2>3. [st EXCEPT !.unsat = SwapPop(st.unsat, c)]
          = [unsat |-> SwapPop(st.unsat, c), var |-> st.var, app |-> st.app, total |-> st.total]
    BY <2>1
  <2>. QED BY <2>1, <2>2, <2>3
<1>6. /\ b.unsat = SwapPop(st.unsat, c) /\ b.var = st.var /\ b.app = st.app
      /\ b.total = st.total - w[c]
  BY <1>5
<1>. HIDE DEF b
<1>7. OptionsHeld(b)
  <2>1. b \in StackRecord
    BY <1>1, <1>3, <1>4, <1>5 DEF StackRecord, Holding
  <2>. QED BY <2>1, <1>1, <1>6 DEF OptionsHeld
<1>p. \A v \in VarsOf(c) : st.app[v] > 0
  <2>. SUFFICES ASSUME NEW v \in VarsOf(c) PROVE st.app[v] > 0
    OBVIOUS
  <2>1. v \in Var
    BY <1>2
  <2>2. Cardinality(ClausesOf(v) \cap (B \ {c})) \in Nat
        /\ Cardinality(ClausesOf(v) \cap (B \ {c})) = Cardinality(ClausesOf(v) \cap B) - 1
        /\ Cardinality(ClausesOf(v) \cap B) \in Nat
    BY <2>1, CountRemoved
  <2>. QED BY <2>1, <2>2, <1>1
<1>8. CountedTo(t, b, c, n, (-1))
  BY <1>1, <1>2, <1>6, <1>7, <1>p, SatCounts DEF b
<1>9. {VarSeq(c)[j] : j \in 1 .. n} = VarsOf(c)
  <2>1. DOMAIN VarSeq(c) = 1 .. n /\ ToSet(VarSeq(c)) = VarsOf(c)
    BY <1>2, ClauseFacts
  <2>. QED BY <2>1 DEF ToSet
<1>. HIDE DEF t, n
<1>10. /\ OptionsHeld(t) /\ t.unsat = b.unsat /\ t.total = b.total
       /\ \A v \in Var : t.app[v] = b.app[v] + (IF v \in VarsOf(c) THEN (-1) ELSE 0)
  BY <1>8, <1>9 DEF CountedTo
<1>11. \A v \in Var : t.app[v] = Cardinality(ClausesOf(v) \cap (B \ {c}))
  <2>. SUFFICES ASSUME NEW v \in Var PROVE t.app[v] = Cardinality(ClausesOf(v) \cap (B \ {c}))
    OBVIOUS
  <2>1. t.app[v] = Cardinality(ClausesOf(v) \cap B) + (IF v \in VarsOf(c) THEN (-1) ELSE 0)
    BY <1>1, <1>6, <1>10
  <2>2. /\ Cardinality(ClausesOf(v) \cap B) \in Nat
        /\ Cardinality(ClausesOf(v) \cap (B \ {c}))
             = Cardinality(ClausesOf(v) \cap B) - (IF v \in VarsOf(c) THEN 1 ELSE 0)
    BY <1>2, CountRemoved
  <2>. QED BY <2>1, <2>2
<1>. QED BY <1>3, <1>4, <1>6, <1>10, <1>11 DEF StacksHold, t

Ones == [c \in ClauseId |-> 1]

\* After init the stacks are those of the clauses without a true literal.
LEMMA InitStacksHeld ==
  ASSUME ClausesInv(clauses), NEW count \in [ClauseId -> Int]
  PROVE  StacksHold(InitStacks(count), {c \in ClauseId : count[c] = 0}, Ones)
<1>. DEFINE n == Len(clauses)
            b == [unsat |-> EmptyStack(ClauseId), var |-> EmptyStack(Var),
                  app |-> [v \in Var |-> 0], total |-> 0]
            B(k) == {c \in 1 .. k : count[c] = 0}
            Op(t, k) == IF count[k] = 0 THEN Unsat(t, k, 1) ELSE t
            IsF(f) == f = [k \in 0 .. n |-> IF k = 0 THEN b ELSE Op(f[k - 1], k)]
            G == [k \in 0 .. n |-> {t \in StackRecord : StacksHold(t, B(k), Ones)}]
            F == [k \in 1 .. n |-> [t \in G[k - 1] |-> Op(t, k)]]
<1>1. n \in Nat
  BY ClauseFacts
<1>2. ClauseId = 1 .. n
  BY ClauseFacts
<1>3. Ones \in [ClauseId -> Int] /\ \A c \in ClauseId : Ones[c] = 1
  BY DEF Ones
<1>. HIDE DEF n
<1>a. b \in G[0]
  <2>1. B(0) = {}
    OBVIOUS
  <2>2. Holding(b.unsat, ClauseId, {}) /\ Holding(b.var, Var, {})
    BY HoldingEmpty
  <2>3. b \in StackRecord
    BY <2>2 DEF StackRecord, Holding
  <2>4. {v \in Var : b.app[v] > 0} = {} /\ \A v \in Var : b.app[v] = 0
    OBVIOUS
  <2>5. OptionsHeld(b)
    BY <2>2, <2>3, <2>4 DEF OptionsHeld
  <2>6. SumOver({}, Ones) = 0
    <3>1. NothingAt(n, {}, Ones) /\ Ones \in [1 .. n -> Int]
      BY <1>2, <1>3 DEF NothingAt, At
    <3>. QED BY <3>1, <1>1, SumNothing
  <2>7. \A v \in Var : Cardinality(ClausesOf(v) \cap {}) = 0
    BY FS_EmptySet
  <2>8. b.total = 0
    OBVIOUS
  <2>9. StacksHold(b, {}, Ones)
    BY <2>2, <2>4, <2>5, <2>6, <2>7, <2>8 DEF StacksHold
  <2>. HIDE DEF b, B
  <2>. QED BY <2>1, <2>3, <2>9, <1>1
<1>b. ASSUME NEW k \in 1 .. n, NEW t \in G[k - 1] PROVE Op(t, k) \in G[k]
  <2>1. StacksHold(t, B(k - 1), Ones) /\ t \in StackRecord
    BY <1>1
  <2>2. CASE count[k] = 0
    <3>1. B(k) = B(k - 1) \cup {k} /\ k \notin B(k - 1) /\ B(k - 1) \in SUBSET ClauseId
      BY <1>1, <1>2, <2>2
    <3>. HIDE DEF B
    <3>2. StacksHold(Unsat(t, k, Ones[k]), B(k - 1) \cup {k}, Ones)
      BY <2>1, <3>1, <1>2, <1>3, UnsatHeld
    <3>3. StacksHold(Op(t, k), B(k), Ones)
      BY <3>1, <3>2, <2>2, <1>2, <1>3
    <3>4. Op(t, k) \in StackRecord
      BY <3>3 DEF StacksHold, OptionsHeld
    <3>. QED BY <3>3, <3>4, <1>1
  <2>3. CASE count[k] # 0
    <3>1. B(k) = B(k - 1)
      BY <1>1, <2>3
    <3>. HIDE DEF B
    <3>. QED BY <2>1, <2>3, <3>1, <1>1
  <2>. QED BY <2>2, <2>3
<1>. HIDE DEF b
<1>. HIDE DEF Op, G
<1>4. \E f : IsF(f)
  <2>1. StepsIn(n, G, b, F)
    BY <1>a, <1>b DEF StepsIn
  <2>. HIDE DEF F
  <2>2. PICK f : RunsIn(n, G, b, F, f)
    BY <1>1, <2>1, Iteration
  <2>3. \A k \in 1 .. n : f[k - 1] \in G[k - 1]
    BY <2>2, <1>1 DEF RunsIn
  <2>4. \A k \in 1 .. n : F[k][f[k - 1]] = Op(f[k - 1], k)
    BY <2>3 DEF F
  <2>5. f = [k \in 0 .. n |-> IF k = 0 THEN b ELSE Op(f[k - 1], k)]
    BY <2>2, <2>4, <1>1 DEF RunsIn
  <2>. QED BY <2>5
<1>. DEFINE f == CHOOSE f : IsF(f)
<1>5. IsF(f)
  BY <1>4, Zenon
<1>6. InitStacks(count) = f[n]
  BY Zenon DEF InitStacks, Op, n, b
<1>. HIDE DEF f
<1>7. f[0] = b /\ \A k \in 1 .. n : f[k] = Op(f[k - 1], k)
  BY <1>1, <1>5
<1>8. f[n] \in G[n]
  <2>. DEFINE T == {k \in 0 .. n : f[k] \in G[k]}
  <2>1. 0 \in T
    BY <1>1, <1>a, <1>7
  <2>2. ASSUME NEW k \in 1 .. n, k - 1 \in T PROVE k \in T
    BY <2>2, <1>b, <1>7
  <2>. HIDE DEF T
  <2>3. n \in T
    BY <1>1, <2>1, <2>2, UpTo
  <2>. QED BY <2>3 DEF T
<1>9. StacksHold(f[n], B(n), Ones)
  BY <1>1, <1>8 DEF G
<1>. QED BY <1>2, <1>6, <1>9

\* A flip takes the clauses Gone off the stacks and puts the clauses Came on.
Gone(soln, count) ==
  {c \in ClausesOf(flipvar) : flipvar \in TrueVars(soln, c) /\ count[c] = 1}
Came(soln, count) ==
  {c \in ClausesOf(flipvar) : flipvar \notin TrueVars(soln, c) /\ count[c] = 0}

LEMMA FlippedStacksHeld ==
  ASSUME ClausesInv(clauses), clause_weight \in [ClauseId -> Int], NEW B \in SUBSET ClauseId,
         StacksHold(Stacks, B, clause_weight), NEW soln, NEW count,
         Gone(soln, count) \subseteq B, Came(soln, count) \cap B = {}
  PROVE  StacksHold(FlippedStacks(soln, count),
                    (B \ Gone(soln, count)) \cup Came(soln, count), clause_weight)
<1>. DEFINE n == Len(clauses)
            Off == Gone(soln, count)
            On  == Came(soln, count)
            Now(k) == (B \ (Off \cap (1 .. k))) \cup (On \cap (1 .. k))
            Op(t, k) == IF k \in ClausesOf(flipvar) /\ flipvar \in TrueVars(soln, k) /\ count[k] = 1
                        THEN Sat(t, k, clause_weight[k])
                        ELSE IF k \in ClausesOf(flipvar) /\ flipvar \notin TrueVars(soln, k) /\ count[k] = 0
                        THEN Unsat(t, k, clause_weight[k])
                        ELSE t
            IsF(f) == f = [k \in 0 .. n |-> IF k = 0 THEN Stacks ELSE Op(f[k - 1], k)]
            G == [k \in 0 .. n |-> {t \in StackRecord : StacksHold(t, Now(k), clause_weight)}]
            F == [k \in 1 .. n |-> [t \in G[k - 1] |-> Op(t, k)]]
<1>1. n \in Nat
  BY ClauseFacts
<1>2. ClauseId = 1 .. n
  BY ClauseFacts
<1>3. Off \subseteq 1 .. n /\ On \subseteq 1 .. n /\ Off \subseteq B /\ On \cap B = {} /\ Off \cap On = {}
  BY <1>2 DEF Gone, Came, ClausesOf
<1>4. \A k \in 1 .. n :
        /\ (k \in ClausesOf(flipvar) /\ flipvar \in TrueVars(soln, k) /\ count[k] = 1) <=> k \in Off
        /\ (k \in ClausesOf(flipvar) /\ flipvar \notin TrueVars(soln, k) /\ count[k] = 0) <=> k \in On
  BY DEF Gone, Came
<1>. HIDE DEF n, Off, On
<1>a. Stacks \in G[0]
  <2>1. Now(0) = B
    OBVIOUS
  <2>2. StacksHold(Stacks, Now(0), clause_weight) /\ Stacks \in StackRecord
    BY <2>1 DEF StacksHold, OptionsHeld
  <2>. QED BY <2>2, <1>1
<1>b. ASSUME NEW k \in 1 .. n, NEW t \in G[k - 1] PROVE Op(t, k) \in G[k]
  <2>1. StacksHold(t, Now(k - 1), clause_weight) /\ t \in StackRecord
    BY <1>1
  <2>2. Now(k - 1) \in SUBSET ClauseId /\ k \in ClauseId
    BY <1>2, <1>3
  <2>3. StacksHold(Op(t, k), Now(k), clause_weight)
    <3>1. CASE k \in Off
      <4>1. Now(k) = Now(k - 1) \ {k} /\ k \in Now(k - 1)
        BY <1>1, <1>2, <1>3, <3>1
      <4>. HIDE DEF Now
      <4>2. StacksHold(Sat(t, k, clause_weight[k]), Now(k - 1) \ {k}, clause_weight)
        BY <2>1, <2>2, <4>1, SatHeld
      <4>3. Op(t, k) = Sat(t, k, clause_weight[k])
        BY <1>4, <3>1
      <4>. HIDE DEF Op
      <4>. QED BY <4>1, <4>2, <4>3
    <3>2. CASE k \in On
      <4>1. Now(k) = Now(k - 1) \cup {k} /\ k \notin Now(k - 1)
        BY <1>1, <1>2, <1>3, <3>2
      <4>. HIDE DEF Now
      <4>2. StacksHold(Unsat(t, k, clause_weight[k]), Now(k - 1) \cup {k}, clause_weight)
        BY <2>1, <2>2, <4>1, UnsatHeld
      <4>3. Op(t, k) = Unsat(t, k, clause_weight[k])
        BY <1>4, <3>2
      <4>. HIDE DEF Op
      <4>. QED BY <4>1, <4>2, <4>3
    <3>3. CASE k \notin Off /\ k \notin On
      <4>1. Now(k) = Now(k - 1)
        BY <1>1, <3>3
      <4>. HIDE DEF Now
      <4>2. Op(t, k) = t
        BY <1>4, <3>3
      <4>. HIDE DEF Op
      <4>. QED BY <4>1, <4>2, <2>1
    <3>. QED BY <3>1, <3>2, <3>3
  <2>4. Op(t, k) \in StackRecord
    BY <2>3 DEF StacksHold, OptionsHeld
  <2>. HIDE DEF Op, Now
  <2>. QED BY <2>3, <2>4, <1>1
<1>. HIDE DEF Op, G
<1>5. \E f : IsF(f)
  <2>1. StepsIn(n, G, Stacks, F)
    BY <1>a, <1>b DEF StepsIn
  <2>. HIDE DEF F
  <2>2. PICK f : RunsIn(n, G, Stacks, F, f)
    BY <1>1, <2>1, Iteration
  <2>3. \A k \in 1 .. n : f[k - 1] \in G[k - 1]
    BY <2>2, <1>1 DEF RunsIn
  <2>4. \A k \in 1 .. n : F[k][f[k - 1]] = Op(f[k - 1], k)
    BY <2>3 DEF F
  <2>5. f = [k \in 0 .. n |-> IF k = 0 THEN Stacks ELSE Op(f[k - 1], k)]
    BY <2>2, <2>4, <1>1 DEF RunsIn
  <2>. QED BY <2>5
<1>. DEFINE f == CHOOSE f : IsF(f)
<1>6. IsF(f)
  BY <1>5, Zenon
<1>7. FlippedStacks(soln, count) = f[n]
  BY Zenon DEF FlippedStacks, Op, n
<1>. HIDE DEF f
<1>8. f[0] = Stacks /\ \A k \in 1 .. n : f[k] = Op(f[k - 1], k)
  BY <1>1, <1>6
<1>9. f[n] \in G[n]
  <2>. DEFINE T == {k \in 0 .. n : f[k] \in G[k]}
  <2>1. 0 \in T
    BY <1>1, <1>a, <1>8
  <2>2. ASSUME NEW k \in 1 .. n, k - 1 \in T PROVE k \in T
    BY <2>2, <1>b, <1>8
  <2>. HIDE DEF T
  <2>3. n \in T
    BY <1>1, <2>1, <2>2, UpTo
  <2>. QED BY <2>3 DEF T
<1>10. StacksHold(f[n], Now(n), clause_weight)
  BY <1>1, <1>9 DEF G
<1>11. Now(n) = (B \ Off) \cup On
  BY <1>3
<1>. QED BY <1>7, <1>10, <1>11 DEF Off, On

-----------------------------------------------------------------------------
(* The options that make a clause true *)

\* A sequence without repetition is as long as its items are many.
LEMMA DistinctLength ==
  ASSUME NEW X, NEW s \in Seq(X), Distinct(s)
  PROVE  IsFiniteSet(ToSet(s)) /\ Cardinality(ToSet(s)) = Len(s)
<1>. DEFINE n == Len(s)
            f == [k \in 1 .. n |-> s[k]]
<1>1. n \in Nat /\ DOMAIN s = 1 .. n
  OBVIOUS
<1>. HIDE DEF n
<1>2. f \in Bijection(1 .. n, ToSet(s))
  <2>1. f \in [1 .. n -> ToSet(s)]
    BY <1>1 DEF ToSet
  <2>2. \A j, k \in 1 .. n : f[j] = f[k] => j = k
    BY <1>1 DEF Distinct
  <2>3. \A x \in ToSet(s) : \E k \in 1 .. n : f[k] = x
    BY <1>1 DEF ToSet
  <2>. QED BY <2>1, <2>2, <2>3 DEF Bijection, Injection, Surjection, IsInjective
<1>3. ExistsBijection(1 .. n, ToSet(s))
  BY <1>2 DEF ExistsBijection
<1>. QED BY <1>1, <1>3, FS_CountingElements, FS_NatBijection DEF n

LEMMA TrueFacts ==
  ASSUME ClausesInv(clauses), NEW s, NEW c \in ClauseId
  PROVE  /\ TrueVars(s, c) \subseteq VarsOf(c) /\ TrueVars(s, c) \subseteq Var
         /\ IsFiniteSet(TrueVars(s, c)) /\ Cardinality(TrueVars(s, c)) \in Nat
         /\ Cardinality(TrueVars(s, c)) = 0 <=> TrueVars(s, c) = {}
         /\ TrueSeq(s, c) \in Seq(Var) /\ Distinct(TrueSeq(s, c))
         /\ ToSet(TrueSeq(s, c)) = TrueVars(s, c)
         /\ Len(TrueSeq(s, c)) = Cardinality(TrueVars(s, c))
<1>1. TrueVars(s, c) \subseteq VarsOf(c)
  BY DEF TrueVars, VarsOf
<1>2. /\ VarsOf(c) \subseteq Var /\ VarSeq(c) \in Seq(Var) /\ Distinct(VarSeq(c))
      /\ ToSet(VarSeq(c)) = VarsOf(c)
  BY ClauseFacts
<1>3. /\ TrueSeq(s, c) \in Seq(Var) /\ Distinct(TrueSeq(s, c))
      /\ ToSet(TrueSeq(s, c)) = TrueVars(s, c)
  <2>1. /\ Filtered(VarSeq(c), TrueVars(s, c)) \in Seq(Var)
        /\ ToSet(Filtered(VarSeq(c), TrueVars(s, c))) = VarsOf(c) \cap TrueVars(s, c)
        /\ Distinct(Filtered(VarSeq(c), TrueVars(s, c)))
    BY <1>2, FilteredItems
  <2>2. VarsOf(c) \cap TrueVars(s, c) = TrueVars(s, c)
    BY <1>1
  <2>. QED BY <2>1, <2>2 DEF TrueSeq
<1>4. IsFiniteSet(TrueVars(s, c)) /\ Len(TrueSeq(s, c)) = Cardinality(TrueVars(s, c))
  BY <1>3, DistinctLength
<1>. QED BY <1>1, <1>2, <1>3, <1>4, FS_CardinalityType, FS_EmptySet

FlippedAt(s, v, t) == t = [s EXCEPT ![v] = 1 - @]

\* Which options make c true, after option v was flipped.
LEMMA FlipTrue ==
  ASSUME ClausesInv(clauses), NEW s \in TestCase, NEW v \in Var, NEW c \in ClauseId,
         NEW t, FlippedAt(s, v, t)
  PROVE  /\ t \in TestCase
         /\ v \notin VarsOf(c) => TrueVars(t, c) = TrueVars(s, c)
         /\ v \in VarsOf(c) /\ v \in TrueVars(s, c) => TrueVars(t, c) = TrueVars(s, c) \ {v}
         /\ v \in VarsOf(c) /\ v \notin TrueVars(s, c) => TrueVars(t, c) = TrueVars(s, c) \cup {v}
<1>. DEFINE D == DOMAIN clauses[c]
            lit(p) == clauses[c][p]
<1>1. t \in TestCase /\ t[v] = 1 - s[v] /\ \A u \in Var : u # v => t[u] = s[u]
  BY DEF TestCase, Bit, FlippedAt
<1>2. \A p \in D : lit(p) \in Literal /\ LitVar(lit(p)) \in Var
  BY ClauseFacts, LiteralFacts
<1>3. \A p, q \in D : LitVar(lit(p)) = LitVar(lit(q)) => p = q
  BY DEF ClausesInv, ClauseId
<1>4. s[v] \in Bit /\ \A l \in Literal : LitValue(l) \in Bit
  BY DEF TestCase, LitValue, Bit
<1>5. \A p \in D : LitVar(lit(p)) # v => (Holds(t, lit(p)) <=> Holds(s, lit(p)))
  BY <1>1, <1>2 DEF Holds
<1>6. \A p \in D : LitVar(lit(p)) = v => (Holds(t, lit(p)) <=> ~Holds(s, lit(p)))
  BY <1>1, <1>2, <1>4 DEF Holds, Bit
<1>7. \A x, u : u \in TrueVars(x, c) <=> \E p \in D : LitVar(lit(p)) = u /\ Holds(x, lit(p))
  BY DEF TrueVars
<1>8. v \in VarsOf(c) <=> \E p \in D : LitVar(lit(p)) = v
  BY DEF VarsOf
<1>. HIDE DEF lit, D
<1>9. \A u : u # v => (u \in TrueVars(t, c) <=> u \in TrueVars(s, c))
  BY <1>5, <1>7
<1>10. v \in VarsOf(c) => (v \in TrueVars(t, c) <=> v \notin TrueVars(s, c))
  <2>. SUFFICES ASSUME NEW p \in D, LitVar(lit(p)) = v
                PROVE  v \in TrueVars(t, c) <=> v \notin TrueVars(s, c)
    BY <1>8
  <2>1. \A q \in D : LitVar(lit(q)) = v => q = p
    BY <1>3
  <2>2. v \in TrueVars(t, c) <=> Holds(t, lit(p))
    BY <1>7, <2>1
  <2>3. v \in TrueVars(s, c) <=> Holds(s, lit(p))
    BY <1>7, <2>1
  <2>. QED BY <2>2, <2>3, <1>6
<1>11. v \notin VarsOf(c) => v \notin TrueVars(t, c) /\ v \notin TrueVars(s, c)
  BY <1>7, <1>8
<1>12. v \notin VarsOf(c) => TrueVars(t, c) = TrueVars(s, c)
  <2>1. v \notin VarsOf(c) => \A u : u \in TrueVars(t, c) <=> u \in TrueVars(s, c)
    BY <1>9, <1>11
  <2>. QED BY <2>1
<1>13. v \in VarsOf(c) /\ v \in TrueVars(s, c) => TrueVars(t, c) = TrueVars(s, c) \ {v}
  BY <1>9, <1>10
<1>14. v \in VarsOf(c) /\ v \notin TrueVars(s, c) => TrueVars(t, c) = TrueVars(s, c) \cup {v}
  BY <1>9, <1>10
<1>. QED BY <1>1, <1>12, <1>13, <1>14

\* The same for the numbers of true literals.
LEMMA FlipCount ==
  ASSUME ClausesInv(clauses), NEW s \in TestCase, NEW v \in Var, NEW c \in ClauseId,
         NEW t, FlippedAt(s, v, t)
  PROVE  /\ t \in TestCase
         /\ v \notin VarsOf(c) => /\ TrueVars(t, c) = TrueVars(s, c)
                                  /\ v \notin TrueVars(t, c)
         /\ v \in VarsOf(c) /\ v \in TrueVars(t, c) =>
              /\ v \notin TrueVars(s, c) /\ TrueVars(t, c) = TrueVars(s, c) \cup {v}
              /\ Cardinality(TrueVars(t, c)) = Cardinality(TrueVars(s, c)) + 1
         /\ v \in VarsOf(c) /\ v \notin TrueVars(t, c) =>
              /\ v \in TrueVars(s, c) /\ TrueVars(t, c) = TrueVars(s, c) \ {v}
              /\ Cardinality(TrueVars(t, c)) = Cardinality(TrueVars(s, c)) - 1
<1>1. /\ t \in TestCase
      /\ v \notin VarsOf(c) => TrueVars(t, c) = TrueVars(s, c)
      /\ v \in VarsOf(c) /\ v \in TrueVars(s, c) => TrueVars(t, c) = TrueVars(s, c) \ {v}
      /\ v \in VarsOf(c) /\ v \notin TrueVars(s, c) => TrueVars(t, c) = TrueVars(s, c) \cup {v}
  BY FlipTrue
<1>2. TrueVars(s, c) \subseteq VarsOf(c) /\ IsFiniteSet(TrueVars(s, c))
  BY TrueFacts
<1>3. v \notin TrueVars(s, c) => Cardinality(TrueVars(s, c) \cup {v}) = Cardinality(TrueVars(s, c)) + 1
  BY <1>2, FS_AddElement
<1>4. v \in TrueVars(s, c) => Cardinality(TrueVars(s, c) \ {v}) = Cardinality(TrueVars(s, c)) - 1
  BY <1>2, FS_RemoveElement
<1>. QED BY <1>1, <1>2, <1>3, <1>4

-----------------------------------------------------------------------------
(* Counts of true literals *)

\* For the assignment s.
CountsHold(s, count, sole) ==
  \A c \in ClauseId : /\ count[c] = Cardinality(TrueVars(s, c))
                      /\ count[c] = 1 => TrueVars(s, c) = {sole[c]}

\* count and sole after a flip of v that leads to t, as flip computes them.
CountsFlipped(t, v, count, sole, count2, sole2) ==
  /\ count2 = [c \in ClauseId |->
                 IF c \notin ClausesOf(v) THEN count[c]
                 ELSE IF v \in TrueVars(t, c) THEN count[c] + 1 ELSE count[c] - 1]
  /\ sole2 = [c \in ClauseId |->
                IF c \notin ClausesOf(v) \/ count2[c] # 1 THEN sole[c]
                ELSE IF v \in TrueVars(t, c) THEN v ELSE SoleVar(t, c)]

LEMMA SoleTrue ==
  ASSUME ClausesInv(clauses), NEW s, NEW c \in ClauseId, Cardinality(TrueVars(s, c)) = 1
  PROVE  /\ TrueVars(s, c) = {SoleVar(s, c)} /\ SoleVar(s, c) \in Var
         /\ Last(TrueSeq(s, c)) = SoleVar(s, c)
<1>1. /\ TrueSeq(s, c) \in Seq(Var) /\ Len(TrueSeq(s, c)) = 1
      /\ ToSet(TrueSeq(s, c)) = TrueVars(s, c)
  BY TrueFacts
<1>2. TrueVars(s, c) = {TrueSeq(s, c)[1]}
  BY <1>1 DEF ToSet
<1>3. Last(TrueSeq(s, c)) = TrueSeq(s, c)[1] /\ TrueSeq(s, c)[1] \in Var
  <2>. DEFINE q == TrueSeq(s, c)
  <2>1. q \in Seq(Var) /\ Len(q) = 1 /\ Last(q) = q[Len(q)]
    BY <1>1 DEF Last
  <2>. HIDE DEF q
  <2>2. Last(q) = q[1] /\ q[1] \in Var
    BY <2>1
  <2>. QED BY <2>2 DEF q
<1>. QED BY <1>2, <1>3 DEF SoleVar

LEMMA FlippedCountsHold ==
  ASSUME ClausesInv(clauses), NEW s \in TestCase, NEW v \in Var, NEW t, FlippedAt(s, v, t),
         NEW count, NEW sole, CountsHold(s, count, sole),
         NEW count2, NEW sole2, CountsFlipped(t, v, count, sole, count2, sole2)
  PROVE  CountsHold(t, count2, sole2)
<1>. SUFFICES ASSUME NEW c \in ClauseId
              PROVE  /\ count2[c] = Cardinality(TrueVars(t, c))
                     /\ count2[c] = 1 => TrueVars(t, c) = {sole2[c]}
  BY DEF CountsHold
<1>1. count[c] = Cardinality(TrueVars(s, c)) /\ (count[c] = 1 => TrueVars(s, c) = {sole[c]})
  BY DEF CountsHold
<1>2. count2[c] = IF c \notin ClausesOf(v) THEN count[c]
                  ELSE IF v \in TrueVars(t, c) THEN count[c] + 1 ELSE count[c] - 1
  BY DEF CountsFlipped
<1>3. sole2[c] = IF c \notin ClausesOf(v) \/ count2[c] # 1 THEN sole[c]
                 ELSE IF v \in TrueVars(t, c) THEN v ELSE SoleVar(t, c)
  BY DEF CountsFlipped
<1>4. v \in VarsOf(c) <=> c \in ClausesOf(v)
  BY DEF ClausesOf
<1>5. CASE v \notin VarsOf(c)
  <2>1. TrueVars(t, c) = TrueVars(s, c)
    BY <1>5, FlipCount
  <2>. QED BY <2>1, <1>1, <1>2, <1>3, <1>4, <1>5
<1>6. CASE v \in VarsOf(c) /\ v \in TrueVars(t, c)
  <2>1. Cardinality(TrueVars(t, c)) = Cardinality(TrueVars(s, c)) + 1
    BY <1>6, FlipCount
  <2>2. count2[c] = Cardinality(TrueVars(t, c))
    BY <2>1, <1>1, <1>2, <1>4, <1>6
  <2>3. ASSUME count2[c] = 1 PROVE TrueVars(t, c) = {sole2[c]}
    <3>1. TrueVars(t, c) = {SoleVar(t, c)}
      BY <2>2, <2>3, SoleTrue
    <3>2. sole2[c] = v
      BY <1>3, <1>4, <1>6, <2>3
    <3>. QED BY <3>1, <3>2, <1>6
  <2>. QED BY <2>2, <2>3
<1>7. CASE v \in VarsOf(c) /\ v \notin TrueVars(t, c)
  <2>1. Cardinality(TrueVars(t, c)) = Cardinality(TrueVars(s, c)) - 1
    BY <1>7, FlipCount
  <2>2. count2[c] = Cardinality(TrueVars(t, c))
    BY <2>1, <1>1, <1>2, <1>4, <1>7
  <2>3. ASSUME count2[c] = 1 PROVE TrueVars(t, c) = {sole2[c]}
    <3>1. TrueVars(t, c) = {SoleVar(t, c)}
      BY <2>2, <2>3, SoleTrue
    <3>2. sole2[c] = SoleVar(t, c)
      BY <1>3, <1>4, <1>7, <2>3
    <3>. QED BY <3>1, <3>2
  <2>. QED BY <2>2, <2>3
<1>. QED BY <1>5, <1>6, <1>7

\* The clauses that turn true and false are those flip takes off and puts on.
LEMMA FlippedFalse ==
  ASSUME ClausesInv(clauses), NEW s \in TestCase, flipvar \in Var,
         NEW t, FlippedAt(s, flipvar, t),
         NEW count, \A c \in ClauseId : count[c] = Cardinality(TrueVars(t, c))
  PROVE  /\ Gone(t, count) \subseteq FalseClauses(s) /\ Came(t, count) \cap FalseClauses(s) = {}
         /\ (FalseClauses(s) \ Gone(t, count)) \cup Came(t, count) = FalseClauses(t)
<1>. DEFINE Lost == Gone(t, count)
            Won  == Came(t, count)
<1>1. ASSUME NEW c \in ClauseId
      PROVE  /\ c \in Lost => c \in FalseClauses(s)
             /\ c \in Won => c \notin FalseClauses(s)
             /\ (c \in FalseClauses(s) /\ c \notin Lost) \/ c \in Won <=> c \in FalseClauses(t)
  <2>1. /\ c \in FalseClauses(s) <=> TrueVars(s, c) = {}
        /\ c \in FalseClauses(t) <=> TrueVars(t, c) = {}
        /\ flipvar \in VarsOf(c) <=> c \in ClausesOf(flipvar)
    BY DEF FalseClauses, ClausesOf
  <2>2. /\ c \in Lost <=> c \in ClausesOf(flipvar) /\ flipvar \in TrueVars(t, c) /\ count[c] = 1
        /\ c \in Won <=> c \in ClausesOf(flipvar) /\ flipvar \notin TrueVars(t, c) /\ count[c] = 0
    BY DEF Gone, Came
  <2>. HIDE DEF Lost, Won
  <2>3. /\ count[c] = Cardinality(TrueVars(t, c)) /\ Cardinality(TrueVars(t, c)) \in Nat
        /\ Cardinality(TrueVars(t, c)) = 0 <=> TrueVars(t, c) = {}
        /\ Cardinality(TrueVars(s, c)) = 0 <=> TrueVars(s, c) = {}
        /\ Cardinality(TrueVars(s, c)) \in Nat
    BY TrueFacts
  <2>4. CASE flipvar \notin VarsOf(c)
    BY <2>1, <2>2, <2>4, FlipCount
  <2>5. CASE flipvar \in VarsOf(c) /\ flipvar \in TrueVars(t, c)
    <3>1. Cardinality(TrueVars(t, c)) = Cardinality(TrueVars(s, c)) + 1
      BY <2>5, FlipCount
    <3>. QED BY <3>1, <2>1, <2>2, <2>3, <2>5
  <2>6. CASE flipvar \in VarsOf(c) /\ flipvar \notin TrueVars(t, c)
    <3>1. Cardinality(TrueVars(t, c)) = Cardinality(TrueVars(s, c)) - 1
      BY <2>6, FlipCount
    <3>. QED BY <3>1, <2>1, <2>2, <2>3, <2>6
  <2>. QED BY <2>4, <2>5, <2>6
<1>2. Lost \subseteq ClauseId /\ Won \subseteq ClauseId /\ FalseClauses(t) \subseteq ClauseId
      /\ FalseClauses(s) \subseteq ClauseId
  BY DEF Gone, Came, ClausesOf, FalseClauses
<1>. HIDE DEF Lost, Won
<1>3. Lost \subseteq FalseClauses(s)
  BY <1>1, <1>2
<1>4. Won \cap FalseClauses(s) = {}
  BY <1>1, <1>2
<1>5. (FalseClauses(s) \ Lost) \cup Won = FalseClauses(t)
  BY <1>1, <1>2, <1>4
<1>. QED BY <1>3, <1>4, <1>5 DEF Lost, Won

-----------------------------------------------------------------------------
(* What the flip of flipvar did to its clauses *)

\* The state between flip and update; s is the assignment before the flip.
FlippedFrom(s) ==
  /\ s \in TestCase /\ flipvar \in Var /\ FlippedAt(s, flipvar, cur_soln)
  /\ CountsHold(cur_soln, sat_count, sat_var)
  /\ \A c \in ClausesOf(flipvar) :
       NowTrue(c) /\ sat_count[c] = 2 => TrueVars(s, c) = {sat_var[c]}

\* Clause c of flipvar gained a true literal, and how many it has now.
Won1(s, c) == TrueVars(s, c) = {} /\ TrueVars(cur_soln, c) = {flipvar} /\ sat_var[c] = flipvar
Won2(s, c) == /\ TrueVars(s, c) = {sat_var[c]} /\ TrueVars(cur_soln, c) = {sat_var[c], flipvar}
              /\ sat_var[c] # flipvar
\* It lost one.
Lost0(s, c) == TrueVars(s, c) = {flipvar} /\ TrueVars(cur_soln, c) = {}
Lost1(s, c) == /\ TrueVars(s, c) = {sat_var[c], flipvar} /\ TrueVars(cur_soln, c) = {sat_var[c]}
               /\ sat_var[c] # flipvar
Several(T) == T # {} /\ \A x : T # {x}

LEMMA SeveralTrue ==
  ASSUME NEW T, IsFiniteSet(T), Cardinality(T) >= 2
  PROVE  Several(T)
BY FS_EmptySet, FS_Singleton DEF Several

LEMMA FlipCases ==
  ASSUME ClausesInv(clauses), NEW s, FlippedFrom(s), NEW c \in ClausesOf(flipvar)
  PROVE  /\ sat_count[c] \in Nat /\ c \in ClauseId /\ flipvar \in VarsOf(c)
         /\ TrueVars(s, c) \subseteq VarsOf(c) /\ TrueVars(cur_soln, c) \subseteq VarsOf(c)
         /\ sat_count[c] = Cardinality(TrueVars(cur_soln, c))
         /\ NowTrue(c) => /\ sat_count[c] # 0
                          /\ Cardinality(TrueVars(s, c)) = sat_count[c] - 1
                          /\ TrueVars(cur_soln, c) = TrueVars(s, c) \cup {flipvar}
                          /\ flipvar \notin TrueVars(s, c)
                          /\ sat_count[c] = 1 => Won1(s, c)
                          /\ sat_count[c] = 2 => Won2(s, c)
                          /\ sat_count[c] > 2 => Several(TrueVars(s, c))
                          /\ sat_count[c] > 1 => Several(TrueVars(cur_soln, c))
         /\ ~NowTrue(c) => /\ Cardinality(TrueVars(s, c)) = sat_count[c] + 1
                           /\ TrueVars(s, c) = TrueVars(cur_soln, c) \cup {flipvar}
                           /\ flipvar \notin TrueVars(cur_soln, c)
                           /\ sat_count[c] = 0 => Lost0(s, c)
                           /\ sat_count[c] = 1 => Lost1(s, c)
                           /\ sat_count[c] > 1 => Several(TrueVars(cur_soln, c))
                           /\ sat_count[c] > 0 => Several(TrueVars(s, c))
<1>. DEFINE S == TrueVars(s, c)
            T == TrueVars(cur_soln, c)
<1>1. /\ s \in TestCase /\ flipvar \in Var /\ FlippedAt(s, flipvar, cur_soln)
      /\ CountsHold(cur_soln, sat_count, sat_var)
      /\ NowTrue(c) /\ sat_count[c] = 2 => S = {sat_var[c]}
  BY DEF FlippedFrom
<1>2. c \in ClauseId /\ flipvar \in VarsOf(c)
  BY DEF ClausesOf
<1>3. sat_count[c] = Cardinality(T) /\ (sat_count[c] = 1 => T = {sat_var[c]})
  BY <1>1, <1>2 DEF CountsHold
<1>4. /\ S \subseteq VarsOf(c) /\ T \subseteq VarsOf(c)
      /\ IsFiniteSet(S) /\ Cardinality(S) \in Nat /\ (Cardinality(S) = 0 <=> S = {})
      /\ IsFiniteSet(T) /\ Cardinality(T) \in Nat /\ (Cardinality(T) = 0 <=> T = {})
  BY <1>2, TrueFacts
<1>5. NowTrue(c) <=> flipvar \in T
  BY DEF NowTrue
<1>6. flipvar \in T => /\ flipvar \notin S /\ T = S \cup {flipvar}
                       /\ Cardinality(T) = Cardinality(S) + 1
  BY <1>1, <1>2, FlipCount
<1>7. flipvar \notin T => /\ flipvar \in S /\ T = S \ {flipvar}
                          /\ Cardinality(T) = Cardinality(S) - 1
  BY <1>1, <1>2, FlipCount
<1>. HIDE DEF S, T
<1>8. (Cardinality(S) >= 2 => Several(S)) /\ (Cardinality(T) >= 2 => Several(T))
  BY <1>4, SeveralTrue
<1>9. ASSUME NowTrue(c)
      PROVE  /\ sat_count[c] # 0
             /\ Cardinality(S) = sat_count[c] - 1 /\ T = S \cup {flipvar} /\ flipvar \notin S
             /\ sat_count[c] = 1 => S = {} /\ T = {flipvar} /\ sat_var[c] = flipvar
             /\ sat_count[c] = 2 => /\ S = {sat_var[c]} /\ T = {sat_var[c], flipvar}
                                    /\ sat_var[c] # flipvar
             /\ sat_count[c] > 2 => Several(S)
             /\ sat_count[c] > 1 => Several(T)
  <2>1. flipvar \in T /\ flipvar \notin S /\ T = S \cup {flipvar} /\ sat_count[c] = Cardinality(S) + 1
    BY <1>3, <1>5, <1>6, <1>9
  <2>2. sat_count[c] = 1 => S = {} /\ T = {flipvar} /\ sat_var[c] = flipvar
    BY <2>1, <1>3, <1>4
  <2>3. sat_count[c] = 2 => S = {sat_var[c]} /\ T = {sat_var[c], flipvar} /\ sat_var[c] # flipvar
    BY <2>1, <1>1, <1>9
  <2>. QED BY <2>1, <2>2, <2>3, <1>3, <1>4, <1>8
<1>10. ASSUME ~NowTrue(c)
       PROVE  /\ Cardinality(S) = sat_count[c] + 1 /\ S = T \cup {flipvar} /\ flipvar \notin T
              /\ sat_count[c] = 0 => S = {flipvar} /\ T = {}
              /\ sat_count[c] = 1 => /\ S = {sat_var[c], flipvar} /\ T = {sat_var[c]}
                                     /\ sat_var[c] # flipvar
              /\ sat_count[c] > 1 => Several(T)
              /\ sat_count[c] > 0 => Several(S)
  <2>1. flipvar \notin T /\ S = T \cup {flipvar} /\ sat_count[c] = Cardinality(S) - 1
    BY <1>3, <1>5, <1>7, <1>10
  <2>2. sat_count[c] = 0 => S = {flipvar} /\ T = {}
    BY <2>1, <1>3, <1>4
  <2>3. sat_count[c] = 1 => S = {sat_var[c], flipvar} /\ T = {sat_var[c]} /\ sat_var[c] # flipvar
    BY <2>1, <1>3
  <2>. QED BY <2>1, <2>2, <2>3, <1>3, <1>4, <1>8
<1>. QED BY <1>2, <1>3, <1>4, <1>9, <1>10 DEF Won1, Won2, Lost0, Lost1, S, T

-----------------------------------------------------------------------------
(* Gains *)

\* What flipping v takes off the false weight, clause by clause.
GainAt(s, w, v) ==
  [c \in ClauseId |-> IF TrueVars(s, c) = {} THEN (IF v \in VarsOf(c) THEN w[c] ELSE 0)
                      ELSE IF TrueVars(s, c) = {v} THEN -w[c] ELSE 0]

GainsHold(g, s, w) ==
  g \in [Var -> Int] /\ \A v \in Var : g[v] = SumOver(ClauseId, GainAt(s, w, v))

LEMMA GainTypes ==
  ASSUME NEW s, NEW w \in [ClauseId -> Int], NEW v
  PROVE  GainAt(s, w, v) \in [ClauseId -> Int]
BY DEF GainAt

LEMMA GainExact ==
  ASSUME ClausesInv(clauses), NEW s \in TestCase, NEW w \in [ClauseId -> Int],
         NEW v \in Var, NEW t, FlippedAt(s, v, t)
  PROVE  SumOver(ClauseId, GainAt(s, w, v)) = SumOver(FalseClauses(s), w) - SumOver(FalseClauses(t), w)
<1>. DEFINE n == Len(clauses)
            g == GainAt(s, w, v)
<1>1. n \in Nat /\ ClauseId = 1 .. n
  BY ClauseFacts
<1>2. g \in [1 .. n -> Int] /\ w \in [1 .. n -> Int]
  BY <1>1, GainTypes
<1>3. ASSUME NEW c \in 1 .. n
      PROVE  At(FalseClauses(s), w, c) = At(ClauseId, g, c) + At(FalseClauses(t), w, c)
  <2>1. w[c] \in Int /\ c \in ClauseId
    BY <1>1, <1>2
  <2>2. At(ClauseId, g, c) = IF TrueVars(s, c) = {} THEN (IF v \in VarsOf(c) THEN w[c] ELSE 0)
                             ELSE IF TrueVars(s, c) = {v} THEN -w[c] ELSE 0
    BY <2>1 DEF At, GainAt
  <2>3. At(FalseClauses(s), w, c) = IF TrueVars(s, c) = {} THEN w[c] ELSE 0
    BY <2>1 DEF At, FalseClauses
  <2>4. At(FalseClauses(t), w, c) = IF TrueVars(t, c) = {} THEN w[c] ELSE 0
    BY <2>1 DEF At, FalseClauses
  <2>5. TrueVars(s, c) \subseteq VarsOf(c)
    BY <2>1, TrueFacts
  <2>. HIDE DEF g
  <2>6. CASE v \notin VarsOf(c)
    <3>1. TrueVars(t, c) = TrueVars(s, c)
      BY <2>1, <2>6, FlipCount
    <3>2. TrueVars(s, c) # {v}
      BY <2>5, <2>6
    <3>. QED BY <3>1, <3>2, <2>1, <2>2, <2>3, <2>4, <2>6
  <2>7. CASE v \in VarsOf(c) /\ v \in TrueVars(t, c)
    <3>1. v \notin TrueVars(s, c)
      BY <2>1, <2>7, FlipCount
    <3>2. TrueVars(s, c) # {v} /\ TrueVars(t, c) # {}
      BY <3>1, <2>7
    <3>. QED BY <3>2, <2>1, <2>2, <2>3, <2>4, <2>7
  <2>8. CASE v \in VarsOf(c) /\ v \notin TrueVars(t, c)
    <3>1. v \in TrueVars(s, c) /\ TrueVars(t, c) = TrueVars(s, c) \ {v}
      BY <2>1, <2>8, FlipCount
    <3>2. TrueVars(s, c) # {} /\ (TrueVars(s, c) = {v} <=> TrueVars(t, c) = {})
      BY <3>1
    <3>. QED BY <3>2, <2>1, <2>2, <2>3, <2>4
  <2>. QED BY <2>6, <2>7, <2>8
<1>. HIDE DEF g, n
<1>4. AddsUp(n, FalseClauses(s), w, ClauseId, g, FalseClauses(t), w)
  BY <1>2, <1>3 DEF AddsUp
<1>5. SumOver(FalseClauses(s), w) = SumOver(ClauseId, g) + SumOver(FalseClauses(t), w)
  BY <1>1, <1>4, SumLinear
<1>6. SumOver(ClauseId, g) \in Int /\ SumOver(FalseClauses(t), w) \in Int
  BY <1>1, <1>2, SumSteps
<1>. QED BY <1>5, <1>6 DEF g

\* init_score
LEMMA InitGains ==
  ASSUME ClausesInv(clauses), NEW s, NEW w \in [ClauseId -> Int],
         NEW count, NEW sole, CountsHold(s, count, sole)
  PROVE  GainsHold([v \in Var |-> ScoreOf(v, s, count, w)], s, w)
<1>. DEFINE n == Len(clauses)
            h(v) == [c \in ClauseId |-> IF count[c] = 0 THEN w[c]
                              ELSE IF count[c] = 1 /\ v \in TrueVars(s, c) THEN -w[c]
                              ELSE 0]
<1>1. n \in Nat /\ ClauseId = 1 .. n
  BY ClauseFacts
<1>. HIDE DEF n
<1>2. ASSUME NEW v \in Var
      PROVE  /\ ScoreOf(v, s, count, w) = SumOver(ClauseId, GainAt(s, w, v))
             /\ SumOver(ClauseId, GainAt(s, w, v)) \in Int
  <2>1. ScoreOf(v, s, count, w) = SumOver(ClausesOf(v), h(v))
    BY DEF ScoreOf
  <2>2. GainAt(s, w, v) \in [1 .. n -> Int] /\ h(v) \in [1 .. n -> Int]
    BY <1>1, GainTypes
  <2>3. ASSUME NEW c \in 1 .. n PROVE At(ClausesOf(v), h(v), c) = At(ClauseId, GainAt(s, w, v), c)
    <3>1. w[c] \in Int /\ c \in ClauseId
      BY <1>1
    <3>2. /\ count[c] = 0 <=> TrueVars(s, c) = {}
          /\ count[c] = 1 /\ v \in TrueVars(s, c) <=> TrueVars(s, c) = {v}
      <4>1. count[c] = Cardinality(TrueVars(s, c)) /\ (count[c] = 1 => TrueVars(s, c) = {sole[c]})
        BY <3>1 DEF CountsHold
      <4>2. Cardinality({v}) = 1
        BY FS_Singleton
      <4>. QED BY <4>1, <4>2, <3>1, TrueFacts
    <3>3. TrueVars(s, c) \subseteq VarsOf(c) /\ (c \in ClausesOf(v) <=> v \in VarsOf(c))
      BY <3>1, TrueFacts, ClauseFacts
    <3>4. At(ClauseId, GainAt(s, w, v), c) =
            IF TrueVars(s, c) = {} THEN (IF v \in VarsOf(c) THEN w[c] ELSE 0)
            ELSE IF TrueVars(s, c) = {v} THEN -w[c] ELSE 0
      BY <3>1 DEF At, GainAt
    <3>5. At(ClausesOf(v), h(v), c) =
            IF v \in VarsOf(c) THEN IF count[c] = 0 THEN w[c]
                                    ELSE IF count[c] = 1 /\ v \in TrueVars(s, c) THEN -w[c] ELSE 0
            ELSE 0
      BY <3>1, <3>3 DEF At
    <3>. HIDE DEF h
    <3>6. v \notin VarsOf(c) => TrueVars(s, c) # {v}
      BY <3>3
    <3>. QED BY <3>2, <3>4, <3>5, <3>6
  <2>. HIDE DEF h
  <2>4. SameAt(n, ClausesOf(v), h(v), ClauseId, GainAt(s, w, v))
    BY <2>3 DEF SameAt
  <2>. QED BY <2>1, <2>2, <2>4, <1>1, SumSame, SumSteps
<1>. QED BY <1>2 DEF GainsHold

\* update_score, for one clause
LEMMA GainChanges ==
  ASSUME ClausesInv(clauses), NEW s, FlippedFrom(s), clause_weight \in [ClauseId -> Int],
         NEW v \in Var, NEW c \in ClauseId
  PROVE  GainAt(cur_soln, clause_weight, v)[c] =
           GainAt(s, clause_weight, v)[c]
             + (IF c \in ClausesOf(flipvar) \cap ClausesOf(v) THEN GainChange(v, c) ELSE 0)
<1>. DEFINE w == clause_weight[c]
            S == TrueVars(s, c)
            T == TrueVars(cur_soln, c)
            Of(X) == IF X = {} THEN (IF v \in VarsOf(c) THEN w ELSE 0)
                     ELSE IF X = {v} THEN -w ELSE 0
<1>1. w \in Int /\ s \in TestCase /\ flipvar \in Var /\ FlippedAt(s, flipvar, cur_soln)
  BY DEF FlippedFrom
<1>2. GainAt(cur_soln, clause_weight, v)[c] = Of(T) /\ GainAt(s, clause_weight, v)[c] = Of(S)
  BY DEF GainAt
<1>3. /\ v \in VarsOf(c) <=> c \in ClausesOf(v)
      /\ flipvar \in VarsOf(c) <=> c \in ClausesOf(flipvar)
      /\ S \subseteq VarsOf(c) /\ T \subseteq VarsOf(c)
  BY TrueFacts DEF ClausesOf
<1>4. CASE c \notin ClausesOf(flipvar)
  <2>1. T = S
    BY <1>1, <1>3, <1>4, FlipCount
  <2>. QED BY <2>1, <1>1, <1>2, <1>4
<1>5. CASE c \notin ClausesOf(v)
  <2>1. v \notin VarsOf(c) /\ S # {v} /\ T # {v}
    BY <1>3, <1>5
  <2>. QED BY <2>1, <1>1, <1>2, <1>5
<1>6. CASE c \in ClausesOf(flipvar) /\ c \in ClausesOf(v)
  <2>1. v \in VarsOf(c) /\ sat_count[c] \in Nat
    BY <1>3, <1>6, FlipCases
  <2>. DEFINE sole == IF v = sat_var[c] THEN w ELSE 0
              own  == IF v = flipvar THEN w ELSE 0
  <2>2. GainChange(v, c) =
          IF NowTrue(c)
          THEN IF sat_count[c] = 2 THEN sole ELSE IF sat_count[c] = 1 THEN -sole - w ELSE 0
          ELSE IF sat_count[c] = 1 THEN -sole ELSE IF sat_count[c] = 0 THEN w + own ELSE 0
    BY <2>1 DEF GainChange
  <2>3. Of(T) = Of(S) + GainChange(v, c)
    <3>1. CASE NowTrue(c) /\ sat_count[c] = 1
      <4>1. S = {} /\ T = {flipvar} /\ sat_var[c] = flipvar
        BY <1>6, <3>1, FlipCases DEF Won1
      <4>. HIDE DEF S, T, w
      <4>. QED BY <4>1, <2>1, <2>2, <3>1, <1>1
    <3>2. CASE NowTrue(c) /\ sat_count[c] = 2
      <4>1. S = {sat_var[c]} /\ T = {sat_var[c], flipvar} /\ sat_var[c] # flipvar
        BY <1>6, <3>2, FlipCases DEF Won2
      <4>. HIDE DEF S, T, w
      <4>2. T # {} /\ T # {v} /\ (S = {v} <=> v = sat_var[c]) /\ S # {}
        BY <4>1
      <4>. QED BY <4>2, <2>1, <2>2, <3>2, <1>1
    <3>3. CASE NowTrue(c) /\ sat_count[c] # 1 /\ sat_count[c] # 2
      <4>1. Several(S) /\ Several(T)
        BY <1>6, <2>1, <3>3, FlipCases
      <4>. HIDE DEF S, T, w
      <4>2. S # {} /\ T # {} /\ S # {v} /\ T # {v}
        BY <4>1 DEF Several
      <4>. QED BY <4>2, <2>1, <2>2, <3>3
    <3>4. CASE ~NowTrue(c) /\ sat_count[c] = 0
      <4>1. S = {flipvar} /\ T = {}
        BY <1>6, <3>4, FlipCases DEF Lost0
      <4>. HIDE DEF S, T, w
      <4>2. S # {} /\ (S = {v} <=> v = flipvar)
        BY <4>1
      <4>. QED BY <4>1, <4>2, <2>1, <2>2, <3>4, <1>1
    <3>5. CASE ~NowTrue(c) /\ sat_count[c] = 1
      <4>1. S = {sat_var[c], flipvar} /\ T = {sat_var[c]} /\ sat_var[c] # flipvar
        BY <1>6, <3>5, FlipCases DEF Lost1
      <4>. HIDE DEF S, T, w
      <4>2. S # {} /\ S # {v} /\ (T = {v} <=> v = sat_var[c]) /\ T # {}
        BY <4>1
      <4>. QED BY <4>2, <2>1, <2>2, <3>5, <1>1
    <3>6. CASE ~NowTrue(c) /\ sat_count[c] # 0 /\ sat_count[c] # 1
      <4>1. Several(S) /\ Several(T)
        BY <1>6, <2>1, <3>6, FlipCases
      <4>. HIDE DEF S, T, w
      <4>2. S # {} /\ T # {} /\ S # {v} /\ T # {v}
        BY <4>1 DEF Several
      <4>. QED BY <4>2, <2>1, <2>2, <3>6
    <3>. QED BY <3>1, <3>2, <3>3, <3>4, <3>5, <3>6
  <2>. HIDE DEF Of, S, T
  <2>. QED BY <2>3, <1>2, <1>6
<1>. QED BY <1>4, <1>5, <1>6

LEMMA UpdatedGains ==
  ASSUME ClausesInv(clauses), NEW s, FlippedFrom(s), clause_weight \in [ClauseId -> Int],
         GainsHold(score, s, clause_weight)
  PROVE  GainsHold(Updated(score, GainChange), cur_soln, clause_weight)
<1>. DEFINE n == Len(clauses)
            w == clause_weight
            J(v) == ClausesOf(flipvar) \cap ClausesOf(v)
            h(v) == [c \in ClauseId |-> GainChange(v, c)]
<1>1. n \in Nat /\ ClauseId = 1 .. n
  BY ClauseFacts
<1>2. Updated(score, GainChange) = [v \in Var |-> score[v] + SumOver(J(v), h(v))]
  BY DEF Updated
<1>. HIDE DEF n
<1>3. ASSUME NEW v \in Var
      PROVE  /\ score[v] + SumOver(J(v), h(v)) = SumOver(ClauseId, GainAt(cur_soln, w, v))
             /\ SumOver(ClauseId, GainAt(cur_soln, w, v)) \in Int
  <2>1. /\ GainAt(cur_soln, w, v) \in [1 .. n -> Int] /\ GainAt(s, w, v) \in [1 .. n -> Int]
    BY <1>1, GainTypes
  <2>2. h(v) \in [1 .. n -> Int]
    <3>. SUFFICES ASSUME NEW c \in ClauseId PROVE GainChange(v, c) \in Int
      BY <1>1
    <3>1. w[c] \in Int
      OBVIOUS
    <3>. QED BY <3>1 DEF GainChange
  <2>3. ASSUME NEW c \in 1 .. n
        PROVE  At(ClauseId, GainAt(cur_soln, w, v), c)
                 = At(ClauseId, GainAt(s, w, v), c) + At(J(v), h(v), c)
    <3>1. c \in ClauseId
      BY <1>1
    <3>2. At(J(v), h(v), c) = IF c \in J(v) THEN GainChange(v, c) ELSE 0
      BY <3>1 DEF At
    <3>3. /\ At(ClauseId, GainAt(cur_soln, w, v), c) = GainAt(cur_soln, w, v)[c]
          /\ At(ClauseId, GainAt(s, w, v), c) = GainAt(s, w, v)[c]
      BY <3>1 DEF At
    <3>4. GainAt(cur_soln, w, v)[c] =
            GainAt(s, w, v)[c] + (IF c \in J(v) THEN GainChange(v, c) ELSE 0)
      BY <3>1, GainChanges
    <3>. QED BY <3>2, <3>3, <3>4
  <2>. HIDE DEF J, h, w
  <2>4. AddsUp(n, ClauseId, GainAt(cur_soln, w, v), ClauseId, GainAt(s, w, v), J(v), h(v))
    BY <2>1, <2>2, <2>3 DEF AddsUp
  <2>5. SumOver(ClauseId, GainAt(cur_soln, w, v))
          = SumOver(ClauseId, GainAt(s, w, v)) + SumOver(J(v), h(v))
    BY <1>1, <2>4, SumLinear
  <2>6. score[v] = SumOver(ClauseId, GainAt(s, w, v))
    BY DEF GainsHold, w
  <2>7. SumOver(ClauseId, GainAt(cur_soln, w, v)) \in Int
    BY <1>1, <2>1, SumSteps
  <2>. QED BY <2>5, <2>6, <2>7
<1>. HIDE DEF J, h
<1>. QED BY <1>2, <1>3 DEF GainsHold

-----------------------------------------------------------------------------
(* Break and make scores *)

\* The clauses that a flip of v turns false, and true.
Broken(s, v) == {c \in ClauseId : TrueVars(s, c) = {v}}
Made(s, v)   == {c \in ClausesOf(v) : TrueVars(s, c) = {}}

BreaksHold(b, s, w) ==
  b \in [Var -> Int] /\ \A v \in Var : b[v] = SumOver(Broken(s, v), w)
MakesHold(m, s, w) ==
  m \in [Var -> Int] /\ \A v \in Var : m[v] = SumOver(Made(s, v), w)

LEMMA BrokenMade ==
  ASSUME ClausesInv(clauses), NEW s \in TestCase, NEW v \in Var, NEW t, FlippedAt(s, v, t)
  PROVE  /\ FalseClauses(t) \ FalseClauses(s) = Broken(s, v)
         /\ FalseClauses(s) \ FalseClauses(t) = Made(s, v)
<1>1. ASSUME NEW c \in ClauseId
      PROVE  /\ TrueVars(t, c) = {} /\ TrueVars(s, c) # {} <=> TrueVars(s, c) = {v}
             /\ TrueVars(s, c) = {} /\ TrueVars(t, c) # {} <=> v \in VarsOf(c) /\ TrueVars(s, c) = {}
  <2>1. TrueVars(s, c) \subseteq VarsOf(c)
    BY TrueFacts
  <2>2. CASE v \notin VarsOf(c)
    <3>1. TrueVars(t, c) = TrueVars(s, c) /\ TrueVars(s, c) # {v}
      BY <2>1, <2>2, FlipCount
    <3>. QED BY <3>1, <2>2
  <2>3. CASE v \in VarsOf(c) /\ v \in TrueVars(t, c)
    <3>1. v \notin TrueVars(s, c)
      BY <2>3, FlipCount
    <3>. QED BY <3>1, <2>3
  <2>4. CASE v \in VarsOf(c) /\ v \notin TrueVars(t, c)
    <3>1. v \in TrueVars(s, c) /\ TrueVars(t, c) = TrueVars(s, c) \ {v}
      BY <2>4, FlipCount
    <3>. QED BY <3>1, <2>4
  <2>. QED BY <2>2, <2>3, <2>4
<1>2. FalseClauses(t) \ FalseClauses(s) = Broken(s, v)
  BY <1>1 DEF FalseClauses, Broken
<1>3. FalseClauses(s) \ FalseClauses(t) = Made(s, v)
  BY <1>1 DEF FalseClauses, Made, ClausesOf
<1>. QED BY <1>2, <1>3

\* init_break_score, init_make_score
LEMMA InitBreaks ==
  ASSUME ClausesInv(clauses), NEW s, NEW w \in [ClauseId -> Int],
         NEW count, NEW sole, CountsHold(s, count, sole)
  PROVE  /\ BreaksHold([v \in Var |-> BreakOf(v, s, count, w)], s, w)
         /\ MakesHold([v \in Var |-> MakeOf(v, count, w)], s, w)
<1>1. ASSUME NEW v \in Var
      PROVE  /\ {c \in ClausesOf(v) : count[c] = 1 /\ v \in TrueVars(s, c)} = Broken(s, v)
             /\ {c \in ClausesOf(v) : count[c] = 0} = Made(s, v)
  <2>1. ASSUME NEW c \in ClauseId
        PROVE  /\ c \in ClausesOf(v) /\ count[c] = 1 /\ v \in TrueVars(s, c) <=> TrueVars(s, c) = {v}
               /\ count[c] = 0 <=> TrueVars(s, c) = {}
    <3>1. count[c] = Cardinality(TrueVars(s, c)) /\ (count[c] = 1 => TrueVars(s, c) = {sole[c]})
      BY DEF CountsHold
    <3>2. Cardinality({v}) = 1
      BY FS_Singleton
    <3>3. TrueVars(s, c) \subseteq VarsOf(c) /\ (c \in ClausesOf(v) <=> v \in VarsOf(c))
      BY TrueFacts, ClauseFacts
    <3>. QED BY <3>1, <3>2, <3>3, TrueFacts
  <2>2. ClausesOf(v) \subseteq ClauseId
    BY DEF ClausesOf
  <2>3. {c \in ClausesOf(v) : count[c] = 1 /\ v \in TrueVars(s, c)} = Broken(s, v)
    BY <2>1, <2>2 DEF Broken
  <2>4. {c \in ClausesOf(v) : count[c] = 0} = Made(s, v)
    BY <2>1, <2>2 DEF Made
  <2>. QED BY <2>3, <2>4
<1>2. ASSUME NEW v \in Var
      PROVE  /\ BreakOf(v, s, count, w) = SumOver(Broken(s, v), w)
             /\ MakeOf(v, count, w) = SumOver(Made(s, v), w)
  BY <1>1 DEF BreakOf, MakeOf
<1>3. \A S : SumOver(S, w) \in Int
  BY ClauseFacts, SumSteps
<1>4. \A v \in Var : BreakOf(v, s, count, w) \in Int /\ MakeOf(v, count, w) \in Int
  BY <1>2, <1>3
<1>. QED BY <1>2, <1>4 DEF BreaksHold, MakesHold

\* update_break_score, for one clause
LEMMA BreakChanges ==
  ASSUME ClausesInv(clauses), NEW s, FlippedFrom(s), clause_weight \in [ClauseId -> Int],
         NEW v \in Var, NEW c \in ClauseId
  PROVE  At(Broken(cur_soln, v), clause_weight, c) =
           At(Broken(s, v), clause_weight, c)
             + (IF c \in ClausesOf(flipvar) \cap ClausesOf(v) THEN BreakChange(v, c) ELSE 0)
<1>. DEFINE w == clause_weight[c]
            S == TrueVars(s, c)
            T == TrueVars(cur_soln, c)
            Of(X) == IF X = {v} THEN w ELSE 0
<1>1. w \in Int /\ s \in TestCase /\ flipvar \in Var /\ FlippedAt(s, flipvar, cur_soln)
  BY DEF FlippedFrom
<1>2. At(Broken(cur_soln, v), clause_weight, c) = Of(T) /\ At(Broken(s, v), clause_weight, c) = Of(S)
  BY DEF At, Broken
<1>3. /\ v \in VarsOf(c) <=> c \in ClausesOf(v)
      /\ flipvar \in VarsOf(c) <=> c \in ClausesOf(flipvar)
      /\ S \subseteq VarsOf(c) /\ T \subseteq VarsOf(c)
  BY TrueFacts DEF ClausesOf
<1>4. CASE c \notin ClausesOf(flipvar)
  <2>1. T = S
    BY <1>1, <1>3, <1>4, FlipCount
  <2>. QED BY <2>1, <1>1, <1>2, <1>4
<1>5. CASE c \notin ClausesOf(v)
  <2>1. v \notin VarsOf(c) /\ S # {v} /\ T # {v}
    BY <1>3, <1>5
  <2>. QED BY <2>1, <1>1, <1>2, <1>5
<1>6. CASE c \in ClausesOf(flipvar) /\ c \in ClausesOf(v)
  <2>1. v \in VarsOf(c) /\ sat_count[c] \in Nat
    BY <1>3, <1>6, FlipCases
  <2>. DEFINE sole == IF v = sat_var[c] THEN w ELSE 0
              own  == IF v = flipvar THEN w ELSE 0
  <2>2. BreakChange(v, c) =
          IF NowTrue(c)
          THEN IF sat_count[c] = 2 THEN -sole ELSE IF sat_count[c] = 1 THEN sole ELSE 0
          ELSE IF sat_count[c] = 1 THEN sole ELSE IF sat_count[c] = 0 THEN -own ELSE 0
    BY <2>1 DEF BreakChange
  <2>3. Of(T) = Of(S) + BreakChange(v, c)
    <3>1. CASE NowTrue(c) /\ sat_count[c] = 1
      <4>1. S = {} /\ T = {flipvar} /\ sat_var[c] = flipvar
        BY <1>6, <3>1, FlipCases DEF Won1
      <4>. HIDE DEF S, T, w
      <4>2. (T = {v} <=> v = sat_var[c]) /\ T # {} /\ S # {v}
        BY <4>1
      <4>. QED BY <4>1, <4>2, <2>1, <2>2, <3>1, <1>1
    <3>2. CASE NowTrue(c) /\ sat_count[c] = 2
      <4>1. S = {sat_var[c]} /\ T = {sat_var[c], flipvar} /\ sat_var[c] # flipvar
        BY <1>6, <3>2, FlipCases DEF Won2
      <4>. HIDE DEF S, T, w
      <4>2. T # {} /\ T # {v} /\ (S = {v} <=> v = sat_var[c]) /\ S # {}
        BY <4>1
      <4>. QED BY <4>2, <2>1, <2>2, <3>2, <1>1
    <3>3. CASE NowTrue(c) /\ sat_count[c] # 1 /\ sat_count[c] # 2
      <4>1. Several(S) /\ Several(T)
        BY <1>6, <2>1, <3>3, FlipCases
      <4>. HIDE DEF S, T, w
      <4>2. S # {} /\ T # {} /\ S # {v} /\ T # {v}
        BY <4>1 DEF Several
      <4>. QED BY <4>2, <2>1, <2>2, <3>3
    <3>4. CASE ~NowTrue(c) /\ sat_count[c] = 0
      <4>1. S = {flipvar} /\ T = {}
        BY <1>6, <3>4, FlipCases DEF Lost0
      <4>. HIDE DEF S, T, w
      <4>2. S # {} /\ (S = {v} <=> v = flipvar) /\ T # {v}
        BY <4>1
      <4>. QED BY <4>1, <4>2, <2>1, <2>2, <3>4, <1>1
    <3>5. CASE ~NowTrue(c) /\ sat_count[c] = 1
      <4>1. S = {sat_var[c], flipvar} /\ T = {sat_var[c]} /\ sat_var[c] # flipvar
        BY <1>6, <3>5, FlipCases DEF Lost1
      <4>. HIDE DEF S, T, w
      <4>2. S # {} /\ S # {v} /\ (T = {v} <=> v = sat_var[c]) /\ T # {}
        BY <4>1
      <4>. QED BY <4>2, <2>1, <2>2, <3>5, <1>1
    <3>6. CASE ~NowTrue(c) /\ sat_count[c] # 0 /\ sat_count[c] # 1
      <4>1. Several(S) /\ Several(T)
        BY <1>6, <2>1, <3>6, FlipCases
      <4>. HIDE DEF S, T, w
      <4>2. S # {} /\ T # {} /\ S # {v} /\ T # {v}
        BY <4>1 DEF Several
      <4>. QED BY <4>2, <2>1, <2>2, <3>6
    <3>. QED BY <3>1, <3>2, <3>3, <3>4, <3>5, <3>6
  <2>. HIDE DEF Of, S, T
  <2>. QED BY <2>3, <1>2, <1>6
<1>. QED BY <1>4, <1>5, <1>6

LEMMA UpdatedBreaks ==
  ASSUME ClausesInv(clauses), NEW s, FlippedFrom(s), clause_weight \in [ClauseId -> Int],
         BreaksHold(break_score, s, clause_weight)
  PROVE  BreaksHold(Updated(break_score, BreakChange), cur_soln, clause_weight)
<1>. DEFINE n == Len(clauses)
            w == clause_weight
            J(v) == ClausesOf(flipvar) \cap ClausesOf(v)
            h(v) == [c \in ClauseId |-> BreakChange(v, c)]
<1>1. n \in Nat /\ ClauseId = 1 .. n
  BY ClauseFacts
<1>2. Updated(break_score, BreakChange) = [v \in Var |-> break_score[v] + SumOver(J(v), h(v))]
  BY DEF Updated
<1>. HIDE DEF n
<1>3. ASSUME NEW v \in Var
      PROVE  /\ break_score[v] + SumOver(J(v), h(v)) = SumOver(Broken(cur_soln, v), w)
             /\ SumOver(Broken(cur_soln, v), w) \in Int
  <2>1. w \in [1 .. n -> Int]
    BY <1>1
  <2>2. h(v) \in [1 .. n -> Int]
    <3>. SUFFICES ASSUME NEW c \in ClauseId PROVE BreakChange(v, c) \in Int
      BY <1>1
    <3>1. w[c] \in Int
      OBVIOUS
    <3>. QED BY <3>1 DEF BreakChange
  <2>3. ASSUME NEW c \in 1 .. n
        PROVE  At(Broken(cur_soln, v), w, c) = At(Broken(s, v), w, c) + At(J(v), h(v), c)
    <3>1. c \in ClauseId
      BY <1>1
    <3>2. At(J(v), h(v), c) = IF c \in J(v) THEN BreakChange(v, c) ELSE 0
      BY <3>1 DEF At
    <3>3. At(Broken(cur_soln, v), w, c) =
            At(Broken(s, v), w, c) + (IF c \in J(v) THEN BreakChange(v, c) ELSE 0)
      BY <3>1, BreakChanges
    <3>. QED BY <3>2, <3>3
  <2>. HIDE DEF J, h, w
  <2>4. AddsUp(n, Broken(cur_soln, v), w, Broken(s, v), w, J(v), h(v))
    BY <2>1, <2>2, <2>3 DEF AddsUp
  <2>5. SumOver(Broken(cur_soln, v), w) = SumOver(Broken(s, v), w) + SumOver(J(v), h(v))
    BY <1>1, <2>4, SumLinear
  <2>6. break_score[v] = SumOver(Broken(s, v), w)
    BY DEF BreaksHold, w
  <2>7. SumOver(Broken(cur_soln, v), w) \in Int
    BY <1>1, <2>1, SumSteps
  <2>. QED BY <2>5, <2>6, <2>7
<1>. HIDE DEF J, h
<1>. QED BY <1>2, <1>3 DEF BreaksHold

\* update_make_score, for one clause
LEMMA MakeChanges ==
  ASSUME ClausesInv(clauses), NEW s, FlippedFrom(s), clause_weight \in [ClauseId -> Int],
         NEW v \in Var, NEW c \in ClauseId
  PROVE  At(Made(cur_soln, v), clause_weight, c) =
           At(Made(s, v), clause_weight, c)
             + (IF c \in ClausesOf(flipvar) \cap ClausesOf(v) THEN MakeChange(v, c) ELSE 0)
<1>. DEFINE w == clause_weight[c]
            S == TrueVars(s, c)
            T == TrueVars(cur_soln, c)
            Of(X) == IF v \in VarsOf(c) /\ X = {} THEN w ELSE 0
<1>1. w \in Int /\ s \in TestCase /\ flipvar \in Var /\ FlippedAt(s, flipvar, cur_soln)
  BY DEF FlippedFrom
<1>2. At(Made(cur_soln, v), clause_weight, c) = Of(T) /\ At(Made(s, v), clause_weight, c) = Of(S)
  BY DEF At, Made, ClausesOf
<1>3. /\ v \in VarsOf(c) <=> c \in ClausesOf(v)
      /\ flipvar \in VarsOf(c) <=> c \in ClausesOf(flipvar)
      /\ S \subseteq VarsOf(c) /\ T \subseteq VarsOf(c)
  BY TrueFacts DEF ClausesOf
<1>4. CASE c \notin ClausesOf(flipvar)
  <2>1. T = S
    BY <1>1, <1>3, <1>4, FlipCount
  <2>. QED BY <2>1, <1>1, <1>2, <1>4
<1>5. CASE c \notin ClausesOf(v)
  <2>1. v \notin VarsOf(c) /\ S # {v} /\ T # {v}
    BY <1>3, <1>5
  <2>. QED BY <2>1, <1>1, <1>2, <1>5
<1>6. CASE c \in ClausesOf(flipvar) /\ c \in ClausesOf(v)
  <2>1. v \in VarsOf(c) /\ sat_count[c] \in Nat
    BY <1>3, <1>6, FlipCases
  <2>2. MakeChange(v, c) =
          IF NowTrue(c) THEN IF sat_count[c] = 1 THEN -w ELSE 0
          ELSE IF sat_count[c] = 0 THEN w ELSE 0
    BY <2>1 DEF MakeChange
  <2>3. Of(T) = Of(S) + MakeChange(v, c)
    <3>1. CASE NowTrue(c) /\ sat_count[c] = 1
      <4>1. S = {} /\ T = {flipvar} /\ sat_var[c] = flipvar
        BY <1>6, <3>1, FlipCases DEF Won1
      <4>. HIDE DEF S, T, w
      <4>2. (T = {v} <=> v = sat_var[c]) /\ T # {} /\ S # {v}
        BY <4>1
      <4>. QED BY <4>1, <4>2, <2>1, <2>2, <3>1, <1>1
    <3>2. CASE NowTrue(c) /\ sat_count[c] = 2
      <4>1. S = {sat_var[c]} /\ T = {sat_var[c], flipvar} /\ sat_var[c] # flipvar
        BY <1>6, <3>2, FlipCases DEF Won2
      <4>. HIDE DEF S, T, w
      <4>2. T # {} /\ T # {v} /\ (S = {v} <=> v = sat_var[c]) /\ S # {}
        BY <4>1
      <4>. QED BY <4>2, <2>1, <2>2, <3>2, <1>1
    <3>3. CASE NowTrue(c) /\ sat_count[c] # 1 /\ sat_count[c] # 2
      <4>1. Several(S) /\ Several(T)
        BY <1>6, <2>1, <3>3, FlipCases
      <4>. HIDE DEF S, T, w
      <4>2. S # {} /\ T # {} /\ S # {v} /\ T # {v}
        BY <4>1 DEF Several
      <4>. QED BY <4>2, <2>1, <2>2, <3>3
    <3>4. CASE ~NowTrue(c) /\ sat_count[c] = 0
      <4>1. S = {flipvar} /\ T = {}
        BY <1>6, <3>4, FlipCases DEF Lost0
      <4>. HIDE DEF S, T, w
      <4>2. S # {} /\ (S = {v} <=> v = flipvar) /\ T # {v}
        BY <4>1
      <4>. QED BY <4>1, <4>2, <2>1, <2>2, <3>4, <1>1
    <3>5. CASE ~NowTrue(c) /\ sat_count[c] = 1
      <4>1. S = {sat_var[c], flipvar} /\ T = {sat_var[c]} /\ sat_var[c] # flipvar
        BY <1>6, <3>5, FlipCases DEF Lost1
      <4>. HIDE DEF S, T, w
      <4>2. S # {} /\ S # {v} /\ (T = {v} <=> v = sat_var[c]) /\ T # {}
        BY <4>1
      <4>. QED BY <4>2, <2>1, <2>2, <3>5, <1>1
    <3>6. CASE ~NowTrue(c) /\ sat_count[c] # 0 /\ sat_count[c] # 1
      <4>1. Several(S) /\ Several(T)
        BY <1>6, <2>1, <3>6, FlipCases
      <4>. HIDE DEF S, T, w
      <4>2. S # {} /\ T # {} /\ S # {v} /\ T # {v}
        BY <4>1 DEF Several
      <4>. QED BY <4>2, <2>1, <2>2, <3>6
    <3>. QED BY <3>1, <3>2, <3>3, <3>4, <3>5, <3>6
  <2>. HIDE DEF Of, S, T
  <2>. QED BY <2>3, <1>2, <1>6
<1>. QED BY <1>4, <1>5, <1>6

LEMMA UpdatedMakes ==
  ASSUME ClausesInv(clauses), NEW s, FlippedFrom(s), clause_weight \in [ClauseId -> Int],
         MakesHold(make_score, s, clause_weight)
  PROVE  MakesHold(Updated(make_score, MakeChange), cur_soln, clause_weight)
<1>. DEFINE n == Len(clauses)
            w == clause_weight
            J(v) == ClausesOf(flipvar) \cap ClausesOf(v)
            h(v) == [c \in ClauseId |-> MakeChange(v, c)]
<1>1. n \in Nat /\ ClauseId = 1 .. n
  BY ClauseFacts
<1>2. Updated(make_score, MakeChange) = [v \in Var |-> make_score[v] + SumOver(J(v), h(v))]
  BY DEF Updated
<1>. HIDE DEF n
<1>3. ASSUME NEW v \in Var
      PROVE  /\ make_score[v] + SumOver(J(v), h(v)) = SumOver(Made(cur_soln, v), w)
             /\ SumOver(Made(cur_soln, v), w) \in Int
  <2>1. w \in [1 .. n -> Int]
    BY <1>1
  <2>2. h(v) \in [1 .. n -> Int]
    <3>. SUFFICES ASSUME NEW c \in ClauseId PROVE MakeChange(v, c) \in Int
      BY <1>1
    <3>1. w[c] \in Int
      OBVIOUS
    <3>. QED BY <3>1 DEF MakeChange
  <2>3. ASSUME NEW c \in 1 .. n
        PROVE  At(Made(cur_soln, v), w, c) = At(Made(s, v), w, c) + At(J(v), h(v), c)
    <3>1. c \in ClauseId
      BY <1>1
    <3>2. At(J(v), h(v), c) = IF c \in J(v) THEN MakeChange(v, c) ELSE 0
      BY <3>1 DEF At
    <3>3. At(Made(cur_soln, v), w, c) =
            At(Made(s, v), w, c) + (IF c \in J(v) THEN MakeChange(v, c) ELSE 0)
      BY <3>1, MakeChanges
    <3>. QED BY <3>2, <3>3
  <2>. HIDE DEF J, h, w
  <2>4. AddsUp(n, Made(cur_soln, v), w, Made(s, v), w, J(v), h(v))
    BY <2>1, <2>2, <2>3 DEF AddsUp
  <2>5. SumOver(Made(cur_soln, v), w) = SumOver(Made(s, v), w) + SumOver(J(v), h(v))
    BY <1>1, <2>4, SumLinear
  <2>6. make_score[v] = SumOver(Made(s, v), w)
    BY DEF MakesHold, w
  <2>7. SumOver(Made(cur_soln, v), w) \in Int
    BY <1>1, <2>1, SumSteps
  <2>. QED BY <2>5, <2>6, <2>7
<1>. HIDE DEF J, h
<1>. QED BY <1>2, <1>3 DEF MakesHold

-----------------------------------------------------------------------------
(* Scores of second order *)

\* The clauses a flip of v takes from one true literal to two, and back.
Joined(s, v) == {c \in ClausesOf(v) : Cardinality(TrueVars(s, c)) = 1 /\ v \notin TrueVars(s, c)}
Parted(s, v) == {c \in ClausesOf(v) : Cardinality(TrueVars(s, c)) = 2 /\ v \in TrueVars(s, c)}

SecondAt(s, v) ==
  [c \in ClauseId |-> IF c \in Joined(s, v) THEN 1 ELSE IF c \in Parted(s, v) THEN -1 ELSE 0]

SecondsHold(g, s) ==
  g \in [Var -> Int] /\ \A v \in Var : g[v] = SumOver(ClauseId, SecondAt(s, v))

\* Of a clause with two true literals both options are noted.
PairsHold(s, sole, other) ==
  \A c \in ClauseId : Cardinality(TrueVars(s, c)) = 2 => TrueVars(s, c) = {sole[c], other[c]}

LEMMA SecondCounts ==
  ASSUME ClausesInv(clauses), NEW s, NEW v \in Var
  PROVE  /\ SumOver(ClauseId, SecondAt(s, v)) = Cardinality(Joined(s, v)) - Cardinality(Parted(s, v))
         /\ SumOver(ClauseId, SecondAt(s, v)) \in Int
<1>. DEFINE n == Len(clauses)
            J == Joined(s, v)
            P == Parted(s, v)
            g == SecondAt(s, v)
<1>1. n \in Nat /\ ClauseId = 1 .. n
  BY ClauseFacts
<1>2. J \subseteq ClauseId /\ P \subseteq ClauseId /\ J \cap P = {}
  BY DEF Joined, Parted, ClausesOf
<1>. HIDE DEF n, J, P
<1>3. g \in [1 .. n -> Int] /\ \A c \in 1 .. n : g[c] = IF c \in J THEN 1 ELSE IF c \in P THEN -1 ELSE 0
  BY <1>1 DEF SecondAt, J, P
<1>4. Ones \in [1 .. n -> Int] /\ \A c \in 1 .. n : Ones[c] = 1
  BY <1>1 DEF Ones
<1>. HIDE DEF g
<1>5. ASSUME NEW c \in 1 .. n PROVE At(J, Ones, c) = At(ClauseId, g, c) + At(P, Ones, c)
  BY <1>1, <1>2, <1>3, <1>4 DEF At
<1>6. AddsUp(n, J, Ones, ClauseId, g, P, Ones)
  BY <1>3, <1>4, <1>5 DEF AddsUp
<1>7. SumOver(J, Ones) = SumOver(ClauseId, g) + SumOver(P, Ones)
  BY <1>1, <1>6, SumLinear
<1>8. SumOver(J, Ones) = Cardinality(J) /\ SumOver(P, Ones) = Cardinality(P)
  <2>1. J \in SUBSET (1 .. n) /\ P \in SUBSET (1 .. n)
    BY <1>1, <1>2
  <2>2. (\A c \in J : Ones[c] = 1) /\ (\A c \in P : Ones[c] = 1)
    BY <1>4, <2>1
  <2>. QED BY <1>1, <1>4, <2>1, <2>2, SumCounts
<1>9. SumOver(ClauseId, g) \in Int /\ SumOver(J, Ones) \in Int /\ SumOver(P, Ones) \in Int
  BY <1>1, <1>3, <1>4, SumSteps
<1>. QED BY <1>7, <1>8, <1>9 DEF g, J, P

LEMMA SecondExact ==
  ASSUME ClausesInv(clauses), NEW s \in TestCase, NEW v \in Var, NEW t, FlippedAt(s, v, t)
  PROVE  /\ TrueOnce(s) \cap TrueTwice(t) = Joined(s, v)
         /\ TrueTwice(s) \cap TrueOnce(t) = Parted(s, v)
<1>1. ASSUME NEW c \in ClauseId
      PROVE  /\ Cardinality(TrueVars(s, c)) = 1 /\ Cardinality(TrueVars(t, c)) = 2
                  <=> v \in VarsOf(c) /\ Cardinality(TrueVars(s, c)) = 1 /\ v \notin TrueVars(s, c)
             /\ Cardinality(TrueVars(s, c)) = 2 /\ Cardinality(TrueVars(t, c)) = 1
                  <=> v \in VarsOf(c) /\ Cardinality(TrueVars(s, c)) = 2 /\ v \in TrueVars(s, c)
  <2>1. Cardinality(TrueVars(s, c)) \in Nat
    BY TrueFacts
  <2>2. CASE v \notin VarsOf(c)
    BY <2>1, <2>2, FlipCount
  <2>3. CASE v \in VarsOf(c) /\ v \in TrueVars(t, c)
    <3>1. v \notin TrueVars(s, c) /\ Cardinality(TrueVars(t, c)) = Cardinality(TrueVars(s, c)) + 1
      BY <2>3, FlipCount
    <3>. QED BY <3>1, <2>1, <2>3
  <2>4. CASE v \in VarsOf(c) /\ v \notin TrueVars(t, c)
    <3>1. v \in TrueVars(s, c) /\ Cardinality(TrueVars(t, c)) = Cardinality(TrueVars(s, c)) - 1
      BY <2>4, FlipCount
    <3>. QED BY <3>1, <2>1, <2>4
  <2>. QED BY <2>2, <2>3, <2>4
<1>2. \A c : c \in ClausesOf(v) <=> c \in ClauseId /\ v \in VarsOf(c)
  BY DEF ClausesOf
<1>3. TrueOnce(s) \cap TrueTwice(t) = Joined(s, v)
  BY <1>1, <1>2 DEF TrueOnce, TrueTwice, Joined
<1>4. TrueTwice(s) \cap TrueOnce(t) = Parted(s, v)
  BY <1>1, <1>2 DEF TrueOnce, TrueTwice, Parted
<1>. QED BY <1>3, <1>4

\* init_sat_var2, init_score2
LEMMA InitSeconds ==
  ASSUME ClausesInv(clauses), NEW s, NEW count, NEW sole, CountsHold(s, count, sole)
  PROVE  SecondsHold([v \in Var |-> Score2Of(v, s, count, sole)], s)
<1>1. ASSUME NEW v \in Var
      PROVE  Score2Of(v, s, count, sole) = SumOver(ClauseId, SecondAt(s, v))
  <2>1. ASSUME NEW c \in ClauseId
        PROVE  /\ count[c] = 1 /\ v # sole[c]
                    <=> Cardinality(TrueVars(s, c)) = 1 /\ v \notin TrueVars(s, c)
               /\ count[c] = Cardinality(TrueVars(s, c))
    BY DEF CountsHold
  <2>2. ClausesOf(v) \subseteq ClauseId
    BY DEF ClausesOf
  <2>3. {c \in ClausesOf(v) : count[c] = 1 /\ v # sole[c]} = Joined(s, v)
    BY <2>1, <2>2 DEF Joined
  <2>4. {c \in ClausesOf(v) : count[c] = 2 /\ v \in TrueVars(s, c)} = Parted(s, v)
    BY <2>1, <2>2 DEF Parted
  <2>. QED BY <2>3, <2>4, SecondCounts DEF Score2Of
<1>2. \A v \in Var : Score2Of(v, s, count, sole) \in Int
  BY <1>1, SecondCounts
<1>. QED BY <1>1, <1>2 DEF SecondsHold

LEMMA TwoTrue ==
  ASSUME ClausesInv(clauses), NEW s, NEW c \in ClauseId, Cardinality(TrueVars(s, c)) = 2
  PROVE  /\ TrueVars(s, c) = {TrueSeq(s, c)[1], TrueSeq(s, c)[2]}
         /\ TrueSeq(s, c)[1] \in Var /\ TrueSeq(s, c)[2] \in Var
<1>. DEFINE q == TrueSeq(s, c)
<1>1. q \in Seq(Var) /\ Len(q) = 2 /\ ToSet(q) = TrueVars(s, c)
  BY TrueFacts
<1>. HIDE DEF q
<1>2. DOMAIN q = 1 .. 2 /\ q[1] \in Var /\ q[2] \in Var
  BY <1>1
<1>3. ToSet(q) = {q[1], q[2]}
  BY <1>2 DEF ToSet
<1>. QED BY <1>1, <1>2, <1>3 DEF q

\* Between flip and update, sat_var and sat_var2 are still those of s.
PairsFrom(s) ==
  /\ \A c \in ClauseId : c \notin ClausesOf(flipvar) /\ sat_count[c] = 2
                           => TrueVars(cur_soln, c) = {sat_var[c], sat_var2[c]}
  /\ \A c \in ClausesOf(flipvar) : NowTrue(c) /\ sat_count[c] = 3
                                     => TrueVars(s, c) = {sat_var[c], sat_var2[c]}

LEMMA FlippedPairs ==
  ASSUME ClausesInv(clauses), NEW s \in TestCase, NEW v \in Var, NEW t, FlippedAt(s, v, t),
         NEW count, NEW sole, CountsHold(s, count, sole),
         NEW count2, NEW sole2, CountsFlipped(t, v, count, sole, count2, sole2)
  PROVE  /\ \A c \in ClausesOf(v) : v \in TrueVars(t, c) /\ count2[c] = 2 => TrueVars(s, c) = {sole2[c]}
         /\ \A other : PairsHold(s, sole, other) =>
              /\ \A c \in ClauseId : c \notin ClausesOf(v) /\ count2[c] = 2
                                       => TrueVars(t, c) = {sole2[c], other[c]}
              /\ \A c \in ClausesOf(v) : v \in TrueVars(t, c) /\ count2[c] = 3
                                           => TrueVars(s, c) = {sole2[c], other[c]}
<1>1. ASSUME NEW c \in ClauseId
      PROVE  /\ count[c] = Cardinality(TrueVars(s, c)) /\ (count[c] = 1 => TrueVars(s, c) = {sole[c]})
             /\ count2[c] = IF c \notin ClausesOf(v) THEN count[c]
                            ELSE IF v \in TrueVars(t, c) THEN count[c] + 1 ELSE count[c] - 1
             /\ count2[c] # 1 => sole2[c] = sole[c]
             /\ v \in VarsOf(c) <=> c \in ClausesOf(v)
             /\ Cardinality(TrueVars(s, c)) \in Nat
  BY TrueFacts DEF CountsHold, CountsFlipped, ClausesOf
<1>2. ClausesOf(v) \subseteq ClauseId
  BY DEF ClausesOf
<1>3. ASSUME NEW c \in ClausesOf(v), v \in TrueVars(t, c), count2[c] = 2
      PROVE  TrueVars(s, c) = {sole2[c]}
  <2>1. c \in ClauseId
    BY <1>2
  <2>2. count[c] = 1
    BY <1>1, <1>3, <2>1
  <2>. QED BY <1>1, <1>3, <2>1, <2>2
<1>4. ASSUME NEW other, PairsHold(s, sole, other), NEW c \in ClauseId, c \notin ClausesOf(v), count2[c] = 2
      PROVE  TrueVars(t, c) = {sole2[c], other[c]}
  <2>1. Cardinality(TrueVars(s, c)) = 2 /\ sole2[c] = sole[c]
    BY <1>1, <1>4
  <2>2. TrueVars(t, c) = TrueVars(s, c)
    BY <1>1, <1>4, FlipCount
  <2>. QED BY <2>1, <2>2, <1>4 DEF PairsHold
<1>5. ASSUME NEW other, PairsHold(s, sole, other), NEW c \in ClausesOf(v), v \in TrueVars(t, c), count2[c] = 3
      PROVE  TrueVars(s, c) = {sole2[c], other[c]}
  <2>1. c \in ClauseId
    BY <1>2
  <2>2. Cardinality(TrueVars(s, c)) = 2 /\ sole2[c] = sole[c]
    BY <1>1, <1>5, <2>1
  <2>. QED BY <2>1, <2>2, <1>5 DEF PairsHold
<1>. QED BY <1>3, <1>4, <1>5

\* update_sat_var2
LEMMA UpdatedPairs ==
  ASSUME ClausesInv(clauses), NEW s, FlippedFrom(s), PairsFrom(s)
  PROVE  LET sole  == [c \in ClauseId |-> PairVars[c][1]]
             other == [c \in ClauseId |-> PairVars[c][2]]
         IN  PairsHold(cur_soln, sole, other) /\ CountsHold(cur_soln, sat_count, sole)
<1>. DEFINE sole  == [c \in ClauseId |-> PairVars[c][1]]
            other == [c \in ClauseId |-> PairVars[c][2]]
<1>1. \A c \in ClauseId : /\ sat_count[c] = Cardinality(TrueVars(cur_soln, c))
                          /\ sat_count[c] = 1 => TrueVars(cur_soln, c) = {sat_var[c]}
  BY DEF FlippedFrom, CountsHold
<1>2. ASSUME NEW c \in ClauseId
      PROVE  /\ sat_count[c] # 2 => sole[c] = sat_var[c]
             /\ sat_count[c] = 2 => TrueVars(cur_soln, c) = {sole[c], other[c]}
  <2>0. PairVars[c] = IF c \notin ClausesOf(flipvar) \/ sat_count[c] # 2 THEN <<sat_var[c], sat_var2[c]>>
                      ELSE IF NowTrue(c) THEN <<sat_var[c], flipvar>>
                      ELSE TrueSeq(cur_soln, c)
    BY DEF PairVars
  <2>1. CASE sat_count[c] # 2
    BY <2>0, <2>1
  <2>2. CASE sat_count[c] = 2 /\ c \notin ClausesOf(flipvar)
    BY <2>0, <2>2 DEF PairsFrom
  <2>3. CASE sat_count[c] = 2 /\ c \in ClausesOf(flipvar) /\ NowTrue(c)
    <3>1. TrueVars(cur_soln, c) = {sat_var[c], flipvar}
      BY <2>3, FlipCases DEF Won2
    <3>. QED BY <2>0, <2>3, <3>1
  <2>4. CASE sat_count[c] = 2 /\ c \in ClausesOf(flipvar) /\ ~NowTrue(c)
    <3>1. TrueVars(cur_soln, c) = {TrueSeq(cur_soln, c)[1], TrueSeq(cur_soln, c)[2]}
      BY <1>1, <2>4, TwoTrue
    <3>. QED BY <2>0, <2>4, <3>1
  <2>. QED BY <2>1, <2>2, <2>3, <2>4
<1>. HIDE DEF sole, other
<1>3. PairsHold(cur_soln, sole, other)
  BY <1>1, <1>2 DEF PairsHold
<1>4. CountsHold(cur_soln, sat_count, sole)
  BY <1>1, <1>2 DEF CountsHold
<1>. QED BY <1>3, <1>4 DEF sole, other

\* update_score2, for one clause
LEMMA SecondChanges ==
  ASSUME ClausesInv(clauses), NEW s, FlippedFrom(s), PairsFrom(s), NEW v \in Var, NEW c \in ClauseId
  PROVE  SecondAt(cur_soln, v)[c] = SecondAt(s, v)[c]
           + (IF c \in ClausesOf(flipvar) \cap ClausesOf(v) THEN Score2Change(v, c) ELSE 0)
<1>. DEFINE S == TrueVars(s, c)
            T == TrueVars(cur_soln, c)
            Of(X) == IF v \in VarsOf(c) /\ Cardinality(X) = 1 /\ v \notin X THEN 1
                     ELSE IF v \in VarsOf(c) /\ Cardinality(X) = 2 /\ v \in X THEN -1 ELSE 0
            pair == IF v \in {PairVars[c][1], PairVars[c][2]} THEN 1 ELSE 0
            own  == IF v = flipvar THEN 1 ELSE 0
<1>1. s \in TestCase /\ flipvar \in Var /\ FlippedAt(s, flipvar, cur_soln)
  BY DEF FlippedFrom
<1>2. SecondAt(cur_soln, v)[c] = Of(T) /\ SecondAt(s, v)[c] = Of(S)
  BY DEF SecondAt, Joined, Parted, ClausesOf
<1>3. /\ v \in VarsOf(c) <=> c \in ClausesOf(v)
      /\ flipvar \in VarsOf(c) <=> c \in ClausesOf(flipvar)
      /\ Cardinality(S) \in Nat
  BY TrueFacts DEF ClausesOf
<1>4. ASSUME c \notin ClausesOf(flipvar) PROVE Of(T) = Of(S)
  <2>1. T = S
    BY <1>1, <1>3, <1>4, FlipCount
  <2>. QED BY <2>1
<1>5. ASSUME c \in ClausesOf(flipvar)
      PROVE  Score2Change(v, c) \in Int /\ (v \in VarsOf(c) => Of(T) = Of(S) + Score2Change(v, c))
  <2>1. sat_count[c] \in Nat /\ sat_count[c] = Cardinality(T)
    BY <1>5, FlipCases
  <2>2. Score2Change(v, c) =
          IF NowTrue(c)
          THEN IF sat_count[c] = 3 THEN pair ELSE IF sat_count[c] = 2 THEN -own - 1
               ELSE IF sat_count[c] = 1 THEN -own + 1 ELSE 0
          ELSE IF sat_count[c] = 2 THEN -pair ELSE IF sat_count[c] = 1 THEN own + 1
               ELSE IF sat_count[c] = 0 THEN own - 1 ELSE 0
    BY <2>1 DEF Score2Change
  <2>3. NowTrue(c) => /\ Cardinality(S) = sat_count[c] - 1 /\ T = S \cup {flipvar} /\ flipvar \notin S
    BY <1>5, FlipCases
  <2>4. ~NowTrue(c) => /\ Cardinality(S) = sat_count[c] + 1 /\ S = T \cup {flipvar} /\ flipvar \notin T
    BY <1>5, FlipCases
  <2>5. /\ NowTrue(c) /\ sat_count[c] = 1 => S = {} /\ T = {flipvar}
        /\ NowTrue(c) /\ sat_count[c] = 2 => S = {sat_var[c]}
        /\ NowTrue(c) /\ sat_count[c] = 3 => S = {sat_var[c], sat_var2[c]}
        /\ ~NowTrue(c) /\ sat_count[c] = 1 => T = {sat_var[c]}
        /\ ~NowTrue(c) /\ sat_count[c] = 0 => S = {flipvar} /\ T = {}
    BY <1>5, FlipCases DEF Won1, Won2, Lost0, Lost1, PairsFrom
  <2>6. NowTrue(c) /\ sat_count[c] = 3 => (v \in {PairVars[c][1], PairVars[c][2]} <=> v \in S)
    <3>1. sat_count[c] = 3 => PairVars[c] = <<sat_var[c], sat_var2[c]>>
      BY <2>1 DEF PairVars
    <3>. QED BY <3>1, <2>5
  <2>7. ~NowTrue(c) /\ sat_count[c] = 2 => (v \in {PairVars[c][1], PairVars[c][2]} <=> v \in T)
    <3>1. ~NowTrue(c) /\ sat_count[c] = 2 => PairVars[c] = TrueSeq(cur_soln, c)
      BY <1>5 DEF PairVars
    <3>2. sat_count[c] = 2 => T = {TrueSeq(cur_soln, c)[1], TrueSeq(cur_soln, c)[2]}
      BY <2>1, TwoTrue
    <3>. QED BY <3>1, <3>2
  <2>8. pair \in {0, 1} /\ own \in {0, 1}
    OBVIOUS
  <2>9. NowTrue(c) /\ sat_count[c] = 3 => (pair = IF v \in S THEN 1 ELSE 0)
    BY <2>6
  <2>10. ~NowTrue(c) /\ sat_count[c] = 2 => (pair = IF v \in T THEN 1 ELSE 0)
    BY <2>7
  <2>. HIDE DEF S, T, pair
  <2>11. Score2Change(v, c) \in Int
    BY <2>2, <2>8
  <2>12. ASSUME v \in VarsOf(c) PROVE Of(T) = Of(S) + Score2Change(v, c)
    <3>1. CASE NowTrue(c) /\ sat_count[c] = 1
      BY <3>1, <2>1, <2>2, <2>3, <2>5, <2>12, <1>3
    <3>2. CASE NowTrue(c) /\ sat_count[c] = 2
      BY <3>2, <2>1, <2>2, <2>3, <2>5, <2>12, <1>3
    <3>3. CASE NowTrue(c) /\ sat_count[c] = 3
      BY <3>3, <2>1, <2>2, <2>3, <2>9, <2>12, <1>3
    <3>4. CASE NowTrue(c) /\ sat_count[c] \notin {1, 2, 3}
      <4>1. sat_count[c] # 0
        BY <3>4, <1>5, FlipCases
      <4>. QED BY <3>4, <4>1, <2>1, <2>2, <2>3, <2>12, <1>3
    <3>5. CASE ~NowTrue(c) /\ sat_count[c] = 0
      BY <3>5, <2>1, <2>2, <2>4, <2>5, <2>12, <1>3
    <3>6. CASE ~NowTrue(c) /\ sat_count[c] = 1
      BY <3>6, <2>1, <2>2, <2>4, <2>5, <2>12, <1>3
    <3>7. CASE ~NowTrue(c) /\ sat_count[c] = 2
      BY <3>7, <2>1, <2>2, <2>4, <2>10, <2>12, <1>3
    <3>8. CASE ~NowTrue(c) /\ sat_count[c] \notin {0, 1, 2}
      BY <3>8, <2>1, <2>2, <2>4, <2>12, <1>3
    <3>. QED BY <3>1, <3>2, <3>3, <3>4, <3>5, <3>6, <3>7, <3>8
  <2>. QED BY <2>11, <2>12
<1>6. CASE c \notin ClausesOf(flipvar)
  <2>1. Of(S) \in Int
    OBVIOUS
  <2>. HIDE DEF Of
  <2>. QED BY <2>1, <1>2, <1>4, <1>6
<1>7. CASE c \in ClausesOf(flipvar) /\ v \in VarsOf(c)
  <2>. HIDE DEF Of
  <2>. QED BY <1>2, <1>3, <1>5, <1>7
<1>8. CASE c \in ClausesOf(flipvar) /\ v \notin VarsOf(c)
  <2>1. Of(S) = 0 /\ Of(T) = 0
    BY <1>8
  <2>. HIDE DEF Of
  <2>. QED BY <2>1, <1>2, <1>3, <1>5, <1>8
<1>. QED BY <1>6, <1>7, <1>8

LEMMA UpdatedSeconds ==
  ASSUME ClausesInv(clauses), NEW s, FlippedFrom(s), PairsFrom(s), SecondsHold(score2, s)
  PROVE  SecondsHold(Updated(score2, Score2Change), cur_soln)
<1>. DEFINE n == Len(clauses)
            J(v) == ClausesOf(flipvar) \cap ClausesOf(v)
            h(v) == [c \in ClauseId |-> Score2Change(v, c)]
<1>1. n \in Nat /\ ClauseId = 1 .. n
  BY ClauseFacts
<1>2. Updated(score2, Score2Change) = [v \in Var |-> score2[v] + SumOver(J(v), h(v))]
  BY DEF Updated
<1>. HIDE DEF n
<1>3. ASSUME NEW v \in Var
      PROVE  /\ score2[v] + SumOver(J(v), h(v)) = SumOver(ClauseId, SecondAt(cur_soln, v))
             /\ SumOver(ClauseId, SecondAt(cur_soln, v)) \in Int
  <2>1. SecondAt(cur_soln, v) \in [1 .. n -> Int] /\ SecondAt(s, v) \in [1 .. n -> Int]
    BY <1>1 DEF SecondAt
  <2>2. h(v) \in [1 .. n -> Int]
    <3>. SUFFICES ASSUME NEW c \in ClauseId PROVE Score2Change(v, c) \in Int
      BY <1>1
    <3>. QED BY DEF Score2Change
  <2>3. ASSUME NEW c \in 1 .. n
        PROVE  At(ClauseId, SecondAt(cur_soln, v), c) = At(ClauseId, SecondAt(s, v), c) + At(J(v), h(v), c)
    <3>1. c \in ClauseId
      BY <1>1
    <3>2. At(J(v), h(v), c) = IF c \in J(v) THEN Score2Change(v, c) ELSE 0
      BY <3>1 DEF At
    <3>3. /\ At(ClauseId, SecondAt(cur_soln, v), c) = SecondAt(cur_soln, v)[c]
          /\ At(ClauseId, SecondAt(s, v), c) = SecondAt(s, v)[c]
      BY <3>1 DEF At
    <3>4. SecondAt(cur_soln, v)[c] =
            SecondAt(s, v)[c] + (IF c \in J(v) THEN Score2Change(v, c) ELSE 0)
      BY <3>1, SecondChanges
    <3>. QED BY <3>2, <3>3, <3>4
  <2>. HIDE DEF J, h
  <2>4. AddsUp(n, ClauseId, SecondAt(cur_soln, v), ClauseId, SecondAt(s, v), J(v), h(v))
    BY <2>1, <2>2, <2>3 DEF AddsUp
  <2>5. SumOver(ClauseId, SecondAt(cur_soln, v))
          = SumOver(ClauseId, SecondAt(s, v)) + SumOver(J(v), h(v))
    BY <1>1, <2>4, SumLinear
  <2>6. score2[v] = SumOver(ClauseId, SecondAt(s, v))
    BY DEF SecondsHold
  <2>7. SumOver(ClauseId, SecondAt(cur_soln, v)) \in Int
    BY <1>1, <2>1, SumSteps
  <2>. QED BY <2>5, <2>6, <2>7
<1>. HIDE DEF J, h
<1>. QED BY <1>2, <1>3 DEF SecondsHold

LEMMA ConcatItems ==
  ASSUME NEW X, NEW s \in Seq(X), NEW t \in Seq(X)
  PROVE  s \o t \in Seq(X) /\ ToSet(s \o t) = ToSet(s) \cup ToSet(t)
<1>. DEFINE u == s \o t
            m == Len(s)
            n == Len(t)
<1>1. /\ u \in Seq(X) /\ m \in Nat /\ n \in Nat /\ DOMAIN s = 1 .. m /\ DOMAIN t = 1 .. n
      /\ DOMAIN u = 1 .. m + n
      /\ \A k \in 1 .. m + n : u[k] = IF k <= m THEN s[k] ELSE t[k - m]
  OBVIOUS
<1>. HIDE DEF u, m, n
<1>2. ASSUME NEW k \in 1 .. m + n PROVE u[k] \in ToSet(s) \cup ToSet(t)
  <2>1. CASE k <= m
    BY <2>1, <1>1, SMTT(30) DEF ToSet
  <2>2. CASE k > m
    <3>1. k - m \in 1 .. n /\ u[k] = t[k - m]
      BY <2>2, <1>1
    <3>. QED BY <3>1, <1>1 DEF ToSet
  <2>. QED BY <2>1, <2>2, <1>1
<1>3. ASSUME NEW k \in 1 .. m PROVE s[k] \in ToSet(u)
  <2>1. k \in 1 .. m + n /\ u[k] = s[k]
    BY <1>1
  <2>. QED BY <2>1, <1>1 DEF ToSet
<1>4. ASSUME NEW k \in 1 .. n PROVE t[k] \in ToSet(u)
  <2>1. m + k \in 1 .. m + n /\ (m + k) - m = k /\ ~(m + k <= m)
    BY <1>1
  <2>2. u[m + k] = t[k]
    BY <2>1, <1>1
  <2>. QED BY <2>1, <2>2, <1>1 DEF ToSet
<1>5. ToSet(u) = ToSet(s) \cup ToSet(t)
  <2>1. ToSet(u) \subseteq ToSet(s) \cup ToSet(t)
    BY <1>1, <1>2 DEF ToSet
  <2>2. ToSet(s) \subseteq ToSet(u)
    BY <1>1, <1>3 DEF ToSet
  <2>3. ToSet(t) \subseteq ToSet(u)
    BY <1>1, <1>4 DEF ToSet
  <2>. QED BY <2>1, <2>2, <2>3
<1>. QED BY <1>1, <1>5 DEF u

-----------------------------------------------------------------------------
(* The stack of promising options *)

FlagRecord == [items : Seq(Var), in : [Var -> BOOLEAN]]

\* The stack s holds exactly the options of H, each once, and flags them.
Flagging(s, H) ==
  /\ s \in FlagRecord /\ Distinct(s.items) /\ ToSet(s.items) = H
  /\ \A v \in Var : s.in[v] <=> v \in H

LEMMA StackedOne ==
  ASSUME NEW t, NEW H, Flagging(t, H), NEW v \in Var, NEW S
  PROVE  Flagging(StackOne(t, v, S), H \cup ({v} \cap S))
<1>. DEFINE u == [items |-> Append(t.items, v), in |-> [t.in EXCEPT ![v] = TRUE]]
<1>1. /\ t \in FlagRecord /\ Distinct(t.items) /\ ToSet(t.items) = H
      /\ \A y \in Var : t.in[y] <=> y \in H
      /\ t.items \in Seq(Var) /\ t.in \in [Var -> BOOLEAN]
  BY DEF Flagging, FlagRecord
<1>2. CASE v \in S /\ ~t.in[v]
  <2>1. StackOne(t, v, S) = u /\ H \cup ({v} \cap S) = H \cup {v} /\ v \notin H
    BY <1>1, <1>2 DEF StackOne
  <2>2. u.items = Append(t.items, v) /\ u.in = [t.in EXCEPT ![v] = TRUE]
        /\ u = [items |-> u.items, in |-> u.in]
    OBVIOUS
  <2>. HIDE DEF u
  <2>3. u.items \in Seq(Var) /\ Distinct(u.items) /\ ToSet(u.items) = H \cup {v}
    BY <1>1, <2>1, <2>2, AppendItem
  <2>4. u.in \in [Var -> BOOLEAN] /\ u.in[v] = TRUE /\ \A y \in Var : y # v => u.in[y] = t.in[y]
    BY <1>1, <2>2
  <2>5. \A y \in Var : u.in[y] <=> y \in H \cup {v}
    BY <1>1, <2>4
  <2>6. u \in FlagRecord
    BY <2>2, <2>3, <2>4 DEF FlagRecord
  <2>. QED BY <2>1, <2>3, <2>5, <2>6 DEF Flagging
<1>3. CASE ~(v \in S /\ ~t.in[v])
  <2>1. StackOne(t, v, S) = t /\ H \cup ({v} \cap S) = H
    BY <1>1, <1>3 DEF StackOne
  <2>. QED BY <2>1
<1>. QED BY <1>2, <1>3

LEMMA StackedUp ==
  ASSUME NEW s, NEW H, Flagging(s, H), NEW vs \in Seq(Var), NEW S
  PROVE  Flagging(StackUp(s, vs, S), H \cup (ToSet(vs) \cap S))
<1>. DEFINE n == Len(vs)
            Op(t, k) == StackOne(t, vs[k], S)
            IsF(f) == f = [k \in 0 .. n |-> IF k = 0 THEN s ELSE Op(f[k - 1], k)]
            X(k) == H \cup ({vs[j] : j \in 1 .. k} \cap S)
            G == [k \in 0 .. n |-> {t \in FlagRecord : Flagging(t, X(k))}]
            F == [k \in 1 .. n |-> [t \in G[k - 1] |-> Op(t, k)]]
<1>1. n \in Nat
  OBVIOUS
<1>2. DOMAIN vs = 1 .. n /\ \A k \in 1 .. n : vs[k] \in Var
  OBVIOUS
<1>. HIDE DEF n
<1>a. s \in G[0]
  <2>1. X(0) = H
    OBVIOUS
  <2>. HIDE DEF X
  <2>. QED BY <2>1, <1>1 DEF Flagging
<1>b. ASSUME NEW k \in 1 .. n, NEW t \in G[k - 1] PROVE Op(t, k) \in G[k]
  <2>1. Flagging(t, X(k - 1))
    BY <1>1
  <2>2. X(k) = X(k - 1) \cup ({vs[k]} \cap S)
    <3>1. {vs[j] : j \in 1 .. k} = {vs[j] : j \in 1 .. k - 1} \cup {vs[k]}
      BY <1>1
    <3>. QED BY <3>1
  <2>. HIDE DEF X
  <2>3. Flagging(Op(t, k), X(k))
    BY <2>1, <2>2, <1>2, StackedOne
  <2>. HIDE DEF Op
  <2>. QED BY <2>3, <1>1 DEF Flagging
<1>. HIDE DEF Op, G
<1>3. \E f : IsF(f)
  <2>1. StepsIn(n, G, s, F)
    BY <1>a, <1>b DEF StepsIn
  <2>. HIDE DEF F
  <2>2. PICK f : RunsIn(n, G, s, F, f)
    BY <1>1, <2>1, Iteration
  <2>3. \A k \in 1 .. n : f[k - 1] \in G[k - 1]
    BY <2>2, <1>1 DEF RunsIn
  <2>4. \A k \in 1 .. n : F[k][f[k - 1]] = Op(f[k - 1], k)
    BY <2>3 DEF F
  <2>5. f = [k \in 0 .. n |-> IF k = 0 THEN s ELSE Op(f[k - 1], k)]
    BY <2>2, <2>4, <1>1 DEF RunsIn
  <2>. QED BY <2>5
<1>. DEFINE f == CHOOSE f : IsF(f)
<1>4. IsF(f)
  BY <1>3, Zenon
<1>5. StackUp(s, vs, S) = f[n]
  BY Zenon DEF StackUp, Op, n
<1>. HIDE DEF f
<1>6. f[0] = s /\ \A k \in 1 .. n : f[k] = Op(f[k - 1], k)
  BY <1>1, <1>4
<1>. HIDE DEF X
<1>7. f[n] \in G[n]
  <2>. DEFINE T == {k \in 0 .. n : f[k] \in G[k]}
  <2>1. 0 \in T
    BY <1>1, <1>a, <1>6
  <2>2. ASSUME NEW k \in 1 .. n, k - 1 \in T PROVE k \in T
    BY <2>2, <1>b, <1>6
  <2>. HIDE DEF T
  <2>3. \A k \in 0 .. n : k \in T
    BY <1>1, <2>1, <2>2, UpTo
  <2>4. n \in T
    BY <2>3, <1>1
  <2>. QED BY <2>4 DEF T
<1>8. Flagging(f[n], X(n))
  BY <1>1, <1>7 DEF G
<1>9. X(n) = H \cup (ToSet(vs) \cap S)
  BY <1>2 DEF ToSet, X
<1>. QED BY <1>5, <1>8, <1>9

\* The loop over the stack of update_nvccdvar_related_in_update_function
LEMMA TakenOne ==
  ASSUME NEW t, NEW H, Flagging(t, H), NEW k \in 1 .. Len(t.items)
  PROVE  /\ Flagging(TakenOff(t, k), H \ {t.items[k]})
         /\ Len(TakenOff(t, k).items) = Len(t.items) - 1
         /\ \A j \in 1 .. Len(t.items) - 1 : j < k => TakenOff(t, k).items[j] = t.items[j]
<1>. DEFINE n == Len(t.items)
            x == t.items[k]
            l == t.items[n]
            e == [t.items EXCEPT ![k] = l]
            u == TakenOff(t, k)
<1>1. /\ t \in FlagRecord /\ Distinct(t.items) /\ ToSet(t.items) = H
      /\ \A y \in Var : t.in[y] <=> y \in H
      /\ t.items \in Seq(Var) /\ t.in \in [Var -> BOOLEAN] /\ n \in Nat /\ DOMAIN t.items = 1 .. n
  BY DEF Flagging, FlagRecord
<1>2. /\ n \in 1 .. n /\ l \in Var /\ x \in Var
      /\ \A i, j \in 1 .. n : t.items[i] = t.items[j] => i = j
      /\ \A j \in 1 .. n : t.items[j] \in H
      /\ \A y \in H : \E j \in 1 .. n : t.items[j] = y
  BY <1>1, SMTT(30) DEF Distinct, ToSet
<1>3. e \in Seq(Var) /\ Len(e) = n /\ \A j \in 1 .. n : e[j] = IF j = k THEN l ELSE t.items[j]
  BY <1>1, <1>2
<1>4. /\ u.items = SubSeq(e, 1, n - 1) /\ u.in = [t.in EXCEPT ![x] = FALSE]
      /\ u = [items |-> u.items, in |-> u.in]
  BY DEF TakenOff, Last
<1>. HIDE DEF e, u, n
<1>5. /\ u.items \in Seq(Var) /\ Len(u.items) = n - 1 /\ n - 1 \in Nat
      /\ \A j \in 1 .. n - 1 : u.items[j] = IF j = k THEN l ELSE t.items[j]
  BY <1>1, <1>2, <1>3, <1>4, SMTT(30)
<1>6. DOMAIN u.items = 1 .. n - 1 /\ k \in 1 .. n
  BY <1>5 DEF n
<1>7. Distinct(u.items)
  <2>. SUFFICES ASSUME NEW i \in 1 .. n - 1, NEW j \in 1 .. n - 1, u.items[i] = u.items[j]
                PROVE  i = j
    BY <1>6 DEF Distinct
  <2>. DEFINE at(m) == IF m = k THEN n ELSE m
  <2>1. u.items[i] = t.items[at(i)] /\ u.items[j] = t.items[at(j)]
    BY <1>5
  <2>2. at(i) \in 1 .. n /\ at(j) \in 1 .. n
    BY <1>1, <1>2
  <2>3. at(i) = at(j)
    BY <1>2, <2>1, <2>2
  <2>4. i # n /\ j # n
    BY <1>5
  <2>. QED BY <2>3, <2>4
<1>8. ToSet(u.items) = H \ {x}
  <2>1. ASSUME NEW j \in 1 .. n - 1 PROVE u.items[j] \in H \ {x}
    <3>1. j \in 1 .. n /\ j # n
      BY <1>1
    <3>2. CASE j = k
      <4>1. k # n
        BY <3>1, <3>2
      <4>. QED BY <4>1, <3>2, <1>2, <1>5, <1>6
    <3>3. CASE j # k
      BY <3>1, <3>3, <1>2, <1>5, <1>6
    <3>. QED BY <3>2, <3>3
  <2>2. ASSUME NEW y \in H \ {x} PROVE \E j \in 1 .. n - 1 : u.items[j] = y
    <3>1. PICK i \in 1 .. n : t.items[i] = y
      BY <1>2
    <3>2. i # k
      BY <3>1
    <3>3. CASE i = n
      <4>1. k \in 1 .. n - 1
        BY <3>2, <3>3, <1>6
      <4>. QED BY <4>1, <3>1, <3>3, <1>5
    <3>4. CASE i # n
      <4>1. i \in 1 .. n - 1
        BY <3>4, <1>1
      <4>. QED BY <4>1, <3>1, <3>2, <1>5
    <3>. QED BY <3>3, <3>4
  <2>. QED BY <2>1, <2>2, <1>6 DEF ToSet
<1>9. u.in \in [Var -> BOOLEAN] /\ \A y \in Var : u.in[y] <=> y \in H \ {x}
  <2>1. u.in \in [Var -> BOOLEAN] /\ u.in[x] = FALSE /\ \A y \in Var : y # x => u.in[y] = t.in[y]
    BY <1>1, <1>2, <1>4
  <2>. QED BY <2>1, <1>1
<1>10. u \in FlagRecord
  BY <1>4, <1>5, <1>9 DEF FlagRecord
<1>. QED BY <1>5, <1>7, <1>8, <1>9, <1>10 DEF Flagging, n, u

LEMMA CleanedUp ==
  ASSUME NEW s, NEW H, Flagging(s, H), NEW gains, NEW conf
  PROVE  Flagging(Cleaned(s, gains, conf), {v \in H : gains[v] > 0 /\ conf[v] # 0})
<1>. DEFINE n == Len(s.items)
            Keep(v) == gains[v] > 0 /\ conf[v] # 0
            Op(t, a) == LET v == t.items[n - a + 1]
                        IN  IF gains[v] > 0 /\ conf[v] # 0 THEN t ELSE TakenOff(t, n - a + 1)
            IsF(f) == f = [a \in 0 .. n |-> IF a = 0 THEN s ELSE Op(f[a - 1], a)]
            Low(a) == {s.items[j] : j \in 1 .. n - a}
            X(a) == {v \in H : Keep(v) \/ v \in Low(a)}
            Good(t, a) == /\ Flagging(t, X(a)) /\ Len(t.items) >= n - a
                          /\ \A j \in 1 .. n - a : t.items[j] = s.items[j]
            G == [a \in 0 .. n |-> {t \in FlagRecord : Good(t, a)}]
            F == [a \in 1 .. n |-> [t \in G[a - 1] |-> Op(t, a)]]
<1>1. n \in Nat
  BY DEF Flagging, FlagRecord
<1>2. /\ s \in FlagRecord /\ s.items \in Seq(Var) /\ DOMAIN s.items = 1 .. n
      /\ ToSet(s.items) = H /\ \A i, j \in 1 .. n : s.items[i] = s.items[j] => i = j
  BY DEF Flagging, FlagRecord, Distinct
<1>3. /\ \A j \in 1 .. n : s.items[j] \in H
      /\ Len(s.items) = n
  BY <1>2 DEF ToSet
<1>. HIDE DEF n
<1>a. s \in G[0]
  <2>1. Low(0) = H
    BY <1>1, <1>2 DEF ToSet
  <2>2. X(0) = H
    BY <2>1
  <2>. HIDE DEF X
  <2>. QED BY <2>2, <1>1, <1>2, <1>3
<1>b. ASSUME NEW a \in 1 .. n, NEW t \in G[a - 1] PROVE Op(t, a) \in G[a]
  <2>. DEFINE k == n - a + 1
              v == s.items[k]
  <2>1. Good(t, a - 1) /\ t \in FlagRecord
    BY <1>1
  <2>2. k \in 1 .. n /\ n - (a - 1) = k /\ n - a = k - 1 /\ k - 1 \in Nat
    BY <1>1
  <2>3. Len(t.items) >= k /\ Len(t.items) \in Nat /\ \A j \in 1 .. k : t.items[j] = s.items[j]
    BY <2>1, <2>2 DEF FlagRecord
  <2>4. t.items[k] = v /\ v \in H
    BY <2>2, <2>3, <1>3
  <2>5. Low(a - 1) = Low(a) \cup {v} /\ v \notin Low(a)
    <3>1. Low(a - 1) = {s.items[j] : j \in 1 .. k} /\ Low(a) = {s.items[j] : j \in 1 .. k - 1}
      BY <2>2
    <3>2. {s.items[j] : j \in 1 .. k} = {s.items[j] : j \in 1 .. k - 1} \cup {v}
      BY <2>2
    <3>3. ASSUME NEW j \in 1 .. k - 1 PROVE s.items[j] # v
      <4>1. j \in 1 .. n /\ j # k
        BY <2>2, <1>1
      <4>. HIDE DEF k
      <4>. QED BY <4>1, <2>2, <1>2
    <3>. QED BY <3>1, <3>2, <3>3
  <2>6. CASE Keep(v)
    <3>1. Op(t, a) = t
      BY <2>4, <2>6
    <3>2. X(a) = X(a - 1)
      BY <2>5, <2>6
    <3>. HIDE DEF X, Op
    <3>3. Good(t, a)
      BY <2>1, <2>2, <2>3, <3>2
    <3>. HIDE DEF Good
    <3>. QED BY <3>1, <3>3, <2>1, <1>1
  <2>7. CASE ~Keep(v)
    <3>1. Op(t, a) = TakenOff(t, k)
      BY <2>4, <2>7
    <3>2. X(a) = X(a - 1) \ {v}
      BY <2>5, <2>7
    <3>. HIDE DEF X, Op
    <3>3. Flagging(t, X(a - 1)) /\ k \in 1 .. Len(t.items)
      BY <2>1, <2>2, <2>3
    <3>. HIDE DEF k, v
    <3>4. /\ Flagging(TakenOff(t, k), X(a))
          /\ Len(TakenOff(t, k).items) = Len(t.items) - 1
          /\ \A j \in 1 .. Len(t.items) - 1 : j < k => TakenOff(t, k).items[j] = t.items[j]
      BY <3>2, <3>3, <2>4, TakenOne, SMTT(30)
    <3>5. ASSUME NEW j \in 1 .. k - 1 PROVE TakenOff(t, k).items[j] = s.items[j]
      <4>1. j \in 1 .. Len(t.items) - 1 /\ j < k /\ j \in 1 .. k
        BY <2>2, <2>3
      <4>. QED BY <4>1, <3>4, <2>3
    <3>6. Len(TakenOff(t, k).items) >= n - a
      BY <3>4, <2>2, <2>3
    <3>7. Good(TakenOff(t, k), a) /\ TakenOff(t, k) \in FlagRecord
      BY <3>4, <3>5, <3>6, <2>2 DEF Flagging
    <3>. HIDE DEF Good
    <3>. QED BY <3>1, <3>7, <1>1
  <2>. QED BY <2>6, <2>7
<1>. HIDE DEF Op, G
<1>4. \E f : IsF(f)
  <2>1. StepsIn(n, G, s, F)
    BY <1>a, <1>b DEF StepsIn
  <2>. HIDE DEF F
  <2>2. PICK f : RunsIn(n, G, s, F, f)
    BY <1>1, <2>1, Iteration
  <2>3. \A k \in 1 .. n : f[k - 1] \in G[k - 1]
    BY <2>2, <1>1 DEF RunsIn
  <2>4. \A k \in 1 .. n : F[k][f[k - 1]] = Op(f[k - 1], k)
    BY <2>3 DEF F
  <2>5. f = [k \in 0 .. n |-> IF k = 0 THEN s ELSE Op(f[k - 1], k)]
    BY <2>2, <2>4, <1>1 DEF RunsIn
  <2>. QED BY <2>5
<1>. DEFINE f == CHOOSE f : IsF(f)
<1>5. IsF(f)
  BY <1>4, Zenon
<1>6. Cleaned(s, gains, conf) = f[n]
  BY Zenon DEF Cleaned, Op, n
<1>. HIDE DEF f
<1>7. f[0] = s /\ \A k \in 1 .. n : f[k] = Op(f[k - 1], k)
  BY <1>1, <1>5
<1>8. f[n] \in G[n]
  <2>. DEFINE T == {k \in 0 .. n : f[k] \in G[k]}
  <2>1. 0 \in T
    BY <1>1, <1>a, <1>7
  <2>2. ASSUME NEW k \in 1 .. n, k - 1 \in T PROVE k \in T
    BY <2>2, <1>b, <1>7
  <2>. HIDE DEF T
  <2>3. n \in T
    BY <1>1, <2>1, <2>2, UpTo
  <2>. QED BY <2>3 DEF T
<1>9. Good(f[n], n)
  <2>. HIDE DEF Good
  <2>1. G[n] = {t \in FlagRecord : Good(t, n)}
    BY <1>1 DEF G
  <2>. QED BY <2>1, <1>8
<1>10. X(n) = {v \in H : gains[v] > 0 /\ conf[v] # 0}
  <2>1. Low(n) = {}
    BY <1>1
  <2>. QED BY <2>1
<1>. QED BY <1>6, <1>9, <1>10

\* var_neighbor holds the neighbours.
LEMMA NeighborItems ==
  ASSUME ClausesInv(clauses), NEW v \in Var
  PROVE  NeighborSeq(v) \in Seq(Var) /\ ToSet(NeighborSeq(v)) = Neighbors(v)
<1>. DEFINE n == Len(clauses)
            Op(t, c) == IF v \in VarsOf(c) THEN t \o Filtered(VarSeq(c), Var \ {v}) ELSE t
            IsF(f) == f = [c \in 0 .. n |-> IF c = 0 THEN <<>> ELSE Op(f[c - 1], c)]
            X(k) == (UNION {VarsOf(c) : c \in {d \in 1 .. k : v \in VarsOf(d)}}) \ {v}
            G == [k \in 0 .. n |-> {t \in Seq(Var) : ToSet(t) = X(k)}]
            F == [k \in 1 .. n |-> [t \in G[k - 1] |-> Op(t, k)]]
<1>1. n \in Nat
  BY ClauseFacts
<1>2. ClauseId = 1 .. n
  BY ClauseFacts
<1>. HIDE DEF n
<1>a. <<>> \in G[0]
  <2>. DEFINE e == <<>>
  <2>1. X(0) = {} /\ ToSet(e) = {} /\ e \in Seq(Var)
    BY DEF ToSet
  <2>. HIDE DEF X, e
  <2>2. ToSet(e) = X(0)
    BY <2>1
  <2>3. G[0] = {t \in Seq(Var) : ToSet(t) = X(0)}
    BY <1>1
  <2>4. e \in G[0]
    BY <2>1, <2>2, <2>3
  <2>. QED BY <2>4 DEF e
<1>b. ASSUME NEW k \in 1 .. n, NEW t \in G[k - 1] PROVE Op(t, k) \in G[k]
  <2>1. t \in Seq(Var) /\ ToSet(t) = X(k - 1)
    BY <1>1
  <2>2. CASE v \in VarsOf(k)
    <3>1. X(k) = X(k - 1) \cup (VarsOf(k) \ {v})
      BY <2>2
    <3>. DEFINE q == Filtered(VarSeq(k), Var \ {v})
    <3>2. /\ VarSeq(k) \in Seq(Var) /\ ToSet(VarSeq(k)) = VarsOf(k) /\ VarsOf(k) \subseteq Var
      BY <1>2, ClauseFacts
    <3>3. q \in Seq(Var) /\ ToSet(q) = VarsOf(k) \cap (Var \ {v})
      BY <3>2, FilteredItems
    <3>. HIDE DEF q, X
    <3>4. t \o q \in Seq(Var) /\ ToSet(t \o q) = ToSet(t) \cup ToSet(q)
      BY <2>1, <3>3, ConcatItems
    <3>5. ToSet(t \o q) = X(k)
      BY <3>1, <3>2, <3>3, <3>4, <2>1
    <3>. QED BY <3>4, <3>5, <2>2, <1>1 DEF q
  <2>3. CASE v \notin VarsOf(k)
    <3>1. X(k) = X(k - 1)
      BY <2>3
    <3>. HIDE DEF X
    <3>. QED BY <2>1, <2>3, <3>1, <1>1
  <2>. QED BY <2>2, <2>3
<1>. HIDE DEF Op, G
<1>3. \E f : IsF(f)
  <2>1. StepsIn(n, G, <<>>, F)
    BY <1>a, <1>b DEF StepsIn
  <2>. HIDE DEF F
  <2>2. PICK f : RunsIn(n, G, <<>>, F, f)
    BY <1>1, <2>1, Iteration
  <2>3. \A k \in 1 .. n : f[k - 1] \in G[k - 1]
    BY <2>2, <1>1 DEF RunsIn
  <2>4. \A k \in 1 .. n : F[k][f[k - 1]] = Op(f[k - 1], k)
    BY <2>3 DEF F
  <2>5. f = [k \in 0 .. n |-> IF k = 0 THEN <<>> ELSE Op(f[k - 1], k)]
    BY <2>2, <2>4, <1>1 DEF RunsIn
  <2>. QED BY <2>5
<1>. DEFINE f == CHOOSE f : IsF(f)
<1>4. IsF(f)
  BY <1>3, Zenon
<1>5. NeighborSeq(v) = f[n]
  BY Zenon DEF NeighborSeq, Op, n
<1>. HIDE DEF f
<1>6. f[0] = <<>> /\ \A k \in 1 .. n : f[k] = Op(f[k - 1], k)
  BY <1>1, <1>4
<1>7. f[n] \in G[n]
  <2>. DEFINE T == {k \in 0 .. n : f[k] \in G[k]}
  <2>1. 0 \in T
    BY <1>1, <1>a, <1>6
  <2>2. ASSUME NEW k \in 1 .. n, k - 1 \in T PROVE k \in T
    BY <2>2, <1>b, <1>6
  <2>. HIDE DEF T
  <2>3. n \in T
    BY <1>1, <2>1, <2>2, UpTo
  <2>. QED BY <2>3 DEF T
<1>8. f[n] \in Seq(Var) /\ ToSet(f[n]) = X(n)
  BY <1>1, <1>7 DEF G
<1>9. X(n) = Neighbors(v)
  BY <1>2 DEF Neighbors, ClausesOf
<1>. QED BY <1>5, <1>8, <1>9

-----------------------------------------------------------------------------
(* Weighting *)

WeightRecord ==
  [clause : [ClauseId -> Nat \ {0}], total : Int, avg : Int, delta : Int, large : Seq(ClauseId),
   score : [Var -> Int], stack : FlagRecord, fell : BOOLEAN, at : Int]

\* The weights add up to what the average and its remainder say.
Balanced(clause, avg, delta) ==
  /\ clause \in [ClauseId -> Nat \ {0}] /\ avg \in Int /\ delta \in 0 .. Len(clauses)
  /\ SumOver(ClauseId, clause) = avg * Len(clauses) + delta

\* Each clause heavier than 1 is listed once.
Listed(list, clause) ==
  list \in Seq(ClauseId) /\ Distinct(list) /\ ToSet(list) = {c \in ClauseId : clause[c] > 1}

\* What is worth flipping is on the stack, unless weights have fallen.
Complete(gains, conf, stack, fell) ==
  ~fell => \A v \in Var : gains[v] > 0 /\ conf[v] = 1 => v \in ToSet(stack.items)

\* The weights, and the gains and the stack that go by them, at cur_soln.
WeightsRight(r) ==
  /\ r \in WeightRecord
  /\ Balanced(r.clause, r.avg, r.delta)
  /\ settings.weights = "swt" => r.avg <= WeightThreshold
  /\ settings.weights = "paws" => Listed(r.large, r.clause)
  /\ r.total = SumOver(FalseClauses(cur_soln), r.clause)
  /\ GainsHold(r.score, cur_soln, r.clause)
  /\ Flagging(r.stack, ToSet(r.stack.items))
  /\ Complete(r.score, nvcc_conf_change, r.stack, r.fell)

\* What the weighting of a search that is stuck starts from.
Stuck ==
  /\ ClausesInv(clauses) /\ cur_soln \in TestCase
  /\ CountsHold(cur_soln, sat_count, sat_var)
  /\ StacksHold(Stacks, FalseClauses(cur_soln), clause_weight)
  /\ WeightsRight(Weights) /\ ~NoneFalse

\* The stacks of false clauses and of their options.
LEMMA StuckStacks ==
  ASSUME Stuck
  PROVE  LET B == FalseClauses(cur_soln)
         IN  /\ B \in SUBSET ClauseId /\ FalseClause = B /\ B # {}
             /\ unsat_stack.items \in Seq(ClauseId) /\ Distinct(unsat_stack.items)
             /\ unsatvar_stack.items \in Seq(Var)
             /\ SumOver(B, Ones) = Len(unsat_stack.items)
             /\ Len(unsat_stack.items) \in 0 .. Len(clauses)
             /\ Len(clauses) \in Nat \ {0}
             /\ \A v \in Var :
                  /\ SumOver(ClausesOf(v) \cap B, Ones) \in Nat
                  /\ SumOver(ClausesOf(v) \cap B, Ones) =
                       IF v \in ToSet(unsatvar_stack.items) THEN unsatvar_app_count[v] ELSE 0
<1>. DEFINE B == FalseClauses(cur_soln)
            n == Len(clauses)
<1>1. /\ ClausesInv(clauses) /\ StacksHold(Stacks, B, clause_weight) /\ ~NoneFalse
  BY DEF Stuck
<1>2. B \in SUBSET ClauseId
  BY DEF FalseClauses
<1>3. Stacks.unsat = unsat_stack /\ Stacks.var = unsatvar_stack /\ Stacks.app = unsatvar_app_count
  BY DEF Stacks
<1>. HIDE DEF B
<1>4. /\ Holding(unsat_stack, ClauseId, B)
      /\ Holding(unsatvar_stack, Var, {v \in Var : unsatvar_app_count[v] > 0})
      /\ \A v \in Var : unsatvar_app_count[v] \in Nat
      /\ \A v \in Var : unsatvar_app_count[v] = Cardinality(ClausesOf(v) \cap B)
  BY <1>1, <1>3 DEF StacksHold, OptionsHeld
<1>5. /\ unsat_stack.items \in Seq(ClauseId) /\ Distinct(unsat_stack.items)
      /\ ToSet(unsat_stack.items) = B
  BY <1>4, HoldingTypes DEF Holding
<1>6. unsatvar_stack.items \in Seq(Var)
      /\ ToSet(unsatvar_stack.items) = {v \in Var : unsatvar_app_count[v] > 0}
  BY <1>4, HoldingTypes DEF Holding
<1>7. n \in Nat /\ ClauseId = 1 .. n
  BY <1>1, ClauseFacts
<1>8. IsFiniteSet(B) /\ Cardinality(B) = Len(unsat_stack.items)
  BY <1>5, DistinctLength
<1>9. Len(unsat_stack.items) \in 0 .. n
  <2>1. IsFiniteSet(1 .. n) /\ Cardinality(1 .. n) = n
    BY <1>7, FS_Interval, SMTT(30)
  <2>2. Cardinality(B) <= n /\ Cardinality(B) \in Nat
    <3>1. B \in SUBSET (1 .. n)
      BY <1>2, <1>7
    <3>2. Cardinality(B) <= Cardinality(1 .. n)
      BY <2>1, <3>1, FS_Subset, ZenonT(40)
    <3>3. Cardinality(B) \in Nat
      BY <1>8, FS_CardinalityType
    <3>. QED BY <2>1, <3>2, <3>3
  <2>. HIDE DEF n
  <2>. QED BY <2>2, <1>7, <1>8
<1>10. unsat_stack.items # <<>>
  BY <1>1 DEF NoneFalse
<1>11. B # {} /\ n # 0
  <2>1. 1 \in DOMAIN unsat_stack.items
    BY <1>5, <1>10
  <2>2. unsat_stack.items[1] \in B
    BY <2>1, <1>5 DEF ToSet
  <2>3. unsat_stack.items[1] \in 1 .. n
    BY <2>2, <1>2, <1>7
  <2>. HIDE DEF n
  <2>. QED BY <2>2, <2>3, <1>7
<1>12. Ones \in [1 .. n -> Int] /\ \A c \in 1 .. n : Ones[c] = 1
  BY <1>7 DEF Ones
<1>13. \A S \in SUBSET (1 .. n) : SumOver(S, Ones) = Cardinality(S)
  BY <1>7, <1>12, SumCounts
<1>14. SumOver(B, Ones) = Len(unsat_stack.items)
  BY <1>2, <1>7, <1>8, <1>13
<1>15. ASSUME NEW v \in Var
       PROVE  /\ SumOver(ClausesOf(v) \cap B, Ones) \in Nat
              /\ SumOver(ClausesOf(v) \cap B, Ones) =
                   IF v \in ToSet(unsatvar_stack.items) THEN unsatvar_app_count[v] ELSE 0
  <2>1. SumOver(ClausesOf(v) \cap B, Ones) = unsatvar_app_count[v]
    <3>1. ClausesOf(v) \cap B \in SUBSET (1 .. n)
      BY <1>2, <1>7
    <3>. QED BY <3>1, <1>13, <1>4
  <2>. QED BY <2>1, <1>4, <1>6
<1>16. FalseClause = B
  BY <1>5 DEF FalseClause
<1>. QED BY <1>2, <1>5, <1>6, <1>7, <1>9, <1>11, <1>14, <1>15, <1>16 DEF B, n

\* One more for each false clause: the fields of Raised.
LEMMA RaisedFields ==
  /\ Raised.clause = [c \in ClauseId |-> clause_weight[c] + (IF c \in FalseClause THEN 1 ELSE 0)]
  /\ Raised.total = total_unsat_clause_weight + Len(unsat_stack.items)
  /\ Raised.avg = IF Over THEN avg_clause_weight + 1 ELSE avg_clause_weight
  /\ Raised.delta = IF Over THEN (delta_total_clause_weight + Len(unsat_stack.items)) - Len(clauses)
                    ELSE delta_total_clause_weight + Len(unsat_stack.items)
  /\ Raised.large = large_weight_clauses
  /\ Raised.score = [v \in Var |-> RaisedScore(v)]
  /\ Raised.stack = StackUp(nvccdvar_stack, unsatvar_stack.items, PromisingBy([v \in Var |-> RaisedScore(v)]))
  /\ Raised.fell = smoothed /\ Raised.at = 1
  /\ Raised = [clause |-> Raised.clause, total |-> Raised.total, avg |-> Raised.avg,
               delta |-> Raised.delta, large |-> Raised.large, score |-> Raised.score,
               stack |-> Raised.stack, fell |-> Raised.fell, at |-> Raised.at]
<1>. DEFINE W  == Weights
            X1 == [c \in ClauseId |-> W.clause[c] + (IF c \in FalseClause THEN 1 ELSE 0)]
            X2 == W.total + Len(unsat_stack.items)
            X3 == IF Over THEN W.avg + 1 ELSE W.avg
            X4 == DeltaLeft(W.delta + Len(unsat_stack.items), Over)
            X5 == [v \in Var |-> RaisedScore(v)]
            X6 == StackUp(W.stack, unsatvar_stack.items, PromisingBy(X5))
            Rec(x1, x2, x3, x4, x5, x6) ==
              [clause |-> x1, total |-> x2, avg |-> x3, delta |-> x4, large |-> large_weight_clauses,
               score |-> x5, stack |-> x6, fell |-> smoothed, at |-> 1]
            E1 == [W EXCEPT !.clause = X1]
            E2 == [E1 EXCEPT !.total = X2]
            E3 == [E2 EXCEPT !.avg = X3]
            E4 == [E3 EXCEPT !.delta = X4]
            E5 == [E4 EXCEPT !.score = X5]
            E6 == [E5 EXCEPT !.stack = X6]
<1>1. Raised = E6
  BY DEF Raised
<1>2. W = Rec(clause_weight, total_unsat_clause_weight, avg_clause_weight,
              delta_total_clause_weight, score, nvccdvar_stack)
  BY DEF Weights
<1>. HIDE DEF W, X1, X2, X3, X4, X5, X6
<1>3. E1 = Rec(X1, total_unsat_clause_weight, avg_clause_weight,
               delta_total_clause_weight, score, nvccdvar_stack)
  BY <1>2
<1>. HIDE DEF E1
<1>4. E2 = Rec(X1, X2, avg_clause_weight, delta_total_clause_weight, score, nvccdvar_stack)
  BY <1>3
<1>. HIDE DEF E2
<1>5. E3 = Rec(X1, X2, X3, delta_total_clause_weight, score, nvccdvar_stack)
  BY <1>4
<1>. HIDE DEF E3
<1>6. E4 = Rec(X1, X2, X3, X4, score, nvccdvar_stack)
  BY <1>5
<1>. HIDE DEF E4
<1>7. E5 = Rec(X1, X2, X3, X4, X5, nvccdvar_stack)
  BY <1>6
<1>. HIDE DEF E5
<1>8. E6 = Rec(X1, X2, X3, X4, X5, X6)
  BY <1>7
<1>. HIDE DEF E6
<1>9. /\ Raised.clause = X1 /\ Raised.total = X2 /\ Raised.avg = X3 /\ Raised.delta = X4
      /\ Raised.large = large_weight_clauses /\ Raised.score = X5 /\ Raised.stack = X6
      /\ Raised.fell = smoothed /\ Raised.at = 1
      /\ Raised = [clause |-> Raised.clause, total |-> Raised.total, avg |-> Raised.avg,
                   delta |-> Raised.delta, large |-> Raised.large, score |-> Raised.score,
                   stack |-> Raised.stack, fell |-> Raised.fell, at |-> Raised.at]
  BY <1>1, <1>8
<1>10. /\ X1 = [c \in ClauseId |-> clause_weight[c] + (IF c \in FalseClause THEN 1 ELSE 0)]
       /\ X2 = total_unsat_clause_weight + Len(unsat_stack.items)
       /\ X3 = IF Over THEN avg_clause_weight + 1 ELSE avg_clause_weight
       /\ X4 = IF Over THEN (delta_total_clause_weight + Len(unsat_stack.items)) - Len(clauses)
               ELSE delta_total_clause_weight + Len(unsat_stack.items)
       /\ X5 = [v \in Var |-> RaisedScore(v)]
       /\ X6 = StackUp(nvccdvar_stack, unsatvar_stack.items, PromisingBy([v \in Var |-> RaisedScore(v)]))
  BY <1>2 DEF X1, X2, X3, X4, X5, X6, DeltaLeft
<1>. QED BY <1>9, <1>10, Zenon

LEMMA WeightFields ==
  /\ Weights.clause = clause_weight /\ Weights.total = total_unsat_clause_weight
  /\ Weights.avg = avg_clause_weight /\ Weights.delta = delta_total_clause_weight
  /\ Weights.large = large_weight_clauses /\ Weights.score = score
  /\ Weights.stack = nvccdvar_stack /\ Weights.fell = smoothed /\ Weights.at = 1
BY DEF Weights

\* A weight record that is right but for its list of large weights.
LightRight(r) ==
  /\ r \in WeightRecord
  /\ Balanced(r.clause, r.avg, r.delta)
  /\ r.total = SumOver(FalseClauses(cur_soln), r.clause)
  /\ GainsHold(r.score, cur_soln, r.clause)
  /\ Flagging(r.stack, ToSet(r.stack.items))
  /\ Complete(r.score, nvcc_conf_change, r.stack, r.fell)

LEMMA RaisedSums ==
  ASSUME Stuck
  PROVE  /\ Raised.clause \in [ClauseId -> Nat \ {0}]
         /\ SumOver(ClauseId, Raised.clause) = SumOver(ClauseId, clause_weight) + Len(unsat_stack.items)
         /\ SumOver(FalseClauses(cur_soln), Raised.clause)
              = SumOver(FalseClauses(cur_soln), clause_weight) + Len(unsat_stack.items)
         /\ \A v \in Var : SumOver(ClauseId, GainAt(cur_soln, Raised.clause, v))
              = SumOver(ClauseId, GainAt(cur_soln, clause_weight, v))
                  + SumOver(ClausesOf(v) \cap FalseClauses(cur_soln), Ones)
<1>. DEFINE B == FalseClauses(cur_soln)
            n == Len(clauses)
            r == Raised.clause
            w == clause_weight
<1>1. ClausesInv(clauses) /\ w \in [ClauseId -> Nat \ {0}]
  BY WeightFields DEF Stuck, WeightsRight, WeightRecord
<1>2. /\ B \in SUBSET ClauseId /\ FalseClause = B /\ SumOver(B, Ones) = Len(unsat_stack.items)
  BY StuckStacks
<1>3. n \in Nat /\ ClauseId = 1 .. n
  BY <1>1, ClauseFacts
<1>4. r = [c \in ClauseId |-> w[c] + (IF c \in B THEN 1 ELSE 0)]
  BY <1>2, RaisedFields
<1>5. \A c \in 1 .. n : c \in B <=> TrueVars(cur_soln, c) = {}
  BY <1>3 DEF FalseClauses
<1>. HIDE DEF B, n, r, w
<1>6. r \in [ClauseId -> Nat \ {0}] /\ \A c \in 1 .. n : r[c] = IF c \in B THEN w[c] + 1 ELSE w[c]
  BY <1>1, <1>3, <1>4
<1>7. /\ r \in [1 .. n -> Int] /\ w \in [1 .. n -> Int] /\ Ones \in [1 .. n -> Int]
      /\ \A c \in 1 .. n : Ones[c] = 1
  BY <1>1, <1>3, <1>6 DEF Ones
<1>8. SumOver(ClauseId, r) = SumOver(ClauseId, w) + SumOver(B, Ones)
  <2>1. AddsUp(n, ClauseId, r, ClauseId, w, B, Ones)
    BY <1>3, <1>6, <1>7 DEF AddsUp, At
  <2>. QED BY <2>1, <1>3, SumLinear
<1>9. SumOver(B, r) = SumOver(B, w) + SumOver(B, Ones)
  <2>1. AddsUp(n, B, r, B, w, B, Ones)
    BY <1>3, <1>6, <1>7 DEF AddsUp, At
  <2>. QED BY <2>1, <1>3, SumLinear
<1>10. ASSUME NEW v \in Var
       PROVE  SumOver(ClauseId, GainAt(cur_soln, r, v))
                = SumOver(ClauseId, GainAt(cur_soln, w, v)) + SumOver(ClausesOf(v) \cap B, Ones)
  <2>. DEFINE f == GainAt(cur_soln, r, v)
              g == GainAt(cur_soln, w, v)
              K == ClausesOf(v) \cap B
  <2>1. f \in [1 .. n -> Int] /\ g \in [1 .. n -> Int]
    BY <1>1, <1>3, <1>6, <1>7, GainTypes
  <2>2. ASSUME NEW c \in 1 .. n PROVE f[c] = g[c] + (IF c \in K THEN 1 ELSE 0)
    <3>1. c \in ClauseId /\ w[c] \in Int /\ (c \in K <=> v \in VarsOf(c) /\ c \in B)
      BY <1>3, <1>7 DEF ClausesOf
    <3>2. CASE c \in B
      BY <3>1, <3>2, <1>5, <1>6 DEF GainAt
    <3>3. CASE c \notin B
      BY <3>1, <3>3, <1>5, <1>6 DEF GainAt
    <3>. QED BY <3>2, <3>3
  <2>. HIDE DEF f, g, K
  <2>3. AddsUp(n, ClauseId, f, ClauseId, g, K, Ones)
    BY <1>3, <1>7, <2>1, <2>2 DEF AddsUp, At
  <2>4. SumOver(ClauseId, f) = SumOver(ClauseId, g) + SumOver(K, Ones)
    BY <2>3, <1>3, SumLinear
  <2>. QED BY <2>4 DEF f, g, K
<1>. QED BY <1>2, <1>6, <1>8, <1>9, <1>10 DEF B, r, w

\* What goes on the stack keeps it complete.
LEMMA RaisedRight ==
  ASSUME Stuck
  PROVE  /\ LightRight(Raised)
         /\ ~Over => Raised.avg = avg_clause_weight
         /\ Over => Raised.avg = avg_clause_weight + 1
<1>. DEFINE B == FalseClauses(cur_soln)
            n == Len(clauses)
            m == Len(unsat_stack.items)
            gains == [v \in Var |-> RaisedScore(v)]
            P == PromisingBy(gains)
            vs == unsatvar_stack.items
            T == ToSet(nvccdvar_stack.items)
<1>1. /\ ClausesInv(clauses) /\ cur_soln \in TestCase
      /\ Weights \in WeightRecord
      /\ Balanced(clause_weight, avg_clause_weight, delta_total_clause_weight)
      /\ total_unsat_clause_weight = SumOver(B, clause_weight)
      /\ GainsHold(score, cur_soln, clause_weight)
      /\ Flagging(nvccdvar_stack, T)
      /\ Complete(score, nvcc_conf_change, nvccdvar_stack, smoothed)
  BY WeightFields DEF Stuck, WeightsRight
<1>2. /\ B \in SUBSET ClauseId /\ FalseClause = B /\ vs \in Seq(Var)
      /\ SumOver(B, Ones) = m /\ m \in 0 .. n /\ n \in Nat \ {0}
      /\ \A v \in Var :
           /\ SumOver(ClausesOf(v) \cap B, Ones) \in Nat
           /\ SumOver(ClausesOf(v) \cap B, Ones) = IF v \in ToSet(vs) THEN unsatvar_app_count[v] ELSE 0
  BY StuckStacks
<1>3. /\ avg_clause_weight \in Int /\ delta_total_clause_weight \in 0 .. n
      /\ SumOver(ClauseId, clause_weight) = avg_clause_weight * n + delta_total_clause_weight
      /\ total_unsat_clause_weight \in Int /\ smoothed \in BOOLEAN
      /\ large_weight_clauses \in Seq(ClauseId)
  BY <1>1, WeightFields DEF Balanced, WeightRecord
<1>. HIDE DEF B, n, m, P, vs, T
<1>4. Balanced(Raised.clause, Raised.avg, Raised.delta)
  <2>1. SumOver(ClauseId, Raised.clause) = avg_clause_weight * n + delta_total_clause_weight + m
    BY <1>3, RaisedSums DEF m
  <2>2. avg_clause_weight * n \in Int /\ (avg_clause_weight + 1) * n = avg_clause_weight * n + n
    BY <1>2, <1>3
  <2>3. Over <=> delta_total_clause_weight + m > n
    BY DEF Over, m, n
  <2>4. CASE Over
    <3>1. /\ Raised.avg = avg_clause_weight + 1 /\ Raised.delta = (delta_total_clause_weight + m) - n
      BY <2>4, RaisedFields DEF m, n
    <3>2. Raised.delta \in 0 .. n
      BY <3>1, <2>3, <2>4, <1>2, <1>3
    <3>3. SumOver(ClauseId, Raised.clause) = Raised.avg * n + Raised.delta
      BY <3>1, <2>1, <2>2, <1>2, <1>3
    <3>. QED BY <3>1, <3>2, <3>3, <1>3, RaisedSums DEF Balanced, n
  <2>5. CASE ~Over
    <3>1. /\ Raised.avg = avg_clause_weight /\ Raised.delta = delta_total_clause_weight + m
      BY <2>5, RaisedFields DEF m, n
    <3>2. Raised.delta \in 0 .. n
      BY <3>1, <2>3, <2>5, <1>2, <1>3
    <3>3. SumOver(ClauseId, Raised.clause) = Raised.avg * n + Raised.delta
      BY <3>1, <2>1, <2>2, <1>2, <1>3
    <3>. QED BY <3>1, <3>2, <3>3, <1>3, RaisedSums DEF Balanced, n
  <2>. QED BY <2>4, <2>5
<1>5. Raised.total = SumOver(B, Raised.clause)
  BY <1>1, RaisedFields, RaisedSums DEF B
<1>6. Raised.score = gains
  BY RaisedFields
<1>7. ASSUME NEW v \in Var
      PROVE  /\ gains[v] \in Int
             /\ gains[v] = SumOver(ClauseId, GainAt(cur_soln, Raised.clause, v))
             /\ v \notin ToSet(vs) => gains[v] = score[v]
  <2>1. score[v] \in Int /\ score[v] = SumOver(ClauseId, GainAt(cur_soln, clause_weight, v))
    BY <1>1 DEF GainsHold
  <2>2. gains[v] = score[v] + (IF v \in ToSet(vs) THEN unsatvar_app_count[v] ELSE 0)
    BY DEF RaisedScore, vs
  <2>3. SumOver(ClauseId, GainAt(cur_soln, Raised.clause, v))
          = SumOver(ClauseId, GainAt(cur_soln, clause_weight, v)) + SumOver(ClausesOf(v) \cap B, Ones)
    BY RaisedSums DEF B
  <2>. DEFINE k == SumOver(ClausesOf(v) \cap B, Ones)
  <2>4. k \in Nat /\ k = IF v \in ToSet(vs) THEN unsatvar_app_count[v] ELSE 0
    BY <1>2
  <2>. HIDE DEF gains, k
  <2>5. gains[v] = score[v] + k /\ (v \notin ToSet(vs) => k = 0)
    BY <2>2, <2>4
  <2>. QED BY <2>1, <2>3, <2>4, <2>5 DEF k
<1>8. GainsHold(Raised.score, cur_soln, Raised.clause)
  <2>1. gains \in [Var -> Int]
    BY <1>7
  <2>. HIDE DEF gains
  <2>. QED BY <2>1, <1>6, <1>7 DEF GainsHold
<1>9. Flagging(Raised.stack, T \cup (ToSet(vs) \cap P))
  <2>1. Raised.stack = StackUp(nvccdvar_stack, vs, P)
    BY RaisedFields DEF vs, P
  <2>. QED BY <2>1, <1>1, <1>2, StackedUp
<1>10. ToSet(Raised.stack.items) = T \cup (ToSet(vs) \cap P) /\ Raised.stack \in FlagRecord
  BY <1>9 DEF Flagging
<1>11. Complete(Raised.score, nvcc_conf_change, Raised.stack, Raised.fell)
  <2>. SUFFICES ASSUME ~smoothed, NEW v \in Var, gains[v] > 0, nvcc_conf_change[v] = 1
                PROVE  v \in T \cup (ToSet(vs) \cap P)
    BY <1>6, <1>10, RaisedFields DEF Complete
  <2>1. CASE v \in ToSet(vs)
    BY <2>1 DEF P, PromisingBy
  <2>2. CASE v \notin ToSet(vs)
    <3>1. score[v] > 0
      BY <2>2, <1>7
    <3>. QED BY <3>1, <1>1 DEF Complete, T
  <2>. QED BY <2>1, <2>2
<1>12. Raised \in WeightRecord
  <2>1. /\ Raised.clause \in [ClauseId -> Nat \ {0}] /\ Raised.avg \in Int /\ Raised.delta \in Int
    BY <1>4, <1>2 DEF Balanced, n
  <2>2. Raised.total \in Int
    BY <1>2, <1>3, RaisedFields DEF m
  <2>3. Raised.large \in Seq(ClauseId) /\ Raised.fell \in BOOLEAN /\ Raised.at \in Int
    BY <1>3, RaisedFields
  <2>4. Raised.score \in [Var -> Int]
    BY <1>8 DEF GainsHold
  <2>5. Raised = [clause |-> Raised.clause, total |-> Raised.total, avg |-> Raised.avg,
               delta |-> Raised.delta, large |-> Raised.large, score |-> Raised.score,
               stack |-> Raised.stack, fell |-> Raised.fell, at |-> Raised.at]
    BY RaisedFields
  <2>. QED BY <2>1, <2>2, <2>3, <2>4, <2>5, <1>10 DEF WeightRecord
<1>13. Flagging(Raised.stack, ToSet(Raised.stack.items))
  BY <1>9, <1>10
<1>. QED BY <1>4, <1>5, <1>8, <1>11, <1>12, <1>13, RaisedFields DEF LightRight, B

\* A third of a weight, rounded up, is the most that smoothing leaves of it.
LEMMA SmoothedWeight ==
  ASSUME NEW w \in Nat \ {0}
  PROVE  Smoothed(w) \in Nat \ {0} /\ 3 * Smoothed(w) <= w + 2
BY DEF Smoothed

\* A sum divided by the number of clauses.
LEMMA DividedSum ==
  ASSUME NEW n \in Nat \ {0}, NEW sum \in Nat
  PROVE  sum \div n \in Nat /\ sum % n \in 0 .. n - 1 /\ sum = (sum \div n) * n + (sum % n)
OBVIOUS

\* Smoothing brings the average back under the threshold.
LEMMA SmoothedAverage ==
  ASSUME NEW n \in Nat \ {0}, NEW t \in Nat \ {0}, NEW a \in Int, NEW d \in 0 .. n,
         NEW before \in Int, a <= t + 1, before = a * n + d,
         NEW sum \in Nat, 3 * sum <= before + 2 * n
  PROVE  sum \div n <= t
<1>. DEFINE q == sum \div n
            m == t * n
<1>1. q \in Nat /\ sum >= q * n /\ q * n \in Int
  BY DividedSum
<1>. HIDE DEF q
<1>2. SUFFICES ASSUME q >= t + 1 PROVE FALSE
  BY <1>1 DEF q
<1>3. m \in Int /\ m >= n
  OBVIOUS
<1>4. a * n <= m + n /\ a * n \in Int
  <2>1. a * n <= (t + 1) * n
    OBVIOUS
  <2>2. (t + 1) * n = m + n
    OBVIOUS
  <2>. QED BY <2>1, <2>2
<1>5. q * n >= m + n
  <2>1. q * n >= (t + 1) * n
    BY <1>1, <1>2
  <2>2. (t + 1) * n = m + n
    OBVIOUS
  <2>. QED BY <2>1, <2>2
<1>. HIDE DEF m
<1>6. 3 * sum >= 3 * m + 3 * n
  BY <1>1, <1>3, <1>5
<1>7. 3 * sum <= m + 4 * n
  BY <1>3, <1>4
<1>. QED BY <1>3, <1>6, <1>7

\* The weights that smoothing leaves, and their sum.
LEMMA SmoothedSum ==
  ASSUME ClausesInv(clauses), NEW w \in [ClauseId -> Nat \ {0}], NEW light,
         light = [c \in ClauseId |-> Smoothed(w[c])]
  PROVE  /\ light \in [ClauseId -> Nat \ {0}]
         /\ SumOver(ClauseId, light) \in Nat
         /\ 3 * SumOver(ClauseId, light) <= SumOver(ClauseId, w) + 2 * Len(clauses)
<1>. DEFINE n == Len(clauses)
            two == [c \in 1 .. n |-> 2 * light[c]]
            three == [c \in 1 .. n |-> 3 * light[c]]
            twos == [c \in 1 .. n |-> 2]
            more == [c \in 1 .. n |-> w[c] + 2]
            zero == [c \in 1 .. n |-> 0]
            sum == SumOver(ClauseId, light)
<1>1. n \in Nat /\ ClauseId = 1 .. n
  BY ClauseFacts
<1>. HIDE DEF n
<1>2. light \in [ClauseId -> Nat \ {0}] /\ \A c \in 1 .. n : 3 * light[c] <= w[c] + 2
  BY <1>1, SmoothedWeight
<1>3. light \in [1 .. n -> Int] /\ w \in [1 .. n -> Int] /\ Ones \in [1 .. n -> Int]
      /\ \A c \in 1 .. n : Ones[c] = 1 /\ light[c] >= 0
  BY <1>1, <1>2 DEF Ones
<1>4. /\ two \in [1 .. n -> Int] /\ three \in [1 .. n -> Int] /\ twos \in [1 .. n -> Int]
      /\ more \in [1 .. n -> Int] /\ zero \in [1 .. n -> Int]
      /\ \A c \in 1 .. n : /\ two[c] = light[c] + light[c] /\ three[c] = two[c] + light[c]
                           /\ twos[c] = Ones[c] + Ones[c] /\ more[c] = w[c] + twos[c]
                           /\ zero[c] = 0 /\ three[c] <= more[c] /\ zero[c] <= light[c]
  BY <1>2, <1>3
<1>. HIDE DEF two, three, twos, more, zero, sum
<1>5. SumOver(ClauseId, two) = SumOver(ClauseId, light) + SumOver(ClauseId, light)
  <2>1. AddsUp(n, ClauseId, two, ClauseId, light, ClauseId, light)
    BY <1>1, <1>3, <1>4 DEF AddsUp, At
  <2>. QED BY <2>1, <1>1, SumLinear
<1>6. SumOver(ClauseId, three) = SumOver(ClauseId, two) + SumOver(ClauseId, light)
  <2>1. AddsUp(n, ClauseId, three, ClauseId, two, ClauseId, light)
    BY <1>1, <1>3, <1>4 DEF AddsUp, At
  <2>. QED BY <2>1, <1>1, SumLinear
<1>7. SumOver(ClauseId, twos) = SumOver(ClauseId, Ones) + SumOver(ClauseId, Ones)
  <2>1. AddsUp(n, ClauseId, twos, ClauseId, Ones, ClauseId, Ones)
    BY <1>1, <1>3, <1>4 DEF AddsUp, At
  <2>. QED BY <2>1, <1>1, SumLinear
<1>8. SumOver(ClauseId, more) = SumOver(ClauseId, w) + SumOver(ClauseId, twos)
  <2>1. AddsUp(n, ClauseId, more, ClauseId, w, ClauseId, twos)
    BY <1>1, <1>3, <1>4 DEF AddsUp, At
  <2>. QED BY <2>1, <1>1, SumLinear
<1>9. SumOver(ClauseId, Ones) = n
  <2>1. Cardinality(1 .. n) = n
    BY <1>1, FS_Interval
  <2>2. SumOver(1 .. n, Ones) = Cardinality(1 .. n)
    BY <1>1, <1>3, SumCounts
  <2>. QED BY <2>1, <2>2, <1>1
<1>10. SumOver(ClauseId, three) <= SumOver(ClauseId, more)
  <2>1. NoMoreAt(n, ClauseId, three, ClauseId, more)
    BY <1>1, <1>4 DEF NoMoreAt, At
  <2>. QED BY <2>1, <1>1, <1>4, SumNoMore
<1>11. sum \in Int /\ SumOver(ClauseId, w) \in Int
  BY <1>1, <1>3, SumSteps DEF sum
<1>12. 0 <= sum
  <2>1. NothingAt(n, ClauseId, zero)
    BY <1>1, <1>4 DEF NothingAt, At
  <2>2. SumOver(ClauseId, zero) = 0
    BY <2>1, <1>1, <1>4, SumNothing
  <2>3. NoMoreAt(n, ClauseId, zero, ClauseId, light)
    BY <1>1, <1>4 DEF NoMoreAt, At
  <2>4. SumOver(ClauseId, zero) <= SumOver(ClauseId, light)
    BY <2>3, <1>1, <1>3, <1>4, SumNoMore
  <2>. QED BY <2>2, <2>4 DEF sum
<1>13. 3 * sum <= SumOver(ClauseId, w) + 2 * n
  BY <1>1, <1>5, <1>6, <1>7, <1>8, <1>9, <1>10, <1>11 DEF sum
<1>. QED BY <1>2, <1>11, <1>12, <1>13 DEF sum, n

\* The gains smooth_clause_weight_swt computes anew.
LEMMA SmoothedGains ==
  ASSUME ClausesInv(clauses), CountsHold(cur_soln, sat_count, sat_var),
         NEW light \in [ClauseId -> Int]
  PROVE  /\ {c \in ClauseId : sat_count[c] = 0} = FalseClauses(cur_soln)
         /\ GainsHold([v \in Var |->
                         SumOver({c \in ClausesOf(v) : sat_count[c] = 0}, light)
                           - SumOver({c \in ClauseId : sat_count[c] = 1 /\ sat_var[c] = v}, light)],
                      cur_soln, light)
<1>. DEFINE n == Len(clauses)
            Off(v) == {c \in ClausesOf(v) : sat_count[c] = 0}
            Sole(v) == {c \in ClauseId : sat_count[c] = 1 /\ sat_var[c] = v}
            g == [v \in Var |-> SumOver(Off(v), light) - SumOver(Sole(v), light)]
<1>1. n \in Nat /\ ClauseId = 1 .. n
  BY ClauseFacts
<1>2. ASSUME NEW c \in ClauseId
      PROVE  /\ sat_count[c] = 0 <=> TrueVars(cur_soln, c) = {}
             /\ sat_count[c] = 1 => TrueVars(cur_soln, c) = {sat_var[c]}
             /\ \A v : TrueVars(cur_soln, c) = {v} => sat_count[c] = 1
  <2>1. \A v : Cardinality({v}) = 1
    BY FS_Singleton
  <2>. QED BY <2>1, TrueFacts DEF CountsHold
<1>. HIDE DEF n
<1>3. ASSUME NEW v \in Var
      PROVE  /\ SumOver(Off(v), light) - SumOver(Sole(v), light) = SumOver(ClauseId, GainAt(cur_soln, light, v))
             /\ SumOver(Off(v), light) - SumOver(Sole(v), light) \in Int
  <2>. DEFINE f == GainAt(cur_soln, light, v)
  <2>1. light \in [1 .. n -> Int] /\ f \in [1 .. n -> Int]
    BY <1>1, GainTypes
  <2>2. ASSUME NEW c \in 1 .. n PROVE At(Off(v), light, c) = At(ClauseId, f, c) + At(Sole(v), light, c)
    <3>1. c \in ClauseId /\ light[c] \in Int /\ At(ClauseId, f, c) = f[c]
          /\ (v \in VarsOf(c) <=> c \in ClausesOf(v))
      BY <1>1, ClauseFacts DEF At
    <3>2. CASE TrueVars(cur_soln, c) = {}
      <4>1. f[c] = IF v \in VarsOf(c) THEN light[c] ELSE 0
        BY <3>1, <3>2 DEF GainAt
      <4>2. (c \in Off(v) <=> v \in VarsOf(c)) /\ c \notin Sole(v)
        BY <3>1, <3>2, <1>2
      <4>. HIDE DEF f, Off, Sole
      <4>. QED BY <3>1, <4>1, <4>2 DEF At
    <3>3. CASE TrueVars(cur_soln, c) = {v}
      <4>1. f[c] = -light[c]
        BY <3>1, <3>3 DEF GainAt
      <4>2. c \notin Off(v) /\ c \in Sole(v)
        BY <3>1, <3>3, <1>2
      <4>. HIDE DEF f, Off, Sole
      <4>. QED BY <3>1, <4>1, <4>2 DEF At
    <3>4. CASE TrueVars(cur_soln, c) # {} /\ TrueVars(cur_soln, c) # {v}
      <4>1. f[c] = 0
        BY <3>1, <3>4 DEF GainAt
      <4>2. c \notin Off(v) /\ c \notin Sole(v)
        BY <3>1, <3>4, <1>2
      <4>. HIDE DEF f, Off, Sole
      <4>. QED BY <3>1, <4>1, <4>2 DEF At
    <3>. QED BY <3>2, <3>3, <3>4
  <2>. HIDE DEF f, Off, Sole
  <2>3. AddsUp(n, Off(v), light, ClauseId, f, Sole(v), light)
    BY <2>1, <2>2 DEF AddsUp
  <2>4. SumOver(Off(v), light) = SumOver(ClauseId, f) + SumOver(Sole(v), light)
    BY <2>3, <1>1, SumLinear
  <2>5. SumOver(ClauseId, f) \in Int /\ SumOver(Sole(v), light) \in Int
    BY <2>1, <1>1, SumSteps
  <2>. QED BY <2>4, <2>5 DEF f
<1>4. {c \in ClauseId : sat_count[c] = 0} = FalseClauses(cur_soln)
  BY <1>2 DEF FalseClauses
<1>5. GainsHold(g, cur_soln, light)
  <2>. HIDE DEF Off, Sole
  <2>1. g \in [Var -> Int]
    BY <1>3
  <2>2. \A v \in Var : g[v] = SumOver(ClauseId, GainAt(cur_soln, light, v))
    BY <1>3
  <2>. HIDE DEF g
  <2>. QED BY <2>1, <2>2 DEF GainsHold
<1>. QED BY <1>4, <1>5

LEMMA SmoothedRight ==
  ASSUME Stuck, NEW r, LightRight(r), r.avg <= WeightThreshold + 1
  PROVE  LightRight(SmoothedFrom(r)) /\ SmoothedFrom(r).avg <= WeightThreshold
<1>. DEFINE B == FalseClauses(cur_soln)
            n == Len(clauses)
            light == [c \in ClauseId |-> Smoothed(r.clause[c])]
            sum == SumOver(ClauseId, light)
            u == SmoothedFrom(r)
            X2 == SumOver({c \in ClauseId : sat_count[c] = 0}, light)
            X3 == [v \in Var |->
                     SumOver({c \in ClausesOf(v) : sat_count[c] = 0}, light)
                       - SumOver({c \in ClauseId : sat_count[c] = 1 /\ sat_var[c] = v}, light)]
            X4 == sum \div n
            X5 == sum % n
            Rec(x1, x2, x3, x4, x5, x6) ==
              [clause |-> x1, total |-> x2, avg |-> x4, delta |-> x5, large |-> r.large,
               score |-> x3, stack |-> r.stack, fell |-> x6, at |-> r.at]
            E1 == [r EXCEPT !.clause = light]
            E2 == [E1 EXCEPT !.total = X2]
            E3 == [E2 EXCEPT !.score = X3]
            E4 == [E3 EXCEPT !.avg = X4]
            E5 == [E4 EXCEPT !.delta = X5]
            E6 == [E5 EXCEPT !.fell = TRUE]
<1>1. /\ ClausesInv(clauses) /\ n \in Nat \ {0} /\ ClauseId = 1 .. n
      /\ CountsHold(cur_soln, sat_count, sat_var)
  BY StuckStacks, ClauseFacts DEF Stuck
<1>2. /\ r \in WeightRecord /\ r.clause \in [ClauseId -> Nat \ {0}] /\ r.avg \in Int
      /\ r.delta \in 0 .. n /\ SumOver(ClauseId, r.clause) = r.avg * n + r.delta
      /\ Flagging(r.stack, ToSet(r.stack.items))
  BY DEF LightRight, Balanced
<1>3. u = E6
  BY Zenon DEF SmoothedFrom
<1>4. r = Rec(r.clause, r.total, r.score, r.avg, r.delta, r.fell)
      /\ r.large \in Seq(ClauseId) /\ r.stack \in FlagRecord /\ r.at \in Int
  BY <1>2 DEF WeightRecord
<1>5. /\ light \in [ClauseId -> Nat \ {0}] /\ sum \in Nat
      /\ 3 * sum <= SumOver(ClauseId, r.clause) + 2 * n
  <2>1. light = [c \in ClauseId |-> Smoothed(r.clause[c])]
    OBVIOUS
  <2>. HIDE DEF light
  <2>. QED BY <2>1, <1>1, <1>2, SmoothedSum
<1>6. X2 = SumOver(B, light) /\ GainsHold(X3, cur_soln, light)
  <2>1. light \in [ClauseId -> Int]
    BY <1>5
  <2>. HIDE DEF light
  <2>. QED BY <2>1, <1>1, SmoothedGains, Zenon
<1>. HIDE DEF B, n, light, u, X2, X3
<1>7. sum = X4 * n + X5 /\ X4 \in Nat /\ X5 \in 0 .. n - 1
  <2>. HIDE DEF sum
  <2>. QED BY <1>1, <1>5, DividedSum
<1>8. X4 <= WeightThreshold
  <2>. DEFINE before == SumOver(ClauseId, r.clause)
  <2>1. before = r.avg * n + r.delta /\ before \in Int /\ WeightThreshold \in Nat \ {0}
    BY <1>1, <1>2, SearchAssumption
  <2>. HIDE DEF sum, before
  <2>2. 3 * sum <= before + 2 * n
    BY <1>5 DEF before
  <2>. QED BY <2>1, <2>2, <1>1, <1>2, <1>5, SmoothedAverage
<1>9. X2 \in Int
  <2>1. light \in [1 .. n -> Int]
    BY <1>1, <1>5
  <2>. QED BY <2>1, <1>1, <1>6, SumSteps
<1>. HIDE DEF X4, X5
<1>10. E1 = Rec(light, r.total, r.score, r.avg, r.delta, r.fell)
  BY <1>4
<1>. HIDE DEF E1
<1>11. E2 = Rec(light, X2, r.score, r.avg, r.delta, r.fell)
  BY <1>10
<1>. HIDE DEF E2
<1>12. E3 = Rec(light, X2, X3, r.avg, r.delta, r.fell)
  BY <1>11
<1>. HIDE DEF E3
<1>13. E4 = Rec(light, X2, X3, X4, r.delta, r.fell)
  BY <1>12
<1>. HIDE DEF E4
<1>14. E5 = Rec(light, X2, X3, X4, X5, r.fell)
  BY <1>13
<1>. HIDE DEF E5
<1>15. u = Rec(light, X2, X3, X4, X5, TRUE)
  BY <1>3, <1>14
<1>16. /\ u.clause = light /\ u.total = X2 /\ u.score = X3 /\ u.avg = X4 /\ u.delta = X5
       /\ u.fell = TRUE /\ u.stack = r.stack
  BY <1>15
<1>17. u \in WeightRecord
  <2>1. X3 \in [Var -> Int]
    BY <1>6 DEF GainsHold
  <2>2. X5 \in Int /\ X4 \in Int
    BY <1>7, <1>1
  <2>. QED BY <2>1, <2>2, <1>4, <1>5, <1>9, <1>15 DEF WeightRecord
<1>18. Balanced(u.clause, u.avg, u.delta)
  <2>1. X5 \in 0 .. n /\ X4 \in Int
    BY <1>1, <1>7
  <2>. QED BY <2>1, <1>5, <1>7, <1>16 DEF Balanced, n, sum
<1>19. Complete(u.score, nvcc_conf_change, u.stack, u.fell)
  BY <1>16 DEF Complete
<1>. QED BY <1>2, <1>6, <1>8, <1>16, <1>17, <1>18, <1>19 DEF LightRight, B, u

\* The last item takes the place of item k.
LEMMA LargeLeftItems ==
  ASSUME NEW X, NEW s \in Seq(X), Distinct(s), NEW k \in 1 .. Len(s)
  PROVE  /\ LargeLeft(s, k) \in Seq(X) /\ Len(LargeLeft(s, k)) = Len(s) - 1
         /\ Distinct(LargeLeft(s, k)) /\ ToSet(LargeLeft(s, k)) = ToSet(s) \ {s[k]}
<1>. DEFINE n == Len(s)
            x == s[k]
            l == s[n]
            e == [s EXCEPT ![k] = l]
            u == LargeLeft(s, k)
            H == ToSet(s)
<1>1. n \in Nat /\ DOMAIN s = 1 .. n /\ k \in 1 .. n
  OBVIOUS
<1>2. /\ n \in 1 .. n /\ l \in X /\ x \in X
      /\ \A i, j \in 1 .. n : s[i] = s[j] => i = j
      /\ \A j \in 1 .. n : s[j] \in H
      /\ \A y \in H : \E j \in 1 .. n : s[j] = y
  BY <1>1 DEF Distinct, ToSet
<1>3. e \in Seq(X) /\ Len(e) = n /\ \A j \in 1 .. n : e[j] = IF j = k THEN l ELSE s[j]
  BY <1>1, <1>2
<1>4. u = SubSeq(e, 1, n - 1)
  BY DEF LargeLeft, Last
<1>. HIDE DEF e, u, n, H, l, x
<1>5. /\ u \in Seq(X) /\ Len(u) = n - 1 /\ n - 1 \in Nat
      /\ \A j \in 1 .. n - 1 : u[j] = IF j = k THEN l ELSE s[j]
  BY <1>1, <1>2, <1>3, <1>4
<1>6. DOMAIN u = 1 .. n - 1
  BY <1>5
<1>7. Distinct(u)
  <2>. SUFFICES ASSUME NEW i \in 1 .. n - 1, NEW j \in 1 .. n - 1, u[i] = u[j]
                PROVE  i = j
    BY <1>6 DEF Distinct
  <2>. DEFINE at(m) == IF m = k THEN n ELSE m
  <2>1. u[i] = s[at(i)] /\ u[j] = s[at(j)]
    BY <1>5 DEF l
  <2>2. at(i) \in 1 .. n /\ at(j) \in 1 .. n
    BY <1>1, <1>2
  <2>3. at(i) = at(j)
    BY <1>2, <2>1, <2>2
  <2>4. i # n /\ j # n
    BY <1>5
  <2>. QED BY <2>3, <2>4
<1>8. ToSet(u) = H \ {x}
  <2>1. ASSUME NEW j \in 1 .. n - 1 PROVE u[j] \in H \ {x}
    <3>1. j \in 1 .. n /\ j # n
      BY <1>1
    <3>2. CASE j = k
      <4>1. k # n
        BY <3>1, <3>2
      <4>. QED BY <4>1, <3>2, <1>1, <1>2, <1>5 DEF l, x
    <3>3. CASE j # k
      BY <3>1, <3>3, <1>1, <1>2, <1>5 DEF x
    <3>. QED BY <3>2, <3>3
  <2>2. ASSUME NEW y \in H \ {x} PROVE \E j \in 1 .. n - 1 : u[j] = y
    <3>1. PICK i \in 1 .. n : s[i] = y
      BY <1>2
    <3>2. i # k
      BY <3>1 DEF x
    <3>3. CASE i = n
      <4>1. k \in 1 .. n - 1
        BY <3>2, <3>3, <1>1
      <4>. QED BY <4>1, <3>1, <3>3, <1>5 DEF l
    <3>4. CASE i # n
      <4>1. i \in 1 .. n - 1
        BY <3>4, <1>1
      <4>. QED BY <4>1, <3>1, <3>2, <1>5
    <3>. QED BY <3>3, <3>4
  <2>. QED BY <2>1, <2>2, <1>6 DEF ToSet
<1>. QED BY <1>5, <1>7, <1>8 DEF u, n, H, x

\* After k steps of dec_clause_weight_paws: t is right, and its position and
\* what left the list account for the steps.
Lowering(t, k) ==
  /\ t \in WeightRecord
  /\ Balanced(t.clause, t.avg, t.delta)
  /\ t.total = SumOver(FalseClauses(cur_soln), t.clause)
  /\ GainsHold(t.score, cur_soln, t.clause)
  /\ Listed(t.large, t.clause)
  /\ t.stack = nvccdvar_stack
  /\ t.at >= 1 /\ t.at + Len(large_weight_clauses) = (k + 1) + Len(t.large)

\* Clause c weighs one less.
LighterAt(w, c, u) == u = [w EXCEPT ![c] = w[c] - 1]

LEMMA LighterSums ==
  ASSUME Stuck, NEW w \in [ClauseId -> Nat \ {0}], NEW c \in ClauseId, w[c] > 1, sat_count[c] # 0,
         NEW u, LighterAt(w, c, u), NEW g, GainsHold(g, cur_soln, w)
  PROVE  /\ u \in [ClauseId -> Nat \ {0}]
         /\ SumOver(ClauseId, u) = SumOver(ClauseId, w) - 1 /\ SumOver(ClauseId, w) \in Int
         /\ SumOver(FalseClauses(cur_soln), u) = SumOver(FalseClauses(cur_soln), w)
         /\ GainsHold([v \in Var |-> g[v] + (IF sat_count[c] = 1 /\ sat_var[c] = v THEN 1 ELSE 0)],
                      cur_soln, u)
<1>. DEFINE n == Len(clauses)
            B == FalseClauses(cur_soln)
            h == [v \in Var |-> g[v] + (IF sat_count[c] = 1 /\ sat_var[c] = v THEN 1 ELSE 0)]
<1>1. ClausesInv(clauses) /\ CountsHold(cur_soln, sat_count, sat_var)
  BY DEF Stuck
<1>2. n \in Nat /\ ClauseId = 1 .. n
  BY <1>1, ClauseFacts
<1>. HIDE DEF n
<1>3. /\ u \in [ClauseId -> Nat \ {0}] /\ \A d \in 1 .. n : u[d] = IF d = c THEN w[d] - 1 ELSE w[d]
      /\ u \in [1 .. n -> Int] /\ w \in [1 .. n -> Int] /\ c \in 1 .. n
  BY <1>2 DEF LighterAt
<1>4. Ones \in [1 .. n -> Int] /\ \A d \in 1 .. n : Ones[d] = 1
  BY <1>2 DEF Ones
<1>5. SumOver({c}, Ones) = 1
  BY <1>2, <1>3, <1>4, SumOne
<1>6. SumOver(ClauseId, u) = SumOver(ClauseId, w) - 1 /\ SumOver(ClauseId, w) \in Int
  <2>1. AddsUp(n, ClauseId, w, ClauseId, u, {c}, Ones)
    BY <1>2, <1>3, <1>4 DEF AddsUp, At
  <2>2. SumOver(ClauseId, w) = SumOver(ClauseId, u) + SumOver({c}, Ones)
    BY <2>1, <1>2, SumLinear
  <2>3. SumOver(ClauseId, w) \in Int /\ SumOver(ClauseId, u) \in Int
    BY <1>2, <1>3, SumSteps
  <2>. QED BY <2>2, <2>3, <1>5
<1>7. TrueVars(cur_soln, c) # {} /\ \A v : TrueVars(cur_soln, c) = {v} <=> sat_count[c] = 1 /\ sat_var[c] = v
  <2>1. \A v : Cardinality({v}) = 1
    BY FS_Singleton
  <2>. QED BY <2>1, <1>1, TrueFacts, ZenonT(40) DEF CountsHold
<1>8. SumOver(B, u) = SumOver(B, w)
  <2>1. c \notin B
    BY <1>7 DEF FalseClauses
  <2>. HIDE DEF B
  <2>2. SameAt(n, B, u, B, w)
    BY <2>1, <1>3 DEF SameAt, At
  <2>3. n \in Nat /\ u \in [1 .. n -> Int] /\ w \in [1 .. n -> Int]
    BY <1>2, <1>3
  <2>. QED BY <2>2, <2>3, SumSame
<1>9. ASSUME NEW v \in Var
      PROVE  /\ SumOver(ClauseId, GainAt(cur_soln, u, v))
                  = SumOver(ClauseId, GainAt(cur_soln, w, v))
                      + (IF sat_count[c] = 1 /\ sat_var[c] = v THEN 1 ELSE 0)
             /\ SumOver(ClauseId, GainAt(cur_soln, w, v)) \in Int
  <2>. DEFINE a == GainAt(cur_soln, u, v)
              b == GainAt(cur_soln, w, v)
              D == {d \in {c} : sat_count[d] = 1 /\ sat_var[d] = v}
  <2>1. a \in [1 .. n -> Int] /\ b \in [1 .. n -> Int]
    BY <1>2, <1>3, GainTypes
  <2>2. ASSUME NEW d \in 1 .. n PROVE a[d] = b[d] + (IF d \in D THEN 1 ELSE 0)
    <3>1. d \in ClauseId /\ w[d] \in Int /\ u[d] \in Int
      BY <1>2, <1>3
    <3>2. CASE d = c
      <4>1. TrueVars(cur_soln, d) # {} /\ (TrueVars(cur_soln, d) = {v} <=> d \in D)
        BY <3>2, <1>7
      <4>2. u[d] = w[d] - 1
        BY <3>2, <1>3
      <4>. HIDE DEF D
      <4>. QED BY <4>1, <4>2, <3>1 DEF GainAt
    <3>3. CASE d # c
      BY <3>1, <3>3, <1>3 DEF GainAt
    <3>. QED BY <3>2, <3>3
  <2>. HIDE DEF a, b
  <2>3. SumOver(D, Ones) = IF sat_count[c] = 1 /\ sat_var[c] = v THEN 1 ELSE 0
    <3>1. CASE sat_count[c] = 1 /\ sat_var[c] = v
      <4>1. D = {c}
        BY <3>1
      <4>. QED BY <4>1, <3>1, <1>5
    <3>2. CASE ~(sat_count[c] = 1 /\ sat_var[c] = v)
      <4>1. D = {}
        BY <3>2
      <4>2. NothingAt(n, {}, Ones)
        BY DEF NothingAt, At
      <4>3. SumOver({}, Ones) = 0
        BY <4>2, <1>2, <1>4, SumNothing
      <4>. HIDE DEF D
      <4>. QED BY <4>1, <4>3, <3>2
    <3>. QED BY <3>1, <3>2
  <2>. HIDE DEF D
  <2>4. AddsUp(n, ClauseId, a, ClauseId, b, D, Ones)
    BY <1>2, <1>4, <2>1, <2>2 DEF AddsUp, At
  <2>5. SumOver(ClauseId, a) = SumOver(ClauseId, b) + SumOver(D, Ones)
    BY <2>4, <1>2, SumLinear
  <2>6. SumOver(ClauseId, b) \in Int
    BY <2>1, <1>2, SumSteps
  <2>. QED BY <2>3, <2>5, <2>6 DEF a, b
<1>10. GainsHold(h, cur_soln, u)
  <2>1. ASSUME NEW v \in Var PROVE h[v] \in Int /\ h[v] = SumOver(ClauseId, GainAt(cur_soln, u, v))
    <3>1. g[v] = SumOver(ClauseId, GainAt(cur_soln, w, v))
      BY DEF GainsHold
    <3>2. h[v] = g[v] + (IF sat_count[c] = 1 /\ sat_var[c] = v THEN 1 ELSE 0)
      OBVIOUS
    <3>. HIDE DEF h
    <3>. QED BY <3>1, <3>2, <1>9
  <2>2. h \in [Var -> Int]
    BY <2>1
  <2>. HIDE DEF h
  <2>. QED BY <2>1, <2>2 DEF GainsHold
<1>. QED BY <1>3, <1>6, <1>8, <1>10 DEF B

LEMMA LoweredStep ==
  ASSUME Stuck, NEW k \in 1 .. Len(large_weight_clauses), NEW t, Lowering(t, k - 1)
  PROVE  Lowering(LoweredAt(t), k)
<1>. DEFINE B == FalseClauses(cur_soln)
            n == Len(clauses)
            all == Len(large_weight_clauses)
            c == t.large[t.at]
            w == IF t.clause[c] > 1 THEN t.clause[c] - 1 ELSE 1
            delta == t.delta - (t.clause[c] - w)
            u == LoweredAt(t)
            X1 == [t.clause EXCEPT ![c] = w]
            X2 == IF delta < 0 THEN delta + n ELSE delta
            X3 == IF delta < 0 THEN t.avg - 1 ELSE t.avg
            X4 == IF w = 1 THEN LargeLeft(t.large, t.at) ELSE t.large
            X5 == IF w = 1 THEN t.at ELSE t.at + 1
            X6 == [v \in Var |-> t.score[v] + (IF sat_count[c] = 1 /\ sat_var[c] = v THEN 1 ELSE 0)]
            Rec(x1, x2, x3, x4, x5, x6) ==
              [clause |-> x1, total |-> t.total, avg |-> x3, delta |-> x2, large |-> x4,
               score |-> x6, stack |-> t.stack, fell |-> t.fell, at |-> x5]
            E1 == [t EXCEPT !.clause[c] = w]
            E2 == [E1 EXCEPT !.delta = X2]
            E3 == [E2 EXCEPT !.avg = X3]
            E4 == [E3 EXCEPT !.large = X4]
            E5 == [E4 EXCEPT !.at = X5]
            E6 == [E5 EXCEPT !.score = X6]
<1>1. /\ n \in Nat \ {0} /\ ClauseId = 1 .. n
      /\ all \in Nat
  <2>1. large_weight_clauses \in Seq(ClauseId)
    BY WeightFields DEF Stuck, WeightsRight, WeightRecord
  <2>2. ClausesInv(clauses)
    BY DEF Stuck
  <2>. QED BY <2>1, <2>2, StuckStacks, ClauseFacts
<1>2. /\ t \in WeightRecord /\ Balanced(t.clause, t.avg, t.delta)
      /\ t.total = SumOver(B, t.clause) /\ GainsHold(t.score, cur_soln, t.clause)
      /\ Listed(t.large, t.clause) /\ t.stack = nvccdvar_stack
      /\ t.at >= 1 /\ t.at + all = ((k - 1) + 1) + Len(t.large)
  BY DEF Lowering
<1>3. /\ t = Rec(t.clause, t.delta, t.avg, t.large, t.at, t.score)
      /\ t.clause \in [ClauseId -> Nat \ {0}] /\ t.total \in Int /\ t.avg \in Int /\ t.delta \in 0 .. n
      /\ t.large \in Seq(ClauseId) /\ t.score \in [Var -> Int] /\ t.stack \in FlagRecord
      /\ t.fell \in BOOLEAN /\ t.at \in Int
      /\ SumOver(ClauseId, t.clause) = t.avg * n + t.delta
      /\ Distinct(t.large) /\ ToSet(t.large) = {d \in ClauseId : t.clause[d] > 1}
  BY <1>2 DEF WeightRecord, Balanced, Listed
<1>. DEFINE ln == Len(t.large)
            at == t.at
<1>4. /\ at \in 1 .. ln /\ ln \in Nat /\ DOMAIN t.large = 1 .. ln
      /\ at + all = k + ln /\ k \in Nat /\ at \in Nat
  <2>1. ln \in Nat /\ DOMAIN t.large = 1 .. ln /\ at \in Int
    BY <1>3
  <2>2. at >= 1 /\ at + all = ((k - 1) + 1) + ln
    BY <1>2
  <2>. HIDE DEF ln, at
  <2>3. k <= all /\ k \in Nat
    BY <1>1
  <2>4. at + all = k + ln
    BY <2>1, <2>2, <2>3, <1>1
  <2>. HIDE DEF all
  <2>5. at <= ln /\ at \in Nat
    BY <2>1, <2>2, <2>3, <2>4, <1>1
  <2>. QED BY <2>1, <2>2, <2>3, <2>4, <2>5
<1>8. t = Rec(t.clause, t.delta, t.avg, t.large, t.at, t.score)
  BY <1>3
<1>5. c \in ClauseId /\ t.clause[c] > 1 /\ c \in ToSet(t.large)
  <2>1. c \in ToSet(t.large)
    BY <1>4 DEF ToSet
  <2>. HIDE DEF c
  <2>. QED BY <2>1, <1>3
<1>6. CASE sat_count[c] = 0
  <2>1. u = [t EXCEPT !.at = @ + 1]
    BY <1>6 DEF LoweredAt
  <2>2. u = Rec(t.clause, t.delta, t.avg, t.large, t.at + 1, t.score)
    BY <2>1, <1>3
  <2>. HIDE DEF u
  <2>3. /\ u.clause = t.clause /\ u.delta = t.delta /\ u.avg = t.avg /\ u.large = t.large
        /\ u.score = t.score /\ u.at = t.at + 1 /\ u.total = t.total /\ u.stack = t.stack
    BY <2>2
  <2>4. t.at + 1 \in Int /\ t.delta \in Int
    BY <1>1, <1>3
  <2>5. u \in WeightRecord
    BY <2>2, <2>4, <1>3 DEF WeightRecord
  <2>6. u.at >= 1 /\ u.at + all = (k + 1) + Len(u.large)
    <3>1. u.at = at + 1 /\ Len(u.large) = ln
      BY <2>3
    <3>. HIDE DEF at, ln, all
    <3>. QED BY <3>1, <1>1, <1>4
  <2>. QED BY <2>3, <2>5, <2>6, <1>2 DEF Lowering, u, B, all
<1>7. CASE sat_count[c] # 0
  <2>1. u = E6
    BY <1>7, Zenon DEF LoweredAt
  <2>2. w = t.clause[c] - 1 /\ w \in Nat \ {0} /\ delta = t.delta - 1
    BY <1>3, <1>5, SMTT(30)
  <2>3. LighterAt(t.clause, c, X1)
    BY <2>2 DEF LighterAt
  <2>4. /\ X1 \in [ClauseId -> Nat \ {0}]
        /\ SumOver(ClauseId, X1) = SumOver(ClauseId, t.clause) - 1 /\ SumOver(ClauseId, t.clause) \in Int
        /\ SumOver(B, X1) = SumOver(B, t.clause)
        /\ GainsHold(X6, cur_soln, X1)
    <3>. HIDE DEF X1, c
    <3>. QED BY <2>3, <1>2, <1>3, <1>5, <1>7, LighterSums
  <2>5. \A d \in ClauseId : X1[d] = IF d = c THEN w ELSE t.clause[d]
    BY <1>3, <1>5
  <2>. HIDE DEF B, n, all, c, w, delta, u, X1
  <2>6. /\ X2 \in 0 .. n /\ X3 \in Int /\ SumOver(ClauseId, X1) = X3 * n + X2
    <3>. DEFINE td == t.delta
                ta == t.avg
                p  == ta * n
                S  == SumOver(ClauseId, X1)
    <3>1. /\ td \in Nat /\ td <= n /\ n \in Nat /\ n >= 1 /\ ta \in Int /\ delta = td - 1
          /\ S = (p + td) - 1
      BY <2>2, <2>4, <1>1, <1>3
    <3>. HIDE DEF td
    <3>2. X3 = IF delta < 0 THEN ta - 1 ELSE ta
      OBVIOUS
    <3>. HIDE DEF ta, S, X3
    <3>3. p \in Int /\ (ta - 1) * n = p - n
      BY <3>1
    <3>. HIDE DEF p
    <3>4. X2 \in 0 .. n /\ X3 \in Int /\ S = X3 * n + X2
      <4>1. CASE td = 0
        <5>1. X2 = n - 1 /\ X3 = ta - 1
          BY <4>1, <3>1, <3>2
        <5>. HIDE DEF X2
        <5>. QED BY <5>1, <4>1, <3>1, <3>3
      <4>2. CASE td # 0
        <5>1. X2 = td - 1 /\ X3 = ta
          BY <4>2, <3>1, <3>2
        <5>. HIDE DEF X2
        <5>. QED BY <5>1, <4>2, <3>1, <3>3 DEF p
      <4>. QED BY <4>1, <4>2
    <3>. QED BY <3>4 DEF S
  <2>7. /\ X4 \in Seq(ClauseId) /\ Distinct(X4) /\ ToSet(X4) = {d \in ClauseId : X1[d] > 1}
        /\ X5 \in Int /\ X5 >= 1 /\ X5 + all = (k + 1) + Len(X4)
    <3>2. CASE w = 1
      <4>. DEFINE L == LargeLeft(t.large, t.at)
      <4>1. /\ L \in Seq(ClauseId) /\ Len(L) = Len(t.large) - 1
            /\ Distinct(L) /\ ToSet(L) = ToSet(t.large) \ {c}
        BY <1>3, <1>4, LargeLeftItems, SMTT(30) DEF c
      <4>2. X4 = L /\ X5 = t.at
        BY <3>2
      <4>. HIDE DEF L, X4, X5
      <4>3. ToSet(L) = {d \in ClauseId : X1[d] > 1}
        BY <4>1, <2>5, <3>2, <1>3
      <4>4. Len(L) = ln - 1
        BY <4>1
      <4>. HIDE DEF at, ln
      <4>5. X5 = at
        BY <4>2 DEF at
      <4>6. X5 \in Int /\ X5 >= 1 /\ X5 + all = (k + 1) + Len(L)
        BY <4>4, <4>5, <1>1, <1>4
      <4>. QED BY <4>1, <4>2, <4>3, <4>6
    <3>3. CASE w # 1
      <4>1. X4 = t.large /\ X5 = t.at + 1
        BY <3>3
      <4>. HIDE DEF X4, X5
      <4>2. ToSet(t.large) = {d \in ClauseId : X1[d] > 1}
        <5>1. X1[c] = w /\ w > 1
          <6>1. X1[c] = w
            BY <2>5, <1>5
          <6>2. w \in Nat \ {0} /\ w # 1
            BY <2>2, <3>3
          <6>. QED BY <6>1, <6>2
        <5>2. ASSUME NEW d \in ClauseId PROVE t.clause[d] > 1 <=> X1[d] > 1
          <6>1. CASE d = c
            BY <6>1, <5>1, <1>5
          <6>2. CASE d # c
            BY <6>2, <2>5
          <6>. QED BY <6>1, <6>2
        <5>. QED BY <5>2, <1>3
      <4>. HIDE DEF at, ln
      <4>3. X5 = at + 1 /\ Len(X4) = ln
        BY <4>1 DEF at, ln
      <4>4. X5 \in Int /\ X5 >= 1 /\ X5 + all = (k + 1) + Len(X4)
        BY <4>3, <1>1, <1>4
      <4>. QED BY <4>1, <4>2, <4>4, <1>3
    <3>. QED BY <3>2, <3>3
  <2>. HIDE DEF X2, X3, X4, X5, X6
  <2>8. E1 = Rec(X1, t.delta, t.avg, t.large, t.at, t.score)
    BY <1>8 DEF X1
  <2>. HIDE DEF E1
  <2>9. E2 = Rec(X1, X2, t.avg, t.large, t.at, t.score)
    BY <2>8
  <2>. HIDE DEF E2
  <2>10. E3 = Rec(X1, X2, X3, t.large, t.at, t.score)
    BY <2>9
  <2>. HIDE DEF E3
  <2>11. E4 = Rec(X1, X2, X3, X4, t.at, t.score)
    BY <2>10
  <2>. HIDE DEF E4
  <2>12. E5 = Rec(X1, X2, X3, X4, X5, t.score)
    BY <2>11
  <2>. HIDE DEF E5
  <2>13. u = Rec(X1, X2, X3, X4, X5, X6)
    BY <2>1, <2>12
  <2>. HIDE DEF E6
  <2>14. /\ u.clause = X1 /\ u.delta = X2 /\ u.avg = X3 /\ u.large = X4
         /\ u.score = X6 /\ u.at = X5 /\ u.total = t.total /\ u.stack = t.stack
    BY <2>13
  <2>15. u \in WeightRecord
    <3>1. X2 \in Int /\ X6 \in [Var -> Int]
      BY <2>4, <2>6, <1>1 DEF GainsHold
    <3>. QED BY <3>1, <2>4, <2>6, <2>7, <2>13, <1>3 DEF WeightRecord
  <2>16. Balanced(u.clause, u.avg, u.delta)
    BY <2>4, <2>6, <2>14 DEF Balanced, n
  <2>17. Listed(u.large, u.clause)
    BY <2>7, <2>14 DEF Listed
  <2>. QED BY <2>4, <2>7, <2>14, <2>15, <2>16, <2>17, <1>2 DEF Lowering, B, all, u
<1>. QED BY <1>6, <1>7

\* dec_clause_weight_paws
LEMMA LoweredRight ==
  ASSUME Stuck, settings.weights = "paws"
  PROVE  WeightsRight(Lowered)
<1>. DEFINE n == Len(large_weight_clauses)
            Op(t, k) == LoweredAt(t)
            IsF(f) == f = [k \in 0 .. n |-> IF k = 0 THEN Weights ELSE Op(f[k - 1], k)]
            G == [k \in 0 .. n |-> {t \in WeightRecord : Lowering(t, k)}]
            F == [k \in 1 .. n |-> [t \in G[k - 1] |-> Op(t, k)]]
<1>1. n \in Nat
  BY WeightFields DEF Stuck, WeightsRight, WeightRecord
<1>2. \A k \in 1 .. n : \A t : Lowering(t, k - 1) => Lowering(LoweredAt(t), k)
  BY LoweredStep
<1>. HIDE DEF n
<1>a. Weights \in G[0]
  <2>1. WeightsRight(Weights)
    BY DEF Stuck
  <2>2. Lowering(Weights, 0)
    <3>1. Weights.at + n = (0 + 1) + Len(Weights.large) /\ Weights.at >= 1
      BY <1>1, WeightFields DEF n
    <3>. QED BY <2>1, <3>1, WeightFields DEF WeightsRight, Lowering, n
  <2>3. Weights \in WeightRecord
    BY <2>1 DEF WeightsRight
  <2>. QED BY <2>2, <2>3, <1>1
<1>b. ASSUME NEW k \in 1 .. n, NEW t \in G[k - 1] PROVE Op(t, k) \in G[k]
  <2>1. Lowering(t, k - 1)
    BY <1>1
  <2>2. Lowering(LoweredAt(t), k)
    BY <2>1, <1>2
  <2>3. LoweredAt(t) \in WeightRecord
    BY <2>2 DEF Lowering
  <2>. QED BY <2>2, <2>3, <1>1
<1>. HIDE DEF Op, G
<1>3. \E f : IsF(f)
  <2>1. StepsIn(n, G, Weights, F)
    BY <1>a, <1>b DEF StepsIn
  <2>. HIDE DEF F
  <2>2. PICK f : RunsIn(n, G, Weights, F, f)
    BY <1>1, <2>1, Iteration
  <2>3. \A k \in 1 .. n : f[k - 1] \in G[k - 1]
    BY <2>2, <1>1 DEF RunsIn
  <2>4. \A k \in 1 .. n : F[k][f[k - 1]] = Op(f[k - 1], k)
    BY <2>3 DEF F
  <2>5. f = [k \in 0 .. n |-> IF k = 0 THEN Weights ELSE Op(f[k - 1], k)]
    BY <2>2, <2>4, <1>1 DEF RunsIn
  <2>. QED BY <2>5
<1>. DEFINE f == CHOOSE f : IsF(f)
<1>4. IsF(f)
  BY <1>3, Zenon
<1>. DEFINE sole(t) == Filtered(t.large, {c \in ClauseId : sat_count[c] = 1})
            vs(t) == [k \in DOMAIN sole(t) |-> sat_var[sole(t)[k]]]
<1>5. Lowered = [f[n] EXCEPT !.stack = StackUp(@, vs(f[n]), PromisingBy(f[n].score)), !.fell = TRUE]
  BY Zenon DEF Lowered, Op, n
<1>. HIDE DEF f
<1>6. f[0] = Weights /\ \A k \in 1 .. n : f[k] = Op(f[k - 1], k)
  BY <1>1, <1>4
<1>7. f[n] \in G[n]
  <2>. DEFINE T == {k \in 0 .. n : f[k] \in G[k]}
  <2>1. 0 \in T
    BY <1>1, <1>a, <1>6
  <2>2. ASSUME NEW k \in 1 .. n, k - 1 \in T PROVE k \in T
    BY <2>2, <1>b, <1>6
  <2>. HIDE DEF T
  <2>3. n \in T
    BY <1>1, <2>1, <2>2, UpTo
  <2>. QED BY <2>3 DEF T
<1>. DEFINE t == f[n]
            new == StackUp(t.stack, vs(t), PromisingBy(t.score))
            T == ToSet(nvccdvar_stack.items)
            u == Lowered
<1>8. Lowering(t, n) /\ Flagging(nvccdvar_stack, T)
  <2>1. WeightsRight(Weights)
    BY DEF Stuck
  <2>2. Flagging(nvccdvar_stack, T)
    BY <2>1, WeightFields DEF WeightsRight
  <2>. QED BY <2>2, <1>1, <1>7 DEF G
<1>. HIDE DEF t
<1>9. /\ t \in WeightRecord /\ Balanced(t.clause, t.avg, t.delta)
      /\ t.total = SumOver(FalseClauses(cur_soln), t.clause) /\ GainsHold(t.score, cur_soln, t.clause)
      /\ Listed(t.large, t.clause) /\ t.stack = nvccdvar_stack /\ t.large \in Seq(ClauseId)
  BY <1>8 DEF Lowering, Listed
<1>10. vs(t) \in Seq(Var)
  <2>. DEFINE S == {c \in ClauseId : sat_count[c] = 1}
              q == sole(t)
  <2>1. q \in Seq(ClauseId) /\ ToSet(q) = ToSet(t.large) \cap S
    <3>. HIDE DEF S
    <3>. QED BY <1>9, FilteredItems DEF S
  <2>2. ASSUME NEW c \in S PROVE sat_var[c] \in Var
    <3>1. TrueVars(cur_soln, c) = {sat_var[c]}
      BY DEF Stuck, CountsHold
    <3>2. TrueVars(cur_soln, c) \subseteq Var
      BY TrueFacts DEF Stuck
    <3>. QED BY <3>1, <3>2
  <2>. HIDE DEF S, q
  <2>3. DOMAIN q = 1 .. Len(q) /\ Len(q) \in Nat
    BY <2>1
  <2>4. \A k \in 1 .. Len(q) : q[k] \in S
    BY <2>1, <2>3 DEF ToSet
  <2>5. [k \in DOMAIN q |-> sat_var[q[k]]] \in [1 .. Len(q) -> Var]
    BY <2>2, <2>3, <2>4
  <2>6. [k \in DOMAIN q |-> sat_var[q[k]]] \in Seq(Var)
    BY <2>3, <2>5
  <2>. QED BY <2>6 DEF q
<1>. HIDE DEF vs
<1>11. Flagging(new, T \cup (ToSet(vs(t)) \cap PromisingBy(t.score)))
  <2>1. vs(t) \in Seq(Var) /\ Flagging(t.stack, T)
    BY <1>8, <1>9, <1>10
  <2>. HIDE DEF T
  <2>. QED BY <2>1, StackedUp
<1>12. Flagging(new, ToSet(new.items)) /\ new \in FlagRecord
  <2>. HIDE DEF new
  <2>. QED BY <1>11 DEF Flagging
<1>13. t = [clause |-> t.clause, total |-> t.total, avg |-> t.avg, delta |-> t.delta, large |-> t.large,
            score |-> t.score, stack |-> t.stack, fell |-> t.fell, at |-> t.at]
  BY <1>9 DEF WeightRecord
<1>14. u = [clause |-> t.clause, total |-> t.total, avg |-> t.avg, delta |-> t.delta, large |-> t.large,
            score |-> t.score, stack |-> new, fell |-> TRUE, at |-> t.at]
  <2>1. u = [t EXCEPT !.stack = new, !.fell = TRUE]
    BY <1>5, Zenon DEF t
  <2>. HIDE DEF new, u
  <2>. QED BY <2>1, <1>13
<1>. HIDE DEF new, u
<1>15. /\ u.clause = t.clause /\ u.total = t.total /\ u.avg = t.avg /\ u.delta = t.delta
       /\ u.large = t.large /\ u.score = t.score /\ u.stack = new /\ u.fell = TRUE
  BY <1>14
<1>16. u \in WeightRecord
  BY <1>9, <1>12, <1>14 DEF WeightRecord
<1>17. Complete(u.score, nvcc_conf_change, u.stack, u.fell)
  BY <1>15 DEF Complete
<1>. QED BY <1>9, <1>12, <1>15, <1>16, <1>17 DEF WeightsRight, u

\* Two sequences without common items.
LEMMA ConcatDistinct ==
  ASSUME NEW X, NEW s \in Seq(X), NEW t \in Seq(X), Distinct(s), Distinct(t), ToSet(s) \cap ToSet(t) = {}
  PROVE  Distinct(s \o t)
<1>. DEFINE u == s \o t
            m == Len(s)
            n == Len(t)
<1>1. /\ m \in Nat /\ n \in Nat /\ DOMAIN s = 1 .. m /\ DOMAIN t = 1 .. n /\ DOMAIN u = 1 .. m + n
      /\ \A k \in 1 .. m + n : u[k] = IF k <= m THEN s[k] ELSE t[k - m]
  OBVIOUS
<1>. HIDE DEF u, m, n
<1>2. /\ \A j, k \in 1 .. m : s[j] = s[k] => j = k
      /\ \A j, k \in 1 .. n : t[j] = t[k] => j = k
      /\ \A j \in 1 .. m, k \in 1 .. n : s[j] # t[k]
  <2>1. /\ \A j, k \in 1 .. m : s[j] = s[k] => j = k
        /\ \A j, k \in 1 .. n : t[j] = t[k] => j = k
    BY <1>1 DEF Distinct
  <2>2. ASSUME NEW j \in 1 .. m, NEW k \in 1 .. n PROVE s[j] # t[k]
    <3>1. s[j] \in ToSet(s)
      BY <1>1 DEF ToSet
    <3>2. t[k] \in ToSet(t)
      BY <1>1 DEF ToSet
    <3>. QED BY <3>1, <3>2
  <2>. QED BY <2>1, <2>2
<1>3. ASSUME NEW j \in 1 .. m + n, NEW k \in 1 .. m + n, u[j] = u[k] PROVE j = k
  <2>1. \A i \in 1 .. m + n : \/ i \in 1 .. m /\ u[i] = s[i]
                              \/ i - m \in 1 .. n /\ u[i] = t[i - m]
    BY <1>1
  <2>2. CASE j \in 1 .. m /\ u[j] = s[j]
    BY <2>1, <2>2, <1>1, <1>2, <1>3
  <2>3. CASE j - m \in 1 .. n /\ u[j] = t[j - m]
    <3>1. k - m \in 1 .. n /\ u[k] = t[k - m]
      BY <2>1, <2>3, <1>2, <1>3
    <3>2. j - m = k - m
      BY <2>3, <3>1, <1>2, <1>3
    <3>. QED BY <3>2, <1>1
  <2>. QED BY <2>1, <2>2, <2>3
<1>. QED BY <1>1, <1>3 DEF Distinct, u

\* inc_clause_weight_paws
LEMMA IncreasedRight ==
  ASSUME Stuck, settings.weights = "paws"
  PROVE  WeightsRight(Increased)
<1>. DEFINE r == Raised
            B == FalseClauses(cur_soln)
            S == {c \in ClauseId : r.clause[c] = 2}
            new == Filtered(unsat_stack.items, S)
            list == large_weight_clauses \o new
            u == Increased
<1>1. LightRight(r)
  BY RaisedRight
<1>2. /\ B \in SUBSET ClauseId /\ FalseClause = B
      /\ unsat_stack.items \in Seq(ClauseId) /\ Distinct(unsat_stack.items)
      /\ ToSet(unsat_stack.items) = B
  BY StuckStacks DEF FalseClause
<1>3. Listed(large_weight_clauses, clause_weight) /\ clause_weight \in [ClauseId -> Nat \ {0}]
  BY WeightFields DEF Stuck, WeightsRight, WeightRecord
<1>4. \A c \in ClauseId : r.clause[c] = IF c \in B THEN clause_weight[c] + 1 ELSE clause_weight[c]
  <2>. HIDE DEF B
  <2>1. r.clause = [c \in ClauseId |-> clause_weight[c] + (IF c \in B THEN 1 ELSE 0)]
    BY <1>2, RaisedFields
  <2>. QED BY <2>1, <1>3
<1>5. r \in WeightRecord /\ r.large = large_weight_clauses
  BY <1>1, RaisedFields DEF LightRight
<1>6. r = [clause |-> r.clause, total |-> r.total, avg |-> r.avg, delta |-> r.delta, large |-> r.large,
            score |-> r.score, stack |-> r.stack, fell |-> r.fell, at |-> r.at]
  BY <1>5 DEF WeightRecord
<1>7. u = [r EXCEPT !.large = list]
  BY <1>5 DEF Increased
<1>. HIDE DEF r, B
<1>8. new \in Seq(ClauseId) /\ Distinct(new) /\ ToSet(new) = B \cap S
  <2>. HIDE DEF S
  <2>. QED BY <1>2, FilteredItems
<1>9. large_weight_clauses \in Seq(ClauseId) /\ Distinct(large_weight_clauses)
      /\ ToSet(large_weight_clauses) = {c \in ClauseId : clause_weight[c] > 1}
  BY <1>3 DEF Listed
<1>10. ToSet(large_weight_clauses) \cap ToSet(new) = {}
  <2>1. ASSUME NEW c \in ClauseId, clause_weight[c] > 1, c \in B, r.clause[c] = 2 PROVE FALSE
    BY <2>1, <1>3, <1>4
  <2>. HIDE DEF new
  <2>. QED BY <2>1, <1>8, <1>9
<1>11. ToSet(large_weight_clauses) \cup ToSet(new) = {c \in ClauseId : r.clause[c] > 1}
  <2>1. ASSUME NEW c \in ClauseId
        PROVE  r.clause[c] > 1 <=> clause_weight[c] > 1 \/ (c \in B /\ r.clause[c] = 2)
    BY <1>3, <1>4
  <2>. HIDE DEF new
  <2>. QED BY <2>1, <1>2, <1>8, <1>9
<1>. HIDE DEF new
<1>12. list \in Seq(ClauseId) /\ Distinct(list) /\ ToSet(list) = {c \in ClauseId : r.clause[c] > 1}
  BY <1>8, <1>9, <1>10, <1>11, ConcatItems, ConcatDistinct
<1>. HIDE DEF list, u
<1>13. u = [clause |-> r.clause, total |-> r.total, avg |-> r.avg, delta |-> r.delta, large |-> list,
            score |-> r.score, stack |-> r.stack, fell |-> r.fell, at |-> r.at]
  BY <1>6, <1>7
<1>14. /\ u.clause = r.clause /\ u.total = r.total /\ u.avg = r.avg /\ u.delta = r.delta
       /\ u.large = list /\ u.score = r.score /\ u.stack = r.stack /\ u.fell = r.fell
  BY <1>13
<1>15. u \in WeightRecord
  BY <1>5, <1>12, <1>13 DEF WeightRecord
<1>16. Listed(u.large, u.clause)
  BY <1>12, <1>14 DEF Listed
<1>. QED BY <1>1, <1>14, <1>15, <1>16 DEF WeightsRight, LightRight, u

\* Whatever the scheme makes of the weights is right.
LEMMA StuckWeights ==
  ASSUME Stuck, settings.weights \in {"none", "swt", "paws"},
         NEW w \in CASE settings.weights = "none" -> {Weights}
                     [] settings.weights = "swt"  -> SwtWeights
                     [] settings.weights = "paws" -> PawsWeights
  PROVE  WeightsRight(w) /\ (settings.weights = "none" => w = Weights)
<1>1. CASE settings.weights = "none"
  <2>1. w = Weights
    BY <1>1
  <2>. QED BY <2>1 DEF Stuck
<1>2. CASE settings.weights = "swt"
  <2>1. w \in SwtWeights
    BY <1>2
  <2>2. LightRight(Raised) /\ avg_clause_weight <= WeightThreshold /\ avg_clause_weight \in Int
    BY <1>2, WeightFields, RaisedRight DEF Stuck, WeightsRight, WeightRecord
  <2>3. Raised.avg = IF Over THEN avg_clause_weight + 1 ELSE avg_clause_weight
    BY RaisedRight
  <2>4. Raised.avg \in Int /\ WeightThreshold \in Int
    BY <2>2, <2>3, SearchAssumption
  <2>5. CASE Over /\ Raised.avg > WeightThreshold
    <3>1. w = SmoothedFrom(Raised)
      BY <2>1, <2>5 DEF SwtWeights
    <3>2. Raised.avg <= WeightThreshold + 1
      BY <2>2, <2>3, <2>4
    <3>3. LightRight(w) /\ w.avg <= WeightThreshold
      BY <3>1, <3>2, <2>2, SmoothedRight
    <3>. QED BY <3>3, <1>2 DEF WeightsRight, LightRight
  <2>6. CASE ~(Over /\ Raised.avg > WeightThreshold)
    <3>1. w = Raised
      BY <2>1, <2>6 DEF SwtWeights
    <3>2. w.avg <= WeightThreshold
      BY <3>1, <2>2, <2>3, <2>4, <2>6
    <3>. QED BY <3>1, <3>2, <2>2, <1>2 DEF WeightsRight, LightRight
  <2>. QED BY <2>5, <2>6
<1>3. CASE settings.weights = "paws"
  <2>1. w \in PawsWeights
    BY <1>3
  <2>2. w = Increased \/ w = Lowered
    BY <2>1 DEF PawsWeights
  <2>. QED BY <2>2, <1>3, IncreasedRight, LoweredRight
<1>. QED BY <1>1, <1>2, <1>3

-----------------------------------------------------------------------------
(* The invariant *)

\* The call, and what the last one returned.
CallRight ==
  /\ instance \in Instances /\ clauses = BuildInstance(instance.file)
  /\ settings \in Settings /\ init_soln \in TestCase
  /\ pc \in {"idle", "init", "pick", "flip", "update"}
  /\ ResultValid

\* The counts, the stacks and the weights of a try.
TryRight ==
  /\ cur_soln \in TestCase
  /\ CountsHold(cur_soln, sat_count, sat_var)
  /\ StacksHold(Stacks, FalseClauses(cur_soln), clause_weight)
  /\ Balanced(clause_weight, avg_clause_weight, delta_total_clause_weight)
  /\ settings.weights = "swt" => avg_clause_weight <= WeightThreshold
  /\ large_weight_clauses \in Seq(ClauseId)
  /\ settings.weights = "paws" => Listed(large_weight_clauses, clause_weight)
  /\ nvcc_conf_change \in [Var -> Bit] /\ smoothed \in BOOLEAN

\* The stack of promising options.
StackRight ==
  /\ Flagging(nvccdvar_stack, ToSet(nvccdvar_stack.items))
  /\ Complete(score, nvcc_conf_change, nvccdvar_stack, smoothed)

\* The scores are those of the assignment s.
ScoresRight(s) ==
  /\ GainsHold(score, s, clause_weight)
  /\ settings.weights = "none" =>
       /\ "break" \in settings.caches => BreaksHold(break_score, s, clause_weight)
       /\ "make" \in settings.caches => MakesHold(make_score, s, clause_weight)
  /\ "second" \in settings.caches => SecondsHold(score2, s)

PairsRight == "second" \in settings.caches => PairsHold(cur_soln, sat_var, sat_var2)

\* The scores are still those of the assignment before the flip.
ScoresBehind ==
  \E s \in TestCase : FlippedFrom(s) /\ ScoresRight(s) /\ ("second" \in settings.caches => PairsFrom(s))

SearchInv ==
  /\ CallRight
  /\ Searching => TryRight /\ StackRight
  /\ GainsKept => ScoresRight(cur_soln) /\ PairsRight
  /\ pc = "flip" => flipvar \in Var
  /\ pc = "update" => ScoresBehind
  /\ pc = "pick" => \A v \in Stacked : Promising(v)

LEMMA CallFacts ==
  ASSUME CallRight
  PROVE  ClausesInv(clauses) /\ Models(clauses) = Models(instance.file)
<1>1. instance.file \in Formula /\ \A c \in DOMAIN instance.file : Len(instance.file[c]) > 0
  BY SearchAssumption DEF CallRight
<1>. QED BY <1>1, BuiltClauses DEF CallRight

\* The clauses stay, so what is said of an assignment says the same after a step.
LEMMA SameClauses ==
  ASSUME clauses' = clauses
  PROVE  /\ ClauseId' = ClauseId
         /\ \A v : ClausesOf(v)' = ClausesOf(v)
         /\ \A s, c : TrueVars(s, c)' = TrueVars(s, c)
         /\ \A s : FalseClauses(s)' = FalseClauses(s)
         /\ \A s, count, sole : CountsHold(s, count, sole)' = CountsHold(s, count, sole)
         /\ \A st, B, w : StacksHold(st, B, w)' = StacksHold(st, B, w)
         /\ \A w, avg, delta : Balanced(w, avg, delta)' = Balanced(w, avg, delta)
         /\ \A list, w : Listed(list, w)' = Listed(list, w)
         /\ \A g, s, w : GainsHold(g, s, w)' = GainsHold(g, s, w)
         /\ \A b, s, w : BreaksHold(b, s, w)' = BreaksHold(b, s, w)
         /\ \A m, s, w : MakesHold(m, s, w)' = MakesHold(m, s, w)
         /\ \A g, s : SecondsHold(g, s)' = SecondsHold(g, s)
         /\ \A s, sole, other : PairsHold(s, sole, other)' = PairsHold(s, sole, other)
<1>1. ClauseId' = ClauseId
  BY DEF ClauseId
<1>2. ASSUME NEW c PROVE VarsOf(c)' = VarsOf(c)
  BY DEF VarsOf
<1>3. ASSUME NEW v PROVE ClausesOf(v)' = ClausesOf(v)
  BY <1>1, <1>2 DEF ClausesOf
<1>4. ASSUME NEW s, NEW c PROVE TrueVars(s, c)' = TrueVars(s, c)
  BY DEF TrueVars
<1>5. ASSUME NEW s PROVE FalseClauses(s)' = FalseClauses(s)
  BY <1>1, <1>4 DEF FalseClauses
<1>6. ASSUME NEW s, NEW count, NEW sole PROVE CountsHold(s, count, sole)' = CountsHold(s, count, sole)
  BY <1>1, <1>4 DEF CountsHold
<1>7. ASSUME NEW st, NEW B, NEW w PROVE StacksHold(st, B, w)' = StacksHold(st, B, w)
  <2>1. OptionsHeld(st)' = OptionsHeld(st)
    BY <1>1 DEF OptionsHeld, StackRecord
  <2>2. Holding(st.unsat, ClauseId, B)' = Holding(st.unsat, ClauseId, B)
    BY <1>1
  <2>. QED BY <2>1, <2>2, <1>3 DEF StacksHold
<1>8. ASSUME NEW w, NEW avg, NEW delta PROVE Balanced(w, avg, delta)' = Balanced(w, avg, delta)
  BY <1>1 DEF Balanced
<1>9. ASSUME NEW list, NEW w PROVE Listed(list, w)' = Listed(list, w)
  BY <1>1 DEF Listed
<1>10. ASSUME NEW g, NEW s, NEW w PROVE GainsHold(g, s, w)' = GainsHold(g, s, w)
  <2>1. ASSUME NEW v PROVE GainAt(s, w, v)' = GainAt(s, w, v)
    BY <1>1, <1>2, <1>4 DEF GainAt
  <2>. QED BY <1>1, <2>1 DEF GainsHold
<1>11. ASSUME NEW b, NEW s, NEW w PROVE BreaksHold(b, s, w)' = BreaksHold(b, s, w)
  BY <1>1, <1>4 DEF BreaksHold, Broken
<1>12. ASSUME NEW m, NEW s, NEW w PROVE MakesHold(m, s, w)' = MakesHold(m, s, w)
  BY <1>3, <1>4 DEF MakesHold, Made
<1>13. ASSUME NEW g, NEW s PROVE SecondsHold(g, s)' = SecondsHold(g, s)
  <2>1. ASSUME NEW v PROVE Joined(s, v)' = Joined(s, v) /\ Parted(s, v)' = Parted(s, v)
    BY <1>3, <1>4 DEF Joined, Parted
  <2>2. ASSUME NEW v PROVE SecondAt(s, v)' = SecondAt(s, v)
    BY <1>1, <2>1 DEF SecondAt
  <2>. QED BY <1>1, <2>2 DEF SecondsHold
<1>14. ASSUME NEW s, NEW sole, NEW other PROVE PairsHold(s, sole, other)' = PairsHold(s, sole, other)
  BY <1>1, <1>4 DEF PairsHold
<1>. QED BY <1>1, <1>3, <1>4, <1>5, <1>6, <1>7, <1>8, <1>9, <1>10, <1>11, <1>12, <1>13, <1>14

LEMMA CallUnmoved ==
  ASSUME CallRight, UNCHANGED callVars, pc' \in {"idle", "init", "pick", "flip", "update"}
  PROVE  CallRight'
BY DEF CallRight, callVars, ResultValid

-----------------------------------------------------------------------------
(* Between calls and tries *)

LEMMA PrioritySettings ==
  ASSUME NEW s \in Settings
  PROVE  WithPriorities(s) \in Settings
<1>. DEFINE W == WalkMode
            s1 == [s EXCEPT !.init = "given", !.tie = "any", !.var = "any"]
            s2 == [s1 EXCEPT !.double_cc = @ /\ ~W, !.aspiration = @ /\ ~W]
            s3 == [s2 EXCEPT !.pac = @ \/ W, !.first_div = @ \/ W]
<1>1. WithPriorities(s) = s3
  BY DEF WithPriorities
<1>. HIDE DEF W
<1>2. s1 \in Settings
  BY DEF Settings
<1>. HIDE DEF s1
<1>3. s2 \in Settings
  <2>1. s1.double_cc \in BOOLEAN /\ s1.aspiration \in BOOLEAN
    BY <1>2 DEF Settings
  <2>2. (s1.double_cc /\ ~W) \in BOOLEAN /\ (s1.aspiration /\ ~W) \in BOOLEAN
    OBVIOUS
  <2>. DEFINE x == s1.double_cc /\ ~W
              y == s1.aspiration /\ ~W
  <2>3. s2 = [s1 EXCEPT !.double_cc = x, !.aspiration = y]
    OBVIOUS
  <2>. HIDE DEF x, y, s2
  <2>4. x \in BOOLEAN /\ y \in BOOLEAN
    BY <2>2 DEF x, y
  <2>. QED BY <2>3, <2>4, <1>2 DEF Settings
<1>. HIDE DEF s2
<1>4. s3 \in Settings
  <2>1. s2.pac \in BOOLEAN /\ s2.first_div \in BOOLEAN
    BY <1>3 DEF Settings
  <2>2. (s2.pac \/ W) \in BOOLEAN /\ (s2.first_div \/ W) \in BOOLEAN
    OBVIOUS
  <2>. DEFINE x == s2.pac \/ W
              y == s2.first_div \/ W
  <2>3. s3 = [s2 EXCEPT !.pac = x, !.first_div = y]
    OBVIOUS
  <2>. HIDE DEF x, y, s3
  <2>4. x \in BOOLEAN /\ y \in BOOLEAN
    BY <2>2 DEF x, y
  <2>. QED BY <2>3, <2>4, <1>3 DEF Settings
<1>. QED BY <1>1, <1>4

LEMMA InitRight == Init => SearchInv
<1>. SUFFICES ASSUME Init PROVE SearchInv
  OBVIOUS
<1>1. pc = "idle" /\ sat_solution = <<>> /\ init_soln = [v \in Var |-> 0]
      /\ instance \in Instances /\ clauses = BuildInstance(instance.file)
      /\ settings = instance.settings
  BY DEF Init
<1>2. settings \in Settings
  BY <1>1, SearchAssumption
<1>3. init_soln \in TestCase
  BY <1>1 DEF TestCase, Bit
<1>. QED BY <1>1, <1>2, <1>3 DEF SearchInv, CallRight, ResultValid, Searching, GainsKept

\* What is handed back has no false clause.
LEMMA SolvedRight ==
  ASSUME SearchInv, pc = "pick", NoneFalse
  PROVE  Verified(cur_soln) /\ cur_soln \in Models(instance.file)
<1>1. /\ CallRight /\ cur_soln \in TestCase
      /\ StacksHold(Stacks, FalseClauses(cur_soln), clause_weight)
  BY DEF SearchInv, Searching, TryRight
<1>2. ClausesInv(clauses) /\ Models(clauses) = Models(instance.file)
  BY <1>1, CallFacts
<1>3. ToSet(unsat_stack.items) = FalseClauses(cur_soln)
  BY <1>1 DEF StacksHold, Holding, Stacks
<1>4. FalseClauses(cur_soln) = {}
  BY <1>3 DEF NoneFalse, ToSet
<1>5. Verified(cur_soln)
  BY <1>4 DEF Verified, FalseClauses
<1>6. Satisfies(cur_soln, clauses)
  <2>. SUFFICES ASSUME NEW c \in DOMAIN clauses PROVE SatClause(cur_soln, clauses[c])
    BY DEF Satisfies
  <2>1. TrueVars(cur_soln, c) # {}
    BY <1>5 DEF Verified, ClauseId
  <2>. QED BY <2>1 DEF TrueVars, SatClause
<1>. QED BY <1>1, <1>2, <1>5, <1>6 DEF Models

LEMMA LeaveStep ==
  ASSUME SearchInv, SetInitSolution \/ Solve \/ Solved \/ OutOfFlips \/ OutOfTries
  PROVE  SearchInv'
<1>. SUFFICES pc' \in {"idle", "init"} /\ CallRight'
  BY DEF SearchInv, Searching, GainsKept
<1>1. CallRight
  BY DEF SearchInv
<1>2. CASE SetInitSolution
  <2>1. settings' \in Settings
    BY <1>1, <1>2, PrioritySettings DEF SetInitSolution, CallRight
  <2>. QED BY <2>1, <1>1, <1>2 DEF SetInitSolution, CallRight, ResultValid
<1>3. CASE Solve \/ OutOfFlips
  BY <1>1, <1>3, CallUnmoved DEF Solve, OutOfFlips, searchFrame
<1>4. CASE Solved
  BY <1>1, <1>4, SolvedRight DEF Solved, callFrame, CallRight, ResultValid
<1>5. CASE OutOfTries
  BY <1>1, <1>5 DEF OutOfTries, callFrame, CallRight, ResultValid
<1>. QED BY <1>2, <1>3, <1>4, <1>5

-----------------------------------------------------------------------------
(* Picking an option *)

LEMMA BestWithin ==
  ASSUME settings \in Settings, NEW S, NEW gains, NEW c
  PROVE  /\ \A rank : BestBy(S, rank) \subseteq S
         /\ TieBreak(S) \subseteq S
         /\ Novelty(S, gains) \subseteq S
         /\ FromClause(c, gains) \subseteq VarsOf(c)
<1>1. ASSUME NEW T, NEW rank PROVE BestBy(T, rank) \subseteq T
  BY DEF BestBy
<1>2. settings.tie \in {"any", "hscore", "hscore2"}
      /\ settings.var \in {"any", "score", "hscore", "hscore2", "novelty"}
  BY DEF Settings
<1>3. TieBreak(S) \subseteq S
  BY <1>1, <1>2 DEF TieBreak
<1>4. ASSUME NEW T PROVE Novelty(T, gains) \subseteq T
  <2>1. \A v : BestBy(T \ {v}, gains) \subseteq T
    BY <1>1
  <2>. QED BY <1>1, <2>1 DEF Novelty
<1>5. FromClause(c, gains) \subseteq VarsOf(c)
  BY <1>1, <1>2, <1>4 DEF FromClause
<1>. QED BY <1>1, <1>3, <1>4, <1>5

\* Whatever a pick chooses from is an option.
LEMMA PicksOptions ==
  ASSUME CallRight, TryRight, StackRight
  PROVE  /\ \A c \in ClauseId : VarsOf(c) \subseteq Var
         /\ FalseClause \subseteq ClauseId
         /\ \A gains, c : c \in FalseClause => FromClause(c, gains) \subseteq Var
         /\ ByCscc \subseteq Var /\ ByNvcc \subseteq Var /\ ByAspiration \subseteq Var
<1>1. ClausesInv(clauses) /\ settings \in Settings
  BY CallFacts DEF CallRight
<1>2. \A c \in ClauseId : VarsOf(c) \subseteq Var
  BY <1>1, ClauseFacts
<1>3. Holding(unsat_stack, ClauseId, FalseClauses(cur_soln))
      /\ Holding(unsatvar_stack, Var, {v \in Var : unsatvar_app_count[v] > 0})
  BY DEF TryRight, StacksHold, OptionsHeld, Stacks
<1>4. FalseClause \subseteq ClauseId
  BY <1>3 DEF Holding, FalseClause, FalseClauses
<1>5. ASSUME NEW gains, NEW c \in FalseClause PROVE FromClause(c, gains) \subseteq Var
  BY <1>1, <1>2, <1>4, BestWithin
<1>6. Stacked \subseteq Var
  <2>1. nvccdvar_stack.items \in Seq(Var)
    BY DEF StackRight, Flagging, FlagRecord
  <2>. QED BY <2>1 DEF Stacked, ToSet
<1>7. ASSUME NEW S, NEW rank PROVE BestBy(S, rank) \subseteq S /\ TieBreak(S) \subseteq S
  BY <1>1, BestWithin
<1>8. ASSUME NEW S PROVE GainBest(S) \subseteq S
  <2>1. {v \in BestBy(S, score) : score[v] > 0} \subseteq S
    BY <1>7
  <2>. QED BY <1>7, <2>1 DEF GainBest
<1>9. ByCscc \subseteq Var /\ ByNvcc \subseteq Var
  <2>1. ByNvcc \subseteq Stacked
    BY <1>8 DEF ByNvcc
  <2>2. {v \in Stacked : cscc_conf_change[v] = 1} \subseteq Stacked
    OBVIOUS
  <2>3. ByCscc \subseteq Stacked
    BY <1>8, <2>2 DEF ByCscc
  <2>. QED BY <1>6, <2>1, <2>3
<1>10. ByAspiration \subseteq Var
  <2>. DEFINE S == {v \in ToSet(unsatvar_stack.items) : score[v] > avg_clause_weight}
  <2>1. S \subseteq Var
    BY <1>3 DEF Holding
  <2>. HIDE DEF S
  <2>2. BestBy(S, score) \subseteq S /\ TieBreak(BestBy(S, score)) \subseteq BestBy(S, score)
    BY <1>7
  <2>. QED BY <2>1, <2>2 DEF ByAspiration, S
<1>. QED BY <1>2, <1>4, <1>5, <1>9, <1>10

\* Only flipvar changes.
LEMMA PickStep ==
  ASSUME SearchInv, PickAnywhere \/ PickDiverse \/ PickGreedy
  PROVE  SearchInv'
<1>1. pc = "pick" /\ pc' = "flip" /\ UNCHANGED searchFrame
  BY DEF PickAnywhere, PickDiverse, PickGreedy, Picking
<1>2. CallRight /\ TryRight /\ StackRight /\ ScoresRight(cur_soln) /\ PairsRight
  BY <1>1 DEF SearchInv, Searching, GainsKept
<1>3. flipvar' \in Var
  BY <1>2, PicksOptions DEF PickAnywhere, PickDiverse, PickGreedy
<1>4. CallRight'
  BY <1>1, <1>2, CallUnmoved DEF searchFrame
<1>5. clauses' = clauses /\ settings' = settings /\ cur_soln' = cur_soln
      /\ UNCHANGED <<countVars, weightVars, stackVars, scoreVars, nvcc_conf_change, nvccdvar_stack, smoothed>>
  BY <1>1 DEF searchFrame, callVars, tryVars, confVars
<1>6. TryRight' /\ StackRight'
  BY <1>2, <1>5, SameClauses
     DEF TryRight, StackRight, countVars, weightVars, stackVars, scoreVars, Stacks, Complete
<1>7. ScoresRight(cur_soln)' /\ PairsRight'
  BY <1>2, <1>5, SameClauses DEF ScoresRight, PairsRight, countVars, weightVars, scoreVars
<1>. QED BY <1>1, <1>3, <1>4, <1>6, <1>7 DEF SearchInv, GainsKept, Searching

\* When no heuristic has a choice, the weighting has what it starts from.
LEMMA StuckRight ==
  ASSUME SearchInv, pc = "pick", ~NoneFalse
  PROVE  Stuck
<1>1. CallRight /\ TryRight /\ StackRight /\ ScoresRight(cur_soln)
  BY DEF SearchInv, Searching, GainsKept
<1>2. ClausesInv(clauses)
  BY <1>1, CallFacts
<1>3. total_unsat_clause_weight = SumOver(FalseClauses(cur_soln), clause_weight)
      /\ total_unsat_clause_weight \in Int
  BY <1>1 DEF TryRight, StacksHold, OptionsHeld, StackRecord, Stacks
<1>4. GainsHold(score, cur_soln, clause_weight) /\ score \in [Var -> Int]
  BY <1>1 DEF ScoresRight, GainsHold
<1>5. nvccdvar_stack \in FlagRecord
  BY <1>1 DEF StackRight, Flagging
<1>6. clause_weight \in [ClauseId -> Nat \ {0}] /\ avg_clause_weight \in Int
      /\ delta_total_clause_weight \in Int
  <2>1. Len(clauses) \in Nat
    BY <1>2, ClauseFacts
  <2>. QED BY <2>1, <1>1 DEF TryRight, Balanced
<1>7. Weights \in WeightRecord
  BY <1>1, <1>3, <1>4, <1>5, <1>6 DEF WeightRecord, Weights, TryRight
<1>8. WeightsRight(Weights)
  BY <1>1, <1>3, <1>4, <1>7, WeightFields DEF WeightsRight, TryRight, StackRight
<1>. QED BY <1>1, <1>2, <1>8 DEF Stuck, TryRight

LEMMA PickWeightedStep ==
  ASSUME SearchInv, PickWeighted
  PROVE  SearchInv'
<1>1. pc = "pick" /\ pc' = "flip" /\ ~NoneFalse
  BY DEF PickWeighted, Picking
<1>2. CallRight /\ TryRight /\ StackRight /\ ScoresRight(cur_soln) /\ PairsRight
  BY <1>1 DEF SearchInv, Searching, GainsKept
<1>3. Stuck
  BY <1>1, StuckRight
<1>. DEFINE Kinds == CASE settings.weights = "none" -> {Weights}
                       [] settings.weights = "swt"  -> SwtWeights
                       [] settings.weights = "paws" -> PawsWeights
<1>4. PICK w \in Kinds :
        /\ clause_weight' = w.clause /\ total_unsat_clause_weight' = w.total
        /\ avg_clause_weight' = w.avg /\ delta_total_clause_weight' = w.delta
        /\ large_weight_clauses' = w.large /\ score' = w.score /\ nvccdvar_stack' = w.stack
        /\ smoothed' = w.fell
        /\ flipvar' \in UNION {FromClause(c, w.score) : c \in FalseClause}
  BY DEF PickWeighted
<1>5. WeightsRight(w) /\ (settings.weights = "none" => w = Weights)
  <2>1. settings.weights \in {"none", "swt", "paws"}
    BY <1>2 DEF CallRight, Settings
  <2>. QED BY <2>1, <1>3, StuckWeights
<1>. HIDE DEF Kinds
<1>6. flipvar' \in Var
  BY <1>2, <1>4, PicksOptions
<1>7. CallRight'
  BY <1>1, <1>2, CallUnmoved DEF PickWeighted
<1>8. /\ clauses' = clauses /\ settings' = settings /\ cur_soln' = cur_soln
      /\ UNCHANGED <<sat_count, sat_var, sat_var2, unsat_stack, unsatvar_stack, unsatvar_app_count,
                     break_score, make_score, score2, nvcc_conf_change>>
  BY DEF PickWeighted, callVars, countVars, confVars
<1>9. StacksHold(Stacks', FalseClauses(cur_soln), w.clause)
  <2>1. /\ Stacks'.unsat = Stacks.unsat /\ Stacks'.var = Stacks.var /\ Stacks'.app = Stacks.app
        /\ Stacks'.total = w.total
        /\ Stacks' = [unsat |-> Stacks.unsat, var |-> Stacks.var, app |-> Stacks.app, total |-> w.total]
    BY <1>4, <1>8 DEF Stacks
  <2>2. w.total \in Int /\ w.total = SumOver(FalseClauses(cur_soln), w.clause)
    BY <1>5 DEF WeightsRight, WeightRecord
  <2>. QED BY <2>1, <2>2, <1>2 DEF TryRight, StacksHold, OptionsHeld, StackRecord
<1>10. TryRight'
  <2>1. /\ Balanced(w.clause, w.avg, w.delta) /\ (settings.weights = "swt" => w.avg <= WeightThreshold)
        /\ w.large \in Seq(ClauseId) /\ (settings.weights = "paws" => Listed(w.large, w.clause))
        /\ w.fell \in BOOLEAN
    BY <1>5 DEF WeightsRight, WeightRecord
  <2>2. /\ cur_soln \in TestCase /\ CountsHold(cur_soln, sat_count, sat_var)
        /\ nvcc_conf_change \in [Var -> Bit]
    BY <1>2 DEF TryRight
  <2>. QED BY <2>1, <2>2, <1>4, <1>8, <1>9, SameClauses DEF TryRight
<1>11. StackRight'
  BY <1>4, <1>5, <1>8 DEF StackRight, WeightsRight, Complete
<1>12. ScoresRight(cur_soln)'
  <2>1. GainsHold(score', cur_soln', clause_weight')
    BY <1>4, <1>5, <1>8 DEF WeightsRight
  <2>2. settings.weights = "none" => clause_weight' = clause_weight
    BY <1>4, <1>5, WeightFields
  <2>. QED BY <2>1, <2>2, <1>2, <1>8, SameClauses DEF ScoresRight
<1>13. PairsRight'
  BY <1>2, <1>8, SameClauses DEF PairsRight
<1>. QED BY <1>1, <1>6, <1>7, <1>10, <1>11, <1>12, <1>13 DEF SearchInv, GainsKept, Searching

-----------------------------------------------------------------------------
(* A flip *)

LEMMA FlipStep ==
  ASSUME SearchInv, Flip
  PROVE  SearchInv'
<1>1. /\ pc = "flip" /\ pc' = "update"
      /\ UNCHANGED <<callVars, sat_var2, weightVars, scoreVars, confVars, nvccdvar_stack, flipvar, smoothed>>
  BY DEF Flip
<1>2. CallRight /\ TryRight /\ StackRight /\ ScoresRight(cur_soln) /\ PairsRight /\ flipvar \in Var
  BY <1>1 DEF SearchInv, Searching, GainsKept
<1>3. ClausesInv(clauses)
  BY <1>2, CallFacts
<1>4. /\ cur_soln \in TestCase /\ CountsHold(cur_soln, sat_count, sat_var)
      /\ StacksHold(Stacks, FalseClauses(cur_soln), clause_weight)
      /\ clause_weight \in [ClauseId -> Int]
  BY <1>2 DEF TryRight, Balanced
<1>5. PICK s : s = cur_soln
  OBVIOUS
<1>6. PICK t : t = cur_soln'
  OBVIOUS
<1>7. FlippedAt(s, flipvar, t)
  BY <1>5, <1>6 DEF Flip, FlippedAt
<1>8. CountsFlipped(t, flipvar, sat_count, sat_var, sat_count', sat_var')
  BY <1>6, <1>7, <1>5 DEF Flip, FlippedAt, CountsFlipped
<1>9. SetStacks(FlippedStacks(t, sat_count'))
  BY <1>6, <1>7, <1>5 DEF Flip, FlippedAt
<1>10. CountsHold(t, sat_count', sat_var') /\ t \in TestCase
  <2>1. CountsHold(t, sat_count', sat_var')
    BY <1>2, <1>3, <1>4, <1>5, <1>7, <1>8, FlippedCountsHold
  <2>2. t \in TestCase
    BY <1>4, <1>6, <1>2 DEF Flip, TestCase, Bit
  <2>. QED BY <2>1, <2>2
<1>11. StacksHold(FlippedStacks(t, sat_count'), FalseClauses(t), clause_weight)
  <2>1. \A c \in ClauseId : sat_count'[c] = Cardinality(TrueVars(t, c))
    BY <1>10 DEF CountsHold
  <2>2. /\ Gone(t, sat_count') \subseteq FalseClauses(s) /\ Came(t, sat_count') \cap FalseClauses(s) = {}
        /\ (FalseClauses(s) \ Gone(t, sat_count')) \cup Came(t, sat_count') = FalseClauses(t)
    BY <2>1, <1>2, <1>3, <1>4, <1>5, <1>7, FlippedFalse
  <2>3. FalseClauses(s) \in SUBSET ClauseId /\ StacksHold(Stacks, FalseClauses(s), clause_weight)
    BY <1>4, <1>5 DEF FalseClauses
  <2>4. StacksHold(FlippedStacks(t, sat_count'),
                   (FalseClauses(s) \ Gone(t, sat_count')) \cup Came(t, sat_count'), clause_weight)
    BY <2>2, <2>3, <1>3, <1>4, FlippedStacksHeld
  <2>. QED BY <2>2, <2>4
<1>12. Stacks' = FlippedStacks(t, sat_count')
  <2>. DEFINE st == FlippedStacks(t, sat_count')
  <2>1. st \in StackRecord
    BY <1>11 DEF StacksHold, OptionsHeld
  <2>2. SetStacks(st)
    BY <1>9
  <2>. HIDE DEF st
  <2>3. Stacks' = st
    BY <2>1, <2>2 DEF SetStacks, Stacks, StackRecord
  <2>. QED BY <2>3 DEF st
<1>13. /\ clauses' = clauses /\ settings' = settings /\ flipvar' = flipvar
       /\ UNCHANGED <<sat_var2, clause_weight, avg_clause_weight, delta_total_clause_weight,
                      large_weight_clauses, score, break_score, make_score, score2,
                      nvcc_conf_change, nvccdvar_stack, smoothed>>
  BY <1>1 DEF callVars, weightVars, scoreVars, confVars
<1>14. CallRight'
  BY <1>1, <1>2, CallUnmoved
<1>15. TryRight'
  <2>1. /\ CountsHold(cur_soln', sat_count', sat_var') /\ cur_soln' \in TestCase
        /\ StacksHold(Stacks', FalseClauses(cur_soln'), clause_weight)
    BY <1>6, <1>10, <1>11, <1>12
  <2>. QED BY <2>1, <1>2, <1>13, SameClauses DEF TryRight
<1>16. StackRight'
  BY <1>2, <1>13 DEF StackRight, Complete
<1>17. /\ \A c \in ClausesOf(flipvar) :
            flipvar \in TrueVars(t, c) /\ sat_count'[c] = 2 => TrueVars(s, c) = {sat_var'[c]}
       /\ PairsHold(s, sat_var, sat_var2) =>
            /\ \A c \in ClauseId : c \notin ClausesOf(flipvar) /\ sat_count'[c] = 2
                                     => TrueVars(t, c) = {sat_var'[c], sat_var2[c]}
            /\ \A c \in ClausesOf(flipvar) : flipvar \in TrueVars(t, c) /\ sat_count'[c] = 3
                                               => TrueVars(s, c) = {sat_var'[c], sat_var2[c]}
  BY <1>2, <1>3, <1>4, <1>5, <1>7, <1>8, FlippedPairs
<1>18. FlippedFrom(s)'
  <2>1. CountsHold(cur_soln, sat_count, sat_var)'
    BY <1>15 DEF TryRight
  <2>2. FlippedAt(s, flipvar, cur_soln)'
    BY <1>6, <1>7, <1>13 DEF FlippedAt
  <2>3. (\A c \in ClausesOf(flipvar) :
           NowTrue(c) /\ sat_count[c] = 2 => TrueVars(s, c) = {sat_var[c]})'
    <3>1. ClausesOf(flipvar)' = ClausesOf(flipvar)
      BY <1>13, SameClauses
    <3>2. \A c : NowTrue(c)' <=> flipvar \in TrueVars(t, c)
      BY <1>6, <1>13, SameClauses DEF NowTrue
    <3>3. \A c : TrueVars(s, c)' = TrueVars(s, c)
      BY <1>13, SameClauses
    <3>. QED BY <3>1, <3>2, <3>3, <1>17
  <2>4. s \in TestCase /\ flipvar' \in Var
    BY <1>2, <1>4, <1>5, <1>13
  <2>. QED BY <2>1, <2>2, <2>3, <2>4 DEF FlippedFrom
<1>19. ScoresRight(s)'
  <2>1. ScoresRight(s)
    BY <1>2, <1>5
  <2>. QED BY <2>1, <1>13, SameClauses DEF ScoresRight
<1>20. ASSUME "second" \in settings'.caches PROVE PairsFrom(s)'
  <2>1. PairsHold(s, sat_var, sat_var2)
    BY <1>2, <1>5, <1>13, <1>20 DEF PairsRight
  <2>. QED BY <2>1, <1>6, <1>13, <1>17, SameClauses DEF PairsFrom, NowTrue
<1>21. ScoresBehind'
  BY <1>4, <1>5, <1>18, <1>19, <1>20 DEF ScoresBehind
<1>. QED BY <1>1, <1>14, <1>15, <1>16, <1>21 DEF SearchInv, GainsKept, Searching

-----------------------------------------------------------------------------
(* The update of the caches *)

\* The gains of options that share no clause with flipvar stay.
LEMMA FarGains ==
  ASSUME ClausesInv(clauses), flipvar \in Var, NEW v \in Var, v # flipvar, v \notin Neighbors(flipvar),
         score \in [Var -> Int]
  PROVE  Updated(score, GainChange)[v] = score[v]
<1>. DEFINE n == Len(clauses)
            f == [c \in ClauseId |-> GainChange(v, c)]
            g == [c \in 1 .. n |-> 0]
<1>1. n \in Nat /\ ClauseId = 1 .. n
  BY ClauseFacts
<1>2. ClausesOf(flipvar) \cap ClausesOf(v) = {}
  BY DEF Neighbors, ClausesOf
<1>3. SumOver({}, f) = SumOver({}, g)
  <2>1. DOMAIN f = 1 .. n /\ DOMAIN g = 1 .. n
    BY <1>1
  <2>2. Len(f) = n /\ Len(g) = n
    BY <1>1, <2>1
  <2>3. \A x : x \notin {}
    OBVIOUS
  <2>. HIDE DEF f, g
  <2>. QED BY <2>2, <2>3 DEF SumOver
<1>4. SumOver({}, g) = 0
  <2>1. g \in [1 .. n -> Int] /\ NothingAt(n, {}, g)
    BY DEF NothingAt, At
  <2>. HIDE DEF g
  <2>. QED BY <1>1, <2>1, SumNothing
<1>5. Updated(score, GainChange)[v] = score[v] + SumOver({}, f)
  BY <1>2 DEF Updated
<1>. HIDE DEF f, g
<1>. QED BY <1>3, <1>4, <1>5

LEMMA ChangedConf ==
  ASSUME nvcc_conf_change \in [Var -> Bit]
  PROVE  /\ NvccChanged \in [Var -> Bit]
         /\ NvccChanged[flipvar] = 0 \/ flipvar \notin Var
         /\ \A v \in Var : v # flipvar /\ v \in Neighbors(flipvar) => NvccChanged[v] = 1
         /\ \A v \in Var : v # flipvar /\ v \notin Neighbors(flipvar) =>
                             NvccChanged[v] = nvcc_conf_change[v]
BY DEF NvccChanged, Bit

LEMMA UpdateStep ==
  ASSUME SearchInv, Update
  PROVE  SearchInv'
<1>1. /\ pc = "update" /\ pc' = "pick"
      /\ UNCHANGED <<callVars, cur_soln, sat_count, weightVars, stackVars, smoothed>>
  BY DEF Update
<1>2. CallRight /\ TryRight /\ StackRight /\ ScoresBehind
  BY <1>1 DEF SearchInv, Searching
<1>3. ClausesInv(clauses)
  BY <1>2, CallFacts
<1>4. PICK s \in TestCase : FlippedFrom(s) /\ ScoresRight(s) /\ ("second" \in settings.caches => PairsFrom(s))
  BY <1>2 DEF ScoresBehind
<1>5. flipvar \in Var
  BY <1>4 DEF FlippedFrom
<1>6. /\ clauses' = clauses /\ settings' = settings /\ cur_soln' = cur_soln
      /\ UNCHANGED <<sat_count, clause_weight, avg_clause_weight, delta_total_clause_weight,
                     large_weight_clauses, smoothed, unsat_stack, unsatvar_stack, unsatvar_app_count,
                     total_unsat_clause_weight>>
  BY <1>1 DEF callVars, weightVars, stackVars
<1>7. clause_weight \in [ClauseId -> Int] /\ CountsHold(cur_soln, sat_count, sat_var)
  BY <1>2 DEF TryRight, Balanced
<1>8. GainsHold(score', cur_soln, clause_weight)
  BY <1>3, <1>4, <1>7, UpdatedGains DEF Update, ScoresRight
<1>9. ASSUME "second" \in settings.caches
      PROVE  /\ CountsHold(cur_soln, sat_count, sat_var') /\ PairsHold(cur_soln, sat_var', sat_var2')
             /\ SecondsHold(score2', cur_soln)
  <2>1. /\ sat_var' = [c \in ClauseId |-> PairVars[c][1]]
        /\ sat_var2' = [c \in ClauseId |-> PairVars[c][2]]
        /\ score2' = Updated(score2, Score2Change)
    BY <1>9 DEF Update, Cached
  <2>2. PairsHold(cur_soln, sat_var', sat_var2') /\ CountsHold(cur_soln, sat_count, sat_var')
    BY <2>1, <1>3, <1>4, <1>9, UpdatedPairs
  <2>3. SecondsHold(Updated(score2, Score2Change), cur_soln)
    BY <1>3, <1>4, <1>9, UpdatedSeconds DEF ScoresRight
  <2>. QED BY <2>1, <2>2, <2>3
<1>10. CountsHold(cur_soln, sat_count, sat_var')
  <2>1. CASE "second" \in settings.caches
    BY <2>1, <1>9
  <2>2. CASE "second" \notin settings.caches
    <3>1. sat_var' = sat_var
      BY <2>2 DEF Update, Cached
    <3>. QED BY <3>1, <1>7
  <2>. QED BY <2>1, <2>2
<1>11. ASSUME settings.weights = "none"
       PROVE  /\ "break" \in settings.caches => BreaksHold(break_score', cur_soln, clause_weight)
              /\ "make" \in settings.caches => MakesHold(make_score', cur_soln, clause_weight)
  <2>1. ASSUME "break" \in settings.caches PROVE BreaksHold(break_score', cur_soln, clause_weight)
    <3>1. break_score' = Updated(break_score, BreakChange)
      BY <2>1 DEF Update, Cached
    <3>2. BreaksHold(Updated(break_score, BreakChange), cur_soln, clause_weight)
      BY <2>1, <1>3, <1>4, <1>7, <1>11, UpdatedBreaks DEF ScoresRight
    <3>. QED BY <3>1, <3>2
  <2>2. ASSUME "make" \in settings.caches PROVE MakesHold(make_score', cur_soln, clause_weight)
    <3>1. make_score' = Updated(make_score, MakeChange)
      BY <2>2 DEF Update, Cached
    <3>2. MakesHold(Updated(make_score, MakeChange), cur_soln, clause_weight)
      BY <2>2, <1>3, <1>4, <1>7, <1>11, UpdatedMakes DEF ScoresRight
    <3>. QED BY <3>1, <3>2
  <2>. QED BY <2>1, <2>2
<1>12. nvcc_conf_change' = NvccChanged /\ nvcc_conf_change \in [Var -> Bit]
  BY <1>2 DEF Update, TryRight
<1>. DEFINE gains == score'
            conf  == nvcc_conf_change'
            H     == ToSet(nvccdvar_stack.items)
            K     == {v \in H : gains[v] > 0 /\ conf[v] # 0}
            P     == {v \in Var : gains[v] > 0}
            stack == nvccdvar_stack'
<1>13. Flagging(stack, K \cup (Neighbors(flipvar) \cap P))
  <2>1. Flagging(Cleaned(nvccdvar_stack, gains, conf), K)
    BY <1>2, CleanedUp DEF StackRight
  <2>2. NeighborSeq(flipvar) \in Seq(Var) /\ ToSet(NeighborSeq(flipvar)) = Neighbors(flipvar)
    BY <1>3, <1>5, NeighborItems
  <2>3. stack = StackUp(Cleaned(nvccdvar_stack, gains, conf), NeighborSeq(flipvar), P)
    BY DEF Update
  <2>. HIDE DEF gains, conf, H, K, P, stack
  <2>4. Flagging(StackUp(Cleaned(nvccdvar_stack, gains, conf), NeighborSeq(flipvar), P),
                 K \cup (ToSet(NeighborSeq(flipvar)) \cap P))
    BY <2>1, <2>2, StackedUp
  <2>. QED BY <2>2, <2>3, <2>4
<1>14. ToSet(stack.items) = K \cup (Neighbors(flipvar) \cap P)
  BY <1>13 DEF Flagging
<1>15. /\ conf \in [Var -> Bit] /\ conf[flipvar] = 0
       /\ \A v \in Var : v # flipvar /\ v \in Neighbors(flipvar) => conf[v] = 1
       /\ \A v \in Var : v # flipvar /\ v \notin Neighbors(flipvar) => conf[v] = nvcc_conf_change[v]
  BY <1>5, <1>12, ChangedConf
<1>16. score \in [Var -> Int] /\ score' \in [Var -> Int] /\ gains = Updated(score, GainChange)
  BY <1>4, <1>8 DEF ScoresRight, GainsHold, Update
<1>17. ASSUME NEW v \in ToSet(stack.items) PROVE v \in Var /\ gains[v] > 0 /\ conf[v] = 1
  <2>1. H \subseteq Var
    <3>1. nvccdvar_stack.items \in Seq(Var)
      BY <1>2 DEF StackRight, Flagging, FlagRecord
    <3>. QED BY <3>1 DEF ToSet
  <2>2. CASE v \in K
    BY <2>1, <2>2, <1>15 DEF Bit
  <2>3. CASE v \in Neighbors(flipvar) \cap P
    <3>1. v # flipvar
      BY <2>3 DEF Neighbors
    <3>. QED BY <2>3, <3>1, <1>15
  <2>. QED BY <1>14, <1>17, <2>2, <2>3
<1>18. ASSUME NEW v \in Var, ~smoothed, gains[v] > 0, conf[v] = 1 PROVE v \in ToSet(stack.items)
  <2>1. v # flipvar
    BY <1>15, <1>18
  <2>2. CASE v \in Neighbors(flipvar)
    BY <2>2, <1>14, <1>18
  <2>3. CASE v \notin Neighbors(flipvar)
    <3>1. gains[v] = score[v]
      BY <2>1, <2>3, <1>3, <1>5, <1>16, FarGains
    <3>2. v \in H
      BY <2>1, <2>3, <3>1, <1>2, <1>15, <1>18 DEF StackRight, Complete
    <3>. QED BY <3>2, <1>14, <1>18
  <2>. QED BY <2>2, <2>3
<1>19. StackRight'
  <2>1. Flagging(nvccdvar_stack', ToSet(nvccdvar_stack'.items))
    BY <1>13, <1>14
  <2>. QED BY <2>1, <1>6, <1>18 DEF StackRight, Complete
<1>20. CallRight'
  BY <1>1, <1>2, CallUnmoved
<1>21. TryRight'
  <2>1. Stacks' = Stacks
    BY <1>6 DEF Stacks
  <2>2. nvcc_conf_change' \in [Var -> Bit]
    BY <1>15
  <2>. HIDE DEF gains, conf, H, K, P, stack
  <2>. QED BY <2>1, <2>2, <1>2, <1>6, <1>10, SameClauses DEF TryRight
<1>22. ScoresRight(cur_soln)'
  <2>. HIDE DEF gains, conf, H, K, P, stack
  <2>. QED BY <1>6, <1>8, <1>9, <1>11, SameClauses DEF ScoresRight
<1>23. PairsRight'
  BY <1>6, <1>9, SameClauses DEF PairsRight
<1>24. (\A v \in Stacked : Promising(v))'
  BY <1>17 DEF Stacked, Promising
<1>. QED BY <1>1, <1>19, <1>20, <1>21, <1>22, <1>23, <1>24 DEF SearchInv, GainsKept, Searching

-----------------------------------------------------------------------------
(* A new try *)

LEMMA StartsRight ==
  ASSUME CallRight
  PROVE  InitialSolutions \subseteq TestCase
<1>1. settings.init \in {"given", "random", "all", "each"} /\ init_soln \in TestCase
  BY DEF CallRight, Settings
<1>. DEFINE most(b) == SumOver(ClauseId, [c \in ClauseId |->
                         Cardinality({p \in DOMAIN clauses[c] : LitValue(clauses[c][p]) = b})])
            all  == [v \in Var |-> IF most(1) > most(0) THEN 1 ELSE 0]
            each == [v \in Var |-> IF LitCount(v, 1) > LitCount(v, 0) THEN 1 ELSE 0]
<1>2. /\ settings.init = "given"  => InitialSolutions = {init_soln}
      /\ settings.init = "random" => InitialSolutions = TestCase
      /\ settings.init = "all"    => InitialSolutions = {all}
      /\ settings.init = "each"   => InitialSolutions = {each}
  BY DEF InitialSolutions
<1>. HIDE DEF most
<1>3. all \in TestCase /\ each \in TestCase
  BY DEF TestCase, Bit
<1>. HIDE DEF all, each
<1>. QED BY <1>1, <1>2, <1>3

\* The counts of a new try, where pairs are noted if the settings ask for them.
LEMMA InitCounts ==
  ASSUME ClausesInv(clauses), NEW s, NEW count, NEW sole, NEW other, NEW paired \in BOOLEAN,
         count = [c \in ClauseId |-> Cardinality(TrueVars(s, c))],
         \A c \in ClauseId :
           /\ count[c] = 1 => sole[c] = Last(TrueSeq(s, c))
           /\ count[c] = 2 /\ paired => sole[c] = TrueSeq(s, c)[1] /\ other[c] = TrueSeq(s, c)[2]
  PROVE  CountsHold(s, count, sole) /\ (paired => PairsHold(s, sole, other))
<1>1. ASSUME NEW c \in ClauseId
      PROVE  count[c] = Cardinality(TrueVars(s, c)) /\ (count[c] = 1 => TrueVars(s, c) = {sole[c]})
  <2>1. count[c] = Cardinality(TrueVars(s, c))
    OBVIOUS
  <2>2. ASSUME count[c] = 1 PROVE TrueVars(s, c) = {sole[c]}
    BY <2>1, <2>2, SoleTrue
  <2>. QED BY <2>1, <2>2
<1>2. ASSUME paired, NEW c \in ClauseId, Cardinality(TrueVars(s, c)) = 2
      PROVE  TrueVars(s, c) = {sole[c], other[c]}
  <2>1. count[c] = 2
    BY <1>2
  <2>2. sole[c] = TrueSeq(s, c)[1] /\ other[c] = TrueSeq(s, c)[2]
    BY <2>1, <1>2
  <2>3. TrueVars(s, c) = {TrueSeq(s, c)[1], TrueSeq(s, c)[2]}
    BY <1>2, TwoTrue
  <2>. QED BY <2>2, <2>3
<1>. QED BY <1>1, <1>2 DEF CountsHold, PairsHold

LEMMA InitBalance ==
  ASSUME ClausesInv(clauses)
  PROVE  /\ Balanced(Ones, 1, 0) /\ Listed(<<>>, Ones) /\ <<>> \in Seq(ClauseId)
         /\ Ones \in [ClauseId -> Int]
<1>. DEFINE n == Len(clauses)
<1>1. n \in Nat /\ ClauseId = 1 .. n
  BY ClauseFacts
<1>2. Ones \in [1 .. n -> Int] /\ \A c \in 1 .. n : Ones[c] = 1
  BY <1>1 DEF Ones
<1>3. SumOver(1 .. n, Ones) = Cardinality(1 .. n)
  <2>1. (1 .. n) \in SUBSET (1 .. n)
    OBVIOUS
  <2>. HIDE DEF n
  <2>. QED BY <1>1, <1>2, <2>1, SumCounts
<1>4. Cardinality(1 .. n) = n
  <2>1. 1 \in Int /\ n \in Int
    BY <1>1
  <2>. HIDE DEF n
  <2>2. Cardinality(1 .. n) = IF 1 > n THEN 0 ELSE n - 1 + 1
    BY <2>1, FS_Interval
  <2>. QED BY <2>2, <1>1
<1>5. SumOver(ClauseId, Ones) = n
  BY <1>1, <1>3, <1>4
<1>6. Ones \in [ClauseId -> Nat \ {0}]
  BY DEF Ones
<1>7. Balanced(Ones, 1, 0)
  <2>. HIDE DEF n
  <2>1. n = 1 * n + 0 /\ 0 \in 0 .. n
    BY <1>1
  <2>. QED BY <2>1, <1>5, <1>6 DEF Balanced, n
<1>8. Listed(<<>>, Ones)
  <2>. DEFINE e == <<>>
  <2>1. e \in Seq(ClauseId) /\ DOMAIN e = {} /\ Distinct(e) /\ ToSet(e) = {}
    BY DEF Distinct, ToSet
  <2>2. {c \in ClauseId : Ones[c] > 1} = {}
    BY <1>1, <1>2
  <2>. HIDE DEF e
  <2>3. Listed(e, Ones)
    BY <2>1, <2>2 DEF Listed
  <2>. QED BY <2>3 DEF e
<1>. QED BY <1>1, <1>2, <1>7, <1>8

\* The stack of promising options of a new try.
LEMMA InitStacked ==
  ASSUME NEW P \in SUBSET Var
  PROVE  Flagging(StackUp(NoneStacked, [k \in 1 .. NumVar |-> k - 1], P), P)
<1>. DEFINE all == [k \in 1 .. NumVar |-> k - 1]
<1>1. all \in Seq(Var) /\ ToSet(all) = Var
  <2>1. NumVar \in Nat
    BY NumVarAssumption
  <2>2. \A k \in 1 .. NumVar : k - 1 \in Var
    BY <2>1 DEF Var
  <2>3. all \in Seq(Var) /\ DOMAIN all = 1 .. NumVar
    BY <2>1, <2>2
  <2>4. ASSUME NEW v \in Var PROVE v \in ToSet(all)
    <3>1. v + 1 \in 1 .. NumVar /\ all[v + 1] = v
      BY <2>1 DEF Var
    <3>. HIDE DEF all
    <3>. QED BY <3>1, <2>3 DEF ToSet
  <2>5. ToSet(all) \subseteq Var
    BY <2>2, <2>3 DEF ToSet
  <2>. QED BY <2>3, <2>4, <2>5
<1>2. Flagging(NoneStacked, {})
  <2>. DEFINE e == <<>>
  <2>1. e \in Seq(Var) /\ DOMAIN e = {} /\ Distinct(e) /\ ToSet(e) = {}
    BY DEF Distinct, ToSet
  <2>2. NoneStacked.items = e /\ NoneStacked.in = [v \in Var |-> FALSE]
        /\ NoneStacked = [items |-> e, in |-> [v \in Var |-> FALSE]]
    BY DEF NoneStacked
  <2>3. [v \in Var |-> FALSE] \in [Var -> BOOLEAN]
    OBVIOUS
  <2>. HIDE DEF e
  <2>4. NoneStacked \in FlagRecord
    BY <2>1, <2>2, <2>3 DEF FlagRecord
  <2>5. \A v \in Var : ~NoneStacked.in[v]
    BY <2>2
  <2>. QED BY <2>1, <2>2, <2>4, <2>5 DEF Flagging
<1>. HIDE DEF all
<1>3. Flagging(StackUp(NoneStacked, all, P), {} \cup (ToSet(all) \cap P))
  BY <1>1, <1>2, StackedUp
<1>4. {} \cup (ToSet(all) \cap P) = P
  BY <1>1
<1>. QED BY <1>3, <1>4 DEF all

LEMMA InitTryStep ==
  ASSUME SearchInv, InitTry
  PROVE  SearchInv'
<1>1. pc = "init" /\ pc' = "pick" /\ UNCHANGED callVars
  BY DEF InitTry
<1>2. CallRight /\ ClausesInv(clauses)
  BY CallFacts DEF SearchInv
<1>3. clauses' = clauses /\ settings' = settings
  BY <1>1 DEF callVars
<1>4. cur_soln' \in TestCase
  BY <1>2, StartsRight DEF InitTry
<1>5. PICK s : s = cur_soln'
  OBVIOUS
<1>. DEFINE count  == sat_count'
            sole   == sat_var'
            other  == sat_var2'
            second == "second" \in settings.caches
<1>6. CountsHold(s, count, sole) /\ (second => PairsHold(s, sole, other))
  <2>1. count = [c \in ClauseId |-> Cardinality(TrueVars(s, c))]
    BY <1>5 DEF InitTry
  <2>2. \A c \in ClauseId :
          /\ count[c] = 1 => sole[c] = Last(TrueSeq(s, c))
          /\ count[c] = 2 /\ second => sole[c] = TrueSeq(s, c)[1] /\ other[c] = TrueSeq(s, c)[2]
    BY <1>5 DEF InitTry
  <2>3. second \in BOOLEAN
    OBVIOUS
  <2>. HIDE DEF count, sole, other, second
  <2>. QED BY <2>1, <2>2, <2>3, <1>2, InitCounts
<1>7. clause_weight' = Ones
  BY DEF InitTry, Ones
<1>8. /\ Balanced(Ones, 1, 0) /\ Listed(<<>>, Ones) /\ <<>> \in Seq(ClauseId)
      /\ Ones \in [ClauseId -> Int]
  BY <1>2, InitBalance
<1>9. StacksHold(InitStacks(count), FalseClauses(s), Ones)
  <2>1. count \in [ClauseId -> Int]
    <3>1. \A c \in ClauseId : Cardinality(TrueVars(s, c)) \in Nat
      BY <1>2, TrueFacts
    <3>. QED BY <3>1, <1>5 DEF InitTry
  <2>2. {c \in ClauseId : count[c] = 0} = FalseClauses(s)
    <3>1. \A c \in ClauseId : count[c] = 0 <=> TrueVars(s, c) = {}
      BY <1>2, <1>6, TrueFacts DEF CountsHold
    <3>. QED BY <3>1 DEF FalseClauses
  <2>. HIDE DEF count
  <2>. QED BY <2>1, <2>2, <1>2, InitStacksHeld
<1>10. Stacks' = InitStacks(count)
  <2>. DEFINE st == InitStacks(count)
  <2>1. st \in StackRecord
    BY <1>9 DEF StacksHold, OptionsHeld
  <2>2. SetStacks(st)
    BY DEF InitTry
  <2>. HIDE DEF st
  <2>3. Stacks' = st
    BY <2>1, <2>2 DEF SetStacks, Stacks, StackRecord
  <2>. QED BY <2>3 DEF st
<1>11. GainsHold(score', s, Ones)
  <2>1. score' = [v \in Var |-> ScoreOf(v, s, count, Ones)]
    BY <1>5, <1>7 DEF InitTry
  <2>. HIDE DEF count, sole
  <2>2. GainsHold([v \in Var |-> ScoreOf(v, s, count, Ones)], s, Ones)
    BY <1>2, <1>6, <1>8, InitGains
  <2>. QED BY <2>1, <2>2
<1>12. /\ "break" \in settings.caches => BreaksHold(break_score', s, Ones)
       /\ "make" \in settings.caches => MakesHold(make_score', s, Ones)
  <2>1. /\ "break" \in settings.caches => break_score' = [v \in Var |-> BreakOf(v, s, count, Ones)]
        /\ "make" \in settings.caches => make_score' = [v \in Var |-> MakeOf(v, count, Ones)]
    BY <1>5, <1>7 DEF InitTry, Cached
  <2>. HIDE DEF count, sole
  <2>2. /\ BreaksHold([v \in Var |-> BreakOf(v, s, count, Ones)], s, Ones)
        /\ MakesHold([v \in Var |-> MakeOf(v, count, Ones)], s, Ones)
    BY <1>2, <1>6, <1>8, InitBreaks
  <2>. QED BY <2>1, <2>2
<1>13. second => SecondsHold(score2', s)
  <2>1. second => score2' = [v \in Var |-> Score2Of(v, s, count, sole)]
    BY <1>5 DEF InitTry, Cached
  <2>. HIDE DEF count, sole, second
  <2>2. SecondsHold([v \in Var |-> Score2Of(v, s, count, sole)], s)
    BY <1>2, <1>6, InitSeconds
  <2>. QED BY <2>1, <2>2
<1>14. /\ avg_clause_weight' = 1 /\ delta_total_clause_weight' = 0 /\ large_weight_clauses' = <<>>
       /\ smoothed' = FALSE /\ nvcc_conf_change' = [v \in Var |-> 1]
  BY DEF InitTry
<1>15. nvcc_conf_change' \in [Var -> Bit] /\ \A v \in Var : nvcc_conf_change'[v] = 1
  BY <1>14 DEF Bit
<1>. DEFINE P == {v \in Var : score'[v] > 0}
<1>16. Flagging(nvccdvar_stack', P)
  <2>1. nvccdvar_stack' = StackUp(NoneStacked, [k \in 1 .. NumVar |-> k - 1], P)
    BY DEF InitTry
  <2>2. P \in SUBSET Var
    OBVIOUS
  <2>. HIDE DEF P
  <2>. QED BY <2>1, <2>2, InitStacked
<1>17. ToSet(nvccdvar_stack'.items) = P
  BY <1>16 DEF Flagging
<1>18. CallRight'
  BY <1>1, <1>2, CallUnmoved
<1>19. TryRight'
  <2>1. WeightThreshold >= 1
    BY SearchAssumption
  <2>. HIDE DEF count, sole, other, second, P
  <2>2. CountsHold(cur_soln', sat_count', sat_var')
    BY <1>5, <1>6 DEF count, sole
  <2>3. StacksHold(Stacks', FalseClauses(cur_soln'), clause_weight')
    BY <1>5, <1>7, <1>9, <1>10
  <2>. QED BY <2>1, <2>2, <2>3, <1>3, <1>4, <1>7, <1>8, <1>14, <1>15, SameClauses DEF TryRight
<1>20. StackRight'
  BY <1>15, <1>16, <1>17 DEF StackRight, Complete
<1>21. ScoresRight(cur_soln)'
  BY <1>3, <1>5, <1>7, <1>11, <1>12, <1>13, SameClauses DEF ScoresRight
<1>22. PairsRight'
  BY <1>3, <1>5, <1>6, SameClauses DEF PairsRight
<1>23. (\A v \in Stacked : Promising(v))'
  BY <1>15, <1>17 DEF Stacked, Promising
<1>. QED BY <1>1, <1>18, <1>19, <1>20, <1>21, <1>22, <1>23 DEF SearchInv, GainsKept, Searching

LEMMA SearchInvNext == SearchInv /\ [Next]_vars => SearchInv'
<1>. SUFFICES ASSUME SearchInv, [Next]_vars PROVE SearchInv'
  OBVIOUS
<1>1. CASE SetInitSolution \/ Solve \/ Solved \/ OutOfFlips \/ OutOfTries
  BY <1>1, LeaveStep
<1>2. CASE InitTry
  BY <1>2, InitTryStep
<1>3. CASE PickAnywhere \/ PickDiverse \/ PickGreedy
  BY <1>3, PickStep
<1>4. CASE PickWeighted
  BY <1>4, PickWeightedStep
<1>5. CASE Flip
  BY <1>5, FlipStep
<1>6. CASE Update
  BY <1>6, UpdateStep
<1>7. CASE UNCHANGED vars
  <2>1. /\ clauses' = clauses /\ settings' = settings /\ cur_soln' = cur_soln /\ pc' = pc
        /\ flipvar' = flipvar /\ UNCHANGED callVars
        /\ UNCHANGED <<countVars, weightVars, stackVars, scoreVars, nvcc_conf_change,
                       nvccdvar_stack, smoothed>>
    BY <1>7 DEF vars, callVars, tryVars, confVars
  <2>2. CallRight'
    BY <2>1, CallUnmoved DEF SearchInv, CallRight
  <2>3. Searching => TryRight' /\ StackRight'
    BY <2>1, SameClauses
       DEF SearchInv, TryRight, StackRight, countVars, weightVars, stackVars, scoreVars, Stacks, Complete
  <2>4. GainsKept => ScoresRight(cur_soln)' /\ PairsRight'
    BY <2>1, SameClauses DEF SearchInv, ScoresRight, PairsRight, countVars, weightVars, scoreVars
  <2>5. pc = "update" => ScoresBehind'
    <3>. SUFFICES ASSUME pc = "update" PROVE ScoresBehind'
      OBVIOUS
    <3>1. PICK s \in TestCase :
            FlippedFrom(s) /\ ScoresRight(s) /\ ("second" \in settings.caches => PairsFrom(s))
      BY DEF SearchInv, ScoresBehind
    <3>2. FlippedFrom(s)'
      BY <2>1, <3>1, SameClauses DEF FlippedFrom, FlippedAt, NowTrue, countVars
    <3>3. ScoresRight(s)'
      BY <2>1, <3>1, SameClauses DEF ScoresRight, weightVars, scoreVars
    <3>4. "second" \in settings.caches => PairsFrom(s)'
      BY <2>1, <3>1, SameClauses DEF PairsFrom, NowTrue, countVars
    <3>. QED BY <2>1, <3>2, <3>3, <3>4 DEF ScoresBehind
  <2>6. pc = "pick" => (\A v \in Stacked : Promising(v))'
    BY <2>1 DEF SearchInv, Stacked, Promising, scoreVars
  <2>. QED BY <2>1, <2>2, <2>3, <2>4, <2>5, <2>6 DEF SearchInv, Searching, GainsKept
<1>. QED BY <1>1, <1>2, <1>3, <1>4, <1>5, <1>6, <1>7 DEF Next

-----------------------------------------------------------------------------
(* What it says of the properties *)

LEMMA SearchProperties ==
  ASSUME SearchInv
  PROVE  CountsExact /\ StacksExact /\ WeightsBalanced /\ StackPromising /\ ResultValid
<1>1. ASSUME Searching PROVE TryRight /\ StackRight
  BY <1>1 DEF SearchInv
<1>2. CountsExact
  BY <1>1 DEF CountsExact, TryRight, CountsHold
<1>3. StacksExact
  <2>. SUFFICES ASSUME Searching
                PROVE  /\ Indexed(unsat_stack) /\ ToSet(unsat_stack.items) = FalseClauses(cur_soln)
                       /\ Indexed(unsatvar_stack)
                       /\ \A v \in Var :
                            /\ unsatvar_app_count[v] = Cardinality(ClausesOf(v) \cap FalseClauses(cur_soln))
                            /\ v \in ToSet(unsatvar_stack.items) <=> unsatvar_app_count[v] > 0
                       /\ total_unsat_clause_weight = FalseWeight(cur_soln)
    BY DEF StacksExact
  <2>1. StacksHold(Stacks, FalseClauses(cur_soln), clause_weight)
    BY <1>1 DEF TryRight
  <2>2. /\ Stacks.unsat = unsat_stack /\ Stacks.var = unsatvar_stack
        /\ Stacks.app = unsatvar_app_count /\ Stacks.total = total_unsat_clause_weight
    BY DEF Stacks
  <2>3. /\ Holding(unsat_stack, ClauseId, FalseClauses(cur_soln))
        /\ Holding(unsatvar_stack, Var, {v \in Var : unsatvar_app_count[v] > 0})
        /\ \A v \in Var : unsatvar_app_count[v] = Cardinality(ClausesOf(v) \cap FalseClauses(cur_soln))
        /\ total_unsat_clause_weight = SumOver(FalseClauses(cur_soln), clause_weight)
    BY <2>1, <2>2 DEF StacksHold, OptionsHeld
  <2>. QED BY <2>3 DEF Holding, FalseWeight
<1>4. WeightsBalanced
  BY <1>1 DEF WeightsBalanced, TryRight, Balanced, Listed, Distinct
<1>5. StackPromising
  <2>. SUFFICES ASSUME pc = "pick"
                PROVE  /\ \A v \in Var : nvccdvar_stack.in[v] <=> v \in Stacked
                       /\ \A j, k \in DOMAIN nvccdvar_stack.items :
                            nvccdvar_stack.items[j] = nvccdvar_stack.items[k] => j = k
                       /\ \A v \in Stacked : Promising(v)
                       /\ ~smoothed => \A v \in Var : Promising(v) => v \in Stacked
    BY DEF StackPromising
  <2>1. StackRight
    BY <1>1 DEF Searching
  <2>2. /\ \A v \in Var : nvccdvar_stack.in[v] <=> v \in Stacked
        /\ Distinct(nvccdvar_stack.items)
    BY <2>1 DEF StackRight, Flagging, Stacked
  <2>3. ~smoothed => \A v \in Var : Promising(v) => v \in Stacked
    BY <2>1 DEF StackRight, Complete, Promising, Stacked
  <2>. QED BY <2>2, <2>3 DEF Distinct, SearchInv
<1>6. ResultValid
  BY DEF SearchInv, CallRight
<1>. QED BY <1>2, <1>3, <1>4, <1>5, <1>6

LEMMA SearchScores ==
  ASSUME SearchInv
  PROVE  ScoresExact /\ BreakMakeExact /\ SecondScoresExact
<1>. SUFFICES ASSUME GainsKept PROVE ScoresExact /\ BreakMakeExact /\ SecondScoresExact
  BY DEF ScoresExact, BreakMakeExact, SecondScoresExact
<1>1. ScoresRight(cur_soln) /\ PairsRight /\ TryRight /\ ClausesInv(clauses)
  BY CallFacts DEF SearchInv, GainsKept, Searching
<1>2. cur_soln \in TestCase /\ clause_weight \in [ClauseId -> Int]
      /\ CountsHold(cur_soln, sat_count, sat_var)
  BY <1>1 DEF TryRight, Balanced
<1>3. \A v : FlippedAt(cur_soln, v, Flipped(v))
  BY DEF FlippedAt, Flipped
<1>4. ScoresExact
  <2>. SUFFICES ASSUME NEW v \in Var
                PROVE  score[v] = FalseWeight(cur_soln) - FalseWeight(Flipped(v))
    BY DEF ScoresExact
  <2>1. score[v] = SumOver(ClauseId, GainAt(cur_soln, clause_weight, v))
    BY <1>1 DEF ScoresRight, GainsHold
  <2>. QED BY <2>1, <1>1, <1>2, <1>3, GainExact DEF FalseWeight
<1>5. BreakMakeExact
  <2>. SUFFICES ASSUME settings.weights = "none", NEW v \in Var
                PROVE  /\ "break" \in settings.caches => break_score[v] =
                            SumOver(FalseClauses(Flipped(v)) \ FalseClauses(cur_soln), clause_weight)
                       /\ "make" \in settings.caches => make_score[v] =
                            SumOver(FalseClauses(cur_soln) \ FalseClauses(Flipped(v)), clause_weight)
    BY DEF BreakMakeExact
  <2>1. /\ FalseClauses(Flipped(v)) \ FalseClauses(cur_soln) = Broken(cur_soln, v)
        /\ FalseClauses(cur_soln) \ FalseClauses(Flipped(v)) = Made(cur_soln, v)
    BY <1>1, <1>2, <1>3, BrokenMade
  <2>. QED BY <2>1, <1>1 DEF ScoresRight, BreaksHold, MakesHold
<1>6. SecondScoresExact
  <2>. SUFFICES ASSUME "second" \in settings.caches
                PROVE  /\ \A c \in TrueTwice(cur_soln) : TrueVars(cur_soln, c) = {sat_var[c], sat_var2[c]}
                       /\ \A v \in Var :
                            score2[v] = Cardinality(TrueOnce(cur_soln) \cap TrueTwice(Flipped(v)))
                                          - Cardinality(TrueTwice(cur_soln) \cap TrueOnce(Flipped(v)))
    BY DEF SecondScoresExact
  <2>1. PairsHold(cur_soln, sat_var, sat_var2) /\ SecondsHold(score2, cur_soln)
    BY <1>1 DEF PairsRight, ScoresRight
  <2>2. \A c \in TrueTwice(cur_soln) : TrueVars(cur_soln, c) = {sat_var[c], sat_var2[c]}
    BY <2>1 DEF TrueTwice, PairsHold
  <2>3. ASSUME NEW v \in Var
        PROVE  score2[v] = Cardinality(TrueOnce(cur_soln) \cap TrueTwice(Flipped(v)))
                             - Cardinality(TrueTwice(cur_soln) \cap TrueOnce(Flipped(v)))
    <3>1. /\ TrueOnce(cur_soln) \cap TrueTwice(Flipped(v)) = Joined(cur_soln, v)
          /\ TrueTwice(cur_soln) \cap TrueOnce(Flipped(v)) = Parted(cur_soln, v)
      BY <1>1, <1>2, <1>3, SecondExact
    <3>2. score2[v] = SumOver(ClauseId, SecondAt(cur_soln, v))
      BY <2>1 DEF SecondsHold
    <3>. QED BY <3>1, <3>2, <1>1, SecondCounts
  <2>. QED BY <2>2, <2>3
<1>. QED BY <1>4, <1>5, <1>6

-----------------------------------------------------------------------------

\* Through every call, try, flip and weighting, of every file and under all
\* settings, the caches of the search are those of its assignment.
THEOREM SearchInvariant == Spec => []SearchInv
  BY InitRight, SearchInvNext, PTL DEF Spec

\* The counts of true literals that flip() adjusts are those of the assignment,
\* and sat_var names the option of a clause that is true by one alone.
THEOREM CountsExactAlways == Spec => []CountsExact
  BY SearchInvariant, SearchProperties, PTL

\* However sat and unsat pop out of the middle, the stacks hold exactly the false
\* clauses and their options, with the counts and the weight that go with them.
THEOREM StacksExactAlways == Spec => []StacksExact
  BY SearchInvariant, SearchProperties, PTL

\* The increments of update_score, of both weighting schemes, of smoothing and of
\* PAWS's lowering keep each score what a flip would gain.
THEOREM ScoresExactAlways == Spec => []ScoresExact
  BY SearchInvariant, SearchScores, PTL

\* Without weighting, break_score and make_score are the weights a flip would
\* make false and true.
THEOREM BreakMakeExactAlways == Spec => []BreakMakeExact
  BY SearchInvariant, SearchScores, PTL

\* The two options of a clause with two true literals are noted, and score2 counts
\* what a flip does to clauses with one and two of them.
THEOREM SecondScoresExactAlways == Spec => []SecondScoresExact
  BY SearchInvariant, SearchScores, PTL

\* The average and its remainder account for all weights, through smoothing and
\* lowering; smoothing brings the average back to its threshold, and PAWS lists
\* the heavy clauses.
THEOREM WeightsBalancedAlways == Spec => []WeightsBalanced
  BY SearchInvariant, SearchProperties, PTL

\* The stack the greedy heuristics look at holds what is worth flipping only, and
\* all of it while no weight has fallen.
THEOREM StackPromisingAlways == Spec => []StackPromising
  BY SearchInvariant, SearchProperties, PTL

\* A solution handed back is a model of the file as it was given, with its
\* tautologies and repeated literals.
THEOREM ResultValidAlways == Spec => []ResultValid
  BY SearchInvariant, SearchProperties, PTL
=============================================================================
