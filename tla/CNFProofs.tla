----------------------------- MODULE CNFProofs -----------------------------
(***************************************************************************)
(* Facts every other proof uses: about numbers, recursive functions,       *)
(* literals and sums, and about 2-tuples and test cases, above all how     *)
(* many tuples there are in all and in one row of the scan.                *)
(***************************************************************************)
EXTENDS CNF, SequenceTheorems, FiniteSetTheorems, WellFoundedInduction, TLAPS

-----------------------------------------------------------------------------
(* Numbers, recursion and literals *)

\* A set of naturals has a least element.
LEMMA NatMinimum ==
  ASSUME NEW T, T \subseteq Nat, T # {}
  PROVE  \E m \in T : \A k \in T : m <= k
<1>1. PICK m \in T : \A k \in T : ~ (<<k, m>> \in OpToRel(<, Nat))
  BY NatLessThanWellFounded, WFMin
<1>2. ASSUME NEW k \in T PROVE m <= k
  <2>1. <<k, m>> \in Nat \X Nat
    OBVIOUS
  <2>2. ~(k < m)
    BY <1>1, <2>1 DEF OpToRel
  <2>3. k \in Nat /\ m \in Nat
    OBVIOUS
  <2>. QED BY <2>2, <2>3
<1>. QED BY <1>2

\* The value step gives at k depends on the values below k alone.
LooksBack(S, D, step) ==
  /\ step \in [S \X [S -> D] -> D]
  /\ \A k \in S, f, g \in [S -> D] :
       (\A j \in S : j < k => f[j] = g[j]) => step[<<k, f>>] = step[<<k, g>>]

Recursive(S, D, step, f) == f \in [S -> D] /\ \A k \in S : f[k] = step[<<k, f>>]

\* A function defined by recursion over a bounded set of numbers exists.
LEMMA RecursiveFunction ==
  ASSUME NEW n \in Nat, NEW S \in SUBSET (0 .. n), NEW D, NEW d \in D, NEW step,
         LooksBack(S, D, step)
  PROVE  \E f : Recursive(S, D, step, f)
<1>. DEFINE Upto(m) == \E f \in [S -> D] : \A k \in S : k < m => f[k] = step[<<k, f>>]
            Bad == {m \in Nat : ~Upto(m)}
<1>0. ASSUME NEW k \in S PROVE k \in Nat /\ k <= n
  <2>1. k \in 0 .. n
    OBVIOUS
  <2>. QED BY <2>1
<1>1. Upto(0)
  <2>. DEFINE f == [k \in S |-> d]
  <2>1. f \in [S -> D] /\ \A k \in S : ~(k < 0)
    OBVIOUS
  <2>. QED BY <2>1
<1>2. ASSUME NEW m \in Nat, Upto(m) PROVE Upto(m + 1)
  <2>1. PICK f \in [S -> D] : \A k \in S : k < m => f[k] = step[<<k, f>>]
    BY <1>2
  <2>2. CASE m \in S
    <3>. DEFINE g == [f EXCEPT ![m] = step[<<m, f>>]]
    <3>1. g \in [S -> D] /\ g[m] = step[<<m, f>>] /\ \A k \in S : k # m => g[k] = f[k]
      BY <2>2 DEF LooksBack
    <3>. HIDE DEF g
    <3>2. ASSUME NEW k \in S, k < m + 1 PROVE g[k] = step[<<k, g>>]
      <4>1. ASSUME NEW j \in S, j < k PROVE g[j] = f[j]
        <5>1. j # m
          BY <4>1, <3>2
        <5>. QED BY <5>1, <3>1
      <4>2. step[<<k, g>>] = step[<<k, f>>]
        BY <4>1, <3>1 DEF LooksBack
      <4>3. k = m \/ k < m
        BY <3>2
      <4>. QED BY <4>2, <4>3, <3>1, <2>1
    <3>3. g \in [S -> D] /\ \A k \in S : k < m + 1 => g[k] = step[<<k, g>>]
      BY <3>1, <3>2
    <3>. QED BY <3>3
  <2>3. CASE m \notin S
    <3>1. ASSUME NEW k \in S, k < m + 1 PROVE k < m
      BY <2>3, <1>0, <3>1
    <3>. QED BY <2>1, <3>1
  <2>. QED BY <2>2, <2>3
<1>3. Bad = {}
  <2>. SUFFICES ASSUME Bad # {} PROVE FALSE
    OBVIOUS
  <2>1. PICK m \in Bad : \A k \in Bad : m <= k
    BY NatMinimum
  <2>2. m # 0 /\ m \in Nat
    BY <1>1, <2>1
  <2>3. m - 1 \in Nat /\ m - 1 \notin Bad /\ m = (m - 1) + 1
    <3>1. m - 1 \in Nat /\ ~(m <= m - 1) /\ m = (m - 1) + 1
      BY <2>2
    <3>. HIDE DEF Bad
    <3>. QED BY <3>1, <2>1
  <2>4. Upto(m - 1)
    BY <2>3
  <2>5. Upto((m - 1) + 1)
    BY <2>3, <2>4, <1>2
  <2>. QED BY <2>3, <2>5, <2>1
<1>4. PICK f \in [S -> D] : \A k \in S : k < n + 1 => f[k] = step[<<k, f>>]
  <2>. HIDE DEF Upto
  <2>1. Upto(n + 1)
    BY <1>3
  <2>. QED BY <2>1 DEF Upto
<1>5. ASSUME NEW k \in S PROVE f[k] = step[<<k, f>>]
  <2>1. k < n + 1
    BY <1>0
  <2>. QED BY <1>4, <2>1
<1>. QED BY <1>5 DEF Recursive

\* What holds of 0 and goes from each number to the next holds up to n.
LEMMA UpTo ==
  ASSUME NEW n \in Nat, NEW T, 0 \in T, \A k \in 1 .. n : k - 1 \in T => k \in T
  PROVE  \A k \in 0 .. n : k \in T
<1>. DEFINE Bad == {k \in 0 .. n : k \notin T}
<1>. SUFFICES ASSUME Bad # {} PROVE FALSE
  OBVIOUS
<1>1. PICK m \in Bad : \A k \in Bad : m <= k
  <2>1. Bad \subseteq Nat
    OBVIOUS
  <2>. HIDE DEF Bad
  <2>. QED BY <2>1, NatMinimum
<1>2. m \in 1 .. n /\ m - 1 \in 0 .. n /\ ~(m <= m - 1)
  OBVIOUS
<1>3. m - 1 \notin Bad
  <2>. HIDE DEF Bad
  <2>. QED BY <1>1, <1>2
<1>. QED BY <1>1, <1>2, <1>3

\* A recursion in which each value is computed from the one before is defined,
\* and stays in the sets G if every step does.
StepsIn(n, G, b, F) == b \in G[0] /\ \A k \in 1 .. n : \A x \in G[k - 1] : F[k][x] \in G[k]

RunsIn(n, G, b, F, f) ==
  /\ f = [k \in 0 .. n |-> IF k = 0 THEN b ELSE F[k][f[k - 1]]]
  /\ \A k \in 0 .. n : f[k] \in G[k]

LEMMA Iteration ==
  ASSUME NEW n \in Nat, NEW G, NEW b, NEW F, StepsIn(n, G, b, F)
  PROVE  \E f : RunsIn(n, G, b, F, f)
<1>0. b \in G[0] /\ \A k \in 1 .. n : \A x \in G[k - 1] : F[k][x] \in G[k]
  BY DEF StepsIn
<1>. DEFINE Runs(m) == \E f : /\ f = [k \in 0 .. m |-> IF k = 0 THEN b ELSE F[k][f[k - 1]]]
                              /\ \A k \in 0 .. m : f[k] \in G[k]
            T == {m \in 0 .. n : Runs(m)}
<1>1. Runs(0)
  <2>. DEFINE f == [k \in 0 .. 0 |-> b]
  <2>1. \A k \in 0 .. 0 : k = 0
    OBVIOUS
  <2>2. f = [k \in 0 .. 0 |-> IF k = 0 THEN b ELSE F[k][f[k - 1]]]
    BY <2>1
  <2>3. \A k \in 0 .. 0 : f[k] \in G[k]
    BY <2>1, <1>0
  <2>. HIDE DEF f
  <2>. QED BY <2>2, <2>3
<1>2. ASSUME NEW m \in 1 .. n, Runs(m - 1) PROVE Runs(m)
  <2>1. PICK f : /\ f = [k \in 0 .. m - 1 |-> IF k = 0 THEN b ELSE F[k][f[k - 1]]]
                 /\ \A k \in 0 .. m - 1 : f[k] \in G[k]
    BY <1>2
  <2>. DEFINE g == [k \in 0 .. m |-> IF k = m THEN F[m][f[m - 1]] ELSE f[k]]
  <2>2. ASSUME NEW k \in 0 .. m
        PROVE  g[k] = (IF k = 0 THEN b ELSE F[k][g[k - 1]]) /\ g[k] \in G[k]
    <3>1. CASE k = m
      <4>1. m - 1 \in 0 .. m /\ m - 1 # m /\ m - 1 \in 0 .. m - 1 /\ m # 0
        OBVIOUS
      <4>2. g[m - 1] = f[m - 1] /\ g[m] = F[m][f[m - 1]]
        BY <4>1
      <4>3. f[m - 1] \in G[m - 1]
        BY <4>1, <2>1
      <4>4. F[m][f[m - 1]] \in G[m]
        BY <4>3, <1>0
      <4>. HIDE DEF g
      <4>. QED BY <3>1, <4>1, <4>2, <4>4
    <3>2. CASE k # m
      <4>1. k \in 0 .. m - 1 /\ g[k] = f[k]
        BY <3>2
      <4>2. f[k] = (IF k = 0 THEN b ELSE F[k][f[k - 1]]) /\ f[k] \in G[k]
        BY <4>1, <2>1
      <4>3. k # 0 => g[k - 1] = f[k - 1]
        OBVIOUS
      <4>. HIDE DEF g
      <4>. QED BY <4>1, <4>2, <4>3, SMTT(30)
    <3>. QED BY <3>1, <3>2
  <2>3. g = [k \in 0 .. m |-> g[k]]
    OBVIOUS
  <2>. HIDE DEF g
  <2>4. g = [k \in 0 .. m |-> IF k = 0 THEN b ELSE F[k][g[k - 1]]]
    BY <2>2, <2>3
  <2>. QED BY <2>2, <2>4
<1>. HIDE DEF Runs
<1>3. 0 \in T /\ \A m \in 1 .. n : m - 1 \in T => m \in T
  BY <1>1, <1>2
<1>. HIDE DEF T
<1>4. n \in T
  BY <1>3, UpTo
<1>. QED BY <1>4 DEF T, Runs, RunsIn

\* Literals, their options, and their values in a test case.
LEMMA LiteralFacts ==
  /\ \A l \in Literal : /\ -l \in Literal /\ LitVar(l) \in Var /\ LitVar(-l) = LitVar(l)
                       /\ -(-l) = l /\ -l # l
  /\ \A l, m \in Literal : LitVar(l) = LitVar(m) => m = l \/ m = -l
  /\ \A tc \in TestCase, l \in Literal : Holds(tc, -l) <=> ~Holds(tc, l)
  /\ \A v \in Var, b \in Bit : /\ ToLit(v, b) \in Literal /\ LitVar(ToLit(v, b)) = v
                              /\ \A tc \in TestCase : Holds(tc, ToLit(v, b)) <=> tc[v] = b
  BY NumVarAssumption DEF Literal, LitVar, LitValue, Var, Holds, TestCase, Bit, ToLit

LEMMA LiteralsFinite == \A S \in SUBSET Literal : IsFiniteSet(S)
<1>1. IsFiniteSet(-NumVar .. NumVar)
  BY NumVarAssumption, FS_Interval
<1>2. Literal \subseteq -NumVar .. NumVar
  BY DEF Literal
<1>. QED BY <1>1, <1>2, FS_Subset

-----------------------------------------------------------------------------
(* Sums *)

\* What position c adds to SumOver(S, f).
At(S, f, c) == IF c \in S THEN f[c] ELSE 0

PartialSums(n, S, f, sum) ==
  /\ sum \in [0 .. n -> Int] /\ sum[0] = 0
  /\ \A c \in 1 .. n : sum[c] = sum[c - 1] + At(S, f, c)
  /\ SumOver(S, f) = sum[n]

LEMMA SumSteps ==
  ASSUME NEW n \in Nat, NEW S, NEW f \in [1 .. n -> Int]
  PROVE  /\ \E sum : PartialSums(n, S, f, sum)
         /\ SumOver(S, f) \in Int
         /\ \A c \in 1 .. n : At(S, f, c) \in Int
<1>. DEFINE Op(t, c) == IF c \in S THEN t + f[c] ELSE t
            IsF(g) == g = [c \in 0 .. n |-> IF c = 0 THEN 0 ELSE Op(g[c - 1], c)]
            G == [c \in 0 .. n |-> Int]
            F == [c \in 1 .. n |-> [t \in G[c - 1] |-> Op(t, c)]]
<1>1. n \in Nat /\ Len(f) = n /\ \A c \in 1 .. n : f[c] \in Int
  OBVIOUS
<1>2. 0 \in G[0]
  OBVIOUS
<1>3. ASSUME NEW c \in 1 .. n, NEW t \in G[c - 1] PROVE Op(t, c) \in G[c]
  BY <1>1
<1>4. \A c \in 1 .. n, t \in Int : Op(t, c) = t + At(S, f, c)
  BY <1>1 DEF At
<1>5. \A c \in 0 .. n : G[c] = Int
  OBVIOUS
<1>. HIDE DEF Op, G
<1>6. \E g : IsF(g)
  <2>1. StepsIn(n, G, 0, F)
    BY <1>2, <1>3 DEF StepsIn
  <2>. HIDE DEF F
  <2>2. PICK g : RunsIn(n, G, 0, F, g)
    BY <1>1, <2>1, Iteration
  <2>3. \A c \in 1 .. n : g[c - 1] \in G[c - 1]
    BY <2>2, <1>1 DEF RunsIn
  <2>4. \A c \in 1 .. n : F[c][g[c - 1]] = Op(g[c - 1], c)
    BY <2>3 DEF F
  <2>5. g = [c \in 0 .. n |-> IF c = 0 THEN 0 ELSE Op(g[c - 1], c)]
    BY <2>2, <2>4, <1>1, SMTT(30) DEF RunsIn
  <2>. QED BY <2>5
<1>. DEFINE sum == CHOOSE g : IsF(g)
<1>7. IsF(sum)
  BY <1>6, Zenon
<1>8. SumOver(S, f) = sum[n]
  BY <1>1, Zenon DEF SumOver, Op
<1>. HIDE DEF sum
<1>9. sum[0] = 0 /\ DOMAIN sum = 0 .. n /\ \A c \in 1 .. n : sum[c] = Op(sum[c - 1], c)
  BY <1>1, <1>7
<1>10. \A c \in 0 .. n : sum[c] \in Int
  <2>. DEFINE T == {c \in 0 .. n : sum[c] \in Int}
  <2>1. 0 \in T
    BY <1>9
  <2>2. ASSUME NEW c \in 1 .. n, c - 1 \in T PROVE c \in T
    BY <2>2, <1>3, <1>5, <1>9, SMTT(30)
  <2>. HIDE DEF T
  <2>3. \A c \in 0 .. n : c \in T
    BY <2>1, <2>2, UpTo
  <2>. QED BY <2>3 DEF T
<1>11. \A c \in 1 .. n : sum[c - 1] \in Int /\ sum[c] = sum[c - 1] + At(S, f, c)
  BY <1>4, <1>9, <1>10
<1>12. sum \in [0 .. n -> Int]
  <2>1. sum = [c \in 0 .. n |-> sum[c]]
    BY <1>7
  <2>. QED BY <2>1, <1>10
<1>13. PartialSums(n, S, f, sum)
  BY <1>8, <1>9, <1>11, <1>12 DEF PartialSums
<1>14. SumOver(S, f) \in Int
  BY <1>8, <1>10
<1>15. \A c \in 1 .. n : At(S, f, c) \in Int
  BY <1>1 DEF At
<1>. QED BY <1>13, <1>14, <1>15

\* Sums add up position by position.
AddsUp(n, S, f, T, g, U, h) ==
  /\ f \in [1 .. n -> Int] /\ g \in [1 .. n -> Int] /\ h \in [1 .. n -> Int]
  /\ \A c \in 1 .. n : At(S, f, c) = At(T, g, c) + At(U, h, c)

LEMMA SumLinear ==
  ASSUME NEW n \in Nat, NEW S, NEW f, NEW T, NEW g, NEW U, NEW h, AddsUp(n, S, f, T, g, U, h)
  PROVE  SumOver(S, f) = SumOver(T, g) + SumOver(U, h)
<1>0. /\ f \in [1 .. n -> Int] /\ g \in [1 .. n -> Int] /\ h \in [1 .. n -> Int]
      /\ \A c \in 1 .. n : At(S, f, c) = At(T, g, c) + At(U, h, c)
  BY DEF AddsUp
<1>1. PICK a : PartialSums(n, S, f, a)
  BY <1>0, SumSteps
<1>2. PICK b : PartialSums(n, T, g, b)
  BY <1>0, SumSteps
<1>3. PICK d : PartialSums(n, U, h, d)
  BY <1>0, SumSteps
<1>. DEFINE Same == {c \in 0 .. n : a[c] = b[c] + d[c]}
<1>4. 0 \in Same
  BY <1>1, <1>2, <1>3 DEF PartialSums
<1>5. ASSUME NEW c \in 1 .. n, c - 1 \in Same PROVE c \in Same
  <2>1. /\ a[c] = a[c - 1] + At(S, f, c) /\ b[c] = b[c - 1] + At(T, g, c)
        /\ d[c] = d[c - 1] + At(U, h, c)
    BY <1>1, <1>2, <1>3 DEF PartialSums
  <2>2. a[c - 1] \in Int /\ b[c - 1] \in Int /\ d[c - 1] \in Int
    <3>1. c - 1 \in 0 .. n
      OBVIOUS
    <3>. QED BY <3>1, <1>1, <1>2, <1>3 DEF PartialSums
  <2>3. At(T, g, c) \in Int /\ At(U, h, c) \in Int
    BY <1>0, SumSteps
  <2>4. a[c - 1] = b[c - 1] + d[c - 1] /\ At(S, f, c) = At(T, g, c) + At(U, h, c)
    BY <1>5, <1>0
  <2>5. a[c] = b[c] + d[c]
    BY <2>1, <2>2, <2>3, <2>4
  <2>. QED BY <2>5
<1>. HIDE DEF Same
<1>6. n \in Same
  BY <1>4, <1>5, UpTo
<1>. QED BY <1>1, <1>2, <1>3, <1>6 DEF Same, PartialSums

NothingAt(n, S, f) == \A c \in 1 .. n : At(S, f, c) = 0

LEMMA SumNothing ==
  ASSUME NEW n \in Nat, NEW S, NEW f \in [1 .. n -> Int], NothingAt(n, S, f)
  PROVE  SumOver(S, f) = 0
<1>1. AddsUp(n, S, f, S, f, S, f)
  BY DEF AddsUp, NothingAt
<1>2. SumOver(S, f) = SumOver(S, f) + SumOver(S, f)
  BY <1>1, SumLinear
<1>3. SumOver(S, f) \in Int
  BY SumSteps
<1>. QED BY <1>2, <1>3

SameAt(n, S, f, T, g) == \A c \in 1 .. n : At(S, f, c) = At(T, g, c)

LEMMA SumSame ==
  ASSUME NEW n \in Nat, NEW S, NEW f \in [1 .. n -> Int], NEW T, NEW g \in [1 .. n -> Int],
         SameAt(n, S, f, T, g)
  PROVE  SumOver(S, f) = SumOver(T, g)
<1>1. NothingAt(n, {}, f) /\ \A c \in 1 .. n : At({}, f, c) = 0
  BY DEF NothingAt, At
<1>2. \A c \in 1 .. n : At(T, g, c) \in Int
  BY SumSteps
<1>3. AddsUp(n, S, f, T, g, {}, f)
  BY <1>1, <1>2 DEF AddsUp, SameAt
<1>4. SumOver(S, f) = SumOver(T, g) + SumOver({}, f) /\ SumOver({}, f) = 0
  BY <1>1, <1>3, SumLinear, SumNothing
<1>5. SumOver(T, g) \in Int
  BY SumSteps
<1>. QED BY <1>4, <1>5

NoMoreAt(n, S, f, T, g) == \A c \in 1 .. n : At(S, f, c) <= At(T, g, c)

LEMMA SumNoMore ==
  ASSUME NEW n \in Nat, NEW S, NEW f \in [1 .. n -> Int], NEW T, NEW g \in [1 .. n -> Int],
         NoMoreAt(n, S, f, T, g)
  PROVE  SumOver(S, f) <= SumOver(T, g)
<1>1. PICK a : PartialSums(n, S, f, a)
  BY SumSteps
<1>2. PICK b : PartialSums(n, T, g, b)
  BY SumSteps
<1>. DEFINE Less == {c \in 0 .. n : a[c] <= b[c]}
<1>3. 0 \in Less
  BY <1>1, <1>2 DEF PartialSums
<1>4. ASSUME NEW c \in 1 .. n, c - 1 \in Less PROVE c \in Less
  <2>1. a[c] = a[c - 1] + At(S, f, c) /\ b[c] = b[c - 1] + At(T, g, c)
    BY <1>1, <1>2 DEF PartialSums
  <2>2. a[c - 1] \in Int /\ b[c - 1] \in Int
    <3>1. c - 1 \in 0 .. n
      OBVIOUS
    <3>. QED BY <3>1, <1>1, <1>2 DEF PartialSums
  <2>3. At(S, f, c) \in Int /\ At(T, g, c) \in Int
    BY SumSteps
  <2>4. a[c - 1] <= b[c - 1] /\ At(S, f, c) <= At(T, g, c)
    BY <1>4 DEF NoMoreAt
  <2>5. a[c] <= b[c]
    BY <2>1, <2>2, <2>3, <2>4
  <2>. QED BY <2>5
<1>. HIDE DEF Less
<1>5. \A c \in 0 .. n : c \in Less
  BY <1>3, <1>4, UpTo
<1>. QED BY <1>1, <1>2, <1>5 DEF Less, PartialSums

\* A sum over one position.
LEMMA SumOne ==
  ASSUME NEW n \in Nat, NEW f \in [1 .. n -> Int], NEW c \in 1 .. n
  PROVE  SumOver({c}, f) = f[c]
<1>1. PICK a : PartialSums(n, {c}, f, a)
  BY SumSteps
<1>. DEFINE T == {k \in 0 .. n : a[k] = IF c <= k THEN f[c] ELSE 0}
<1>2. 0 \in T
  BY <1>1 DEF PartialSums
<1>3. ASSUME NEW k \in 1 .. n, k - 1 \in T PROVE k \in T
  <2>1. a[k] = a[k - 1] + At({c}, f, k) /\ a[k - 1] = IF c <= k - 1 THEN f[c] ELSE 0
    BY <1>1, <1>3 DEF PartialSums
  <2>2. At({c}, f, k) = IF k = c THEN f[c] ELSE 0
    BY DEF At
  <2>3. a[k] = IF c <= k THEN f[c] ELSE 0
    BY <2>1, <2>2
  <2>. QED BY <2>3
<1>. HIDE DEF T
<1>4. \A k \in 0 .. n : k \in T
  BY <1>2, <1>3, UpTo
<1>. QED BY <1>1, <1>4 DEF T, PartialSums

\* A sum of ones counts.
LEMMA SumCounts ==
  ASSUME NEW n \in Nat, NEW S \in SUBSET (1 .. n), NEW f \in [1 .. n -> Int],
         \A c \in S : f[c] = 1
  PROVE  IsFiniteSet(S) /\ SumOver(S, f) = Cardinality(S)
<1>1. PICK a : PartialSums(n, S, f, a)
  BY SumSteps
<1>. DEFINE B(k) == S \cap (1 .. k)
            T == {k \in 0 .. n : IsFiniteSet(B(k)) /\ a[k] = Cardinality(B(k))}
<1>0. \A c \in S : c \in 1 .. n /\ c \in Nat
  OBVIOUS
<1>2. 0 \in T
  <2>1. B(0) = {}
    BY <1>0
  <2>. HIDE DEF B
  <2>2. IsFiniteSet(B(0)) /\ Cardinality(B(0)) = 0
    BY <2>1, FS_EmptySet
  <2>3. a[0] = 0
    BY <1>1 DEF PartialSums
  <2>. QED BY <2>2, <2>3
<1>3. ASSUME NEW k \in 1 .. n, k - 1 \in T PROVE k \in T
  <2>1. a[k] = a[k - 1] + At(S, f, k)
    BY <1>1 DEF PartialSums
  <2>2. IsFiniteSet(B(k - 1)) /\ a[k - 1] = Cardinality(B(k - 1))
    BY <1>3
  <2>3. CASE k \in S
    <3>1. B(k) = B(k - 1) \cup {k} /\ k \notin B(k - 1)
      BY <1>0, <2>3
    <3>2. At(S, f, k) = 1
      BY <2>3 DEF At
    <3>. HIDE DEF B
    <3>3. IsFiniteSet(B(k)) /\ Cardinality(B(k)) = Cardinality(B(k - 1)) + 1
      BY <3>1, <2>2, FS_AddElement
    <3>. QED BY <3>2, <3>3, <2>1, <2>2
  <2>4. CASE k \notin S
    <3>1. B(k) = B(k - 1)
      BY <1>0, <2>4
    <3>2. At(S, f, k) = 0
      BY <2>4 DEF At
    <3>. HIDE DEF B
    <3>3. Cardinality(B(k)) \in Nat
      BY <3>1, <2>2, FS_CardinalityType
    <3>. QED BY <3>1, <3>2, <3>3, <2>1, <2>2
  <2>. QED BY <2>3, <2>4
<1>4. B(n) = S
  BY <1>0
<1>. HIDE DEF T, B
<1>5. \A k \in 0 .. n : k \in T
  BY <1>2, <1>3, UpTo
<1>. QED BY <1>1, <1>4, <1>5 DEF T, PartialSums

\* A sum over one position more, or less.
LEMMA SumAdded ==
  ASSUME NEW n \in Nat, NEW S, NEW f \in [1 .. n -> Int], NEW c \in 1 .. n, c \notin S
  PROVE  SumOver(S \cup {c}, f) = SumOver(S, f) + f[c] /\ SumOver(S, f) \in Int
<1>1. AddsUp(n, S \cup {c}, f, S, f, {c}, f)
  BY DEF AddsUp, At
<1>2. SumOver(S \cup {c}, f) = SumOver(S, f) + SumOver({c}, f)
  BY <1>1, SumLinear
<1>. QED BY <1>2, SumOne, SumSteps

LEMMA SumRemoved ==
  ASSUME NEW n \in Nat, NEW S, NEW f \in [1 .. n -> Int], NEW c \in 1 .. n, c \in S
  PROVE  SumOver(S \ {c}, f) = SumOver(S, f) - f[c] /\ SumOver(S, f) \in Int
<1>1. (S \ {c}) \cup {c} = S /\ c \notin S \ {c}
  OBVIOUS
<1>2. SumOver(S, f) = SumOver(S \ {c}, f) + f[c] /\ SumOver(S \ {c}, f) \in Int
  BY <1>1, SumAdded
<1>3. f[c] \in Int
  OBVIOUS
<1>. QED BY <1>2, <1>3

-----------------------------------------------------------------------------
(* Tuples and sequences of test cases *)

\* TuplesOf and Feasible are sets of 2-tuples.
LEMMA TuplesInTuple ==
  /\ \A tc : TuplesOf(tc) \subseteq Tuple
  /\ \A F : Feasible(F) \subseteq Tuple
BY DEF TuplesOf, Feasible

\* The tuples of a valid test case are valid tuples.
LEMMA ModelTuplesFeasible ==
  ASSUME NEW F, NEW tc \in Models(F)
  PROVE  TuplesOf(tc) \subseteq Feasible(F)
BY DEF TuplesOf, Feasible

\* With at least two options every test case covers some tuple: no run
\* starts with a useless row.
LEMMA TuplesNonempty ==
  ASSUME NEW tc \in TestCase
  PROVE  TuplesOf(tc) # {}
<1>1. 0 \in Var /\ 1 \in Var
  BY NumVarAssumption DEF Var
<1>2. <<0, tc[0], 1, tc[1]>> \in TuplesOf(tc)
  BY <1>1 DEF TuplesOf, Tuple, Covers, TestCase
<1>. QED BY <1>2

\* There are finitely many 2-tuples.
LEMMA TupleFinite == IsFiniteSet(Tuple)
<1>. DEFINE P == (Var \X Bit) \X (Var \X Bit)
<1>. DEFINE f == [t \in Tuple |-> << <<t[1], t[2]>>, <<t[3], t[4]>> >>]
<1>1. IsFiniteSet(Var)
  BY FS_Interval, NumVarAssumption DEF Var
<1>2. IsFiniteSet(Bit)
  <2>1. IsFiniteSet({0})
    BY FS_Singleton
  <2>2. IsFiniteSet({0} \cup {1})
    BY <2>1, FS_AddElement
  <2>3. Bit = {0} \cup {1}
    BY DEF Bit
  <2>. QED BY <2>2, <2>3
<1>3. IsFiniteSet(Var \X Bit)
  BY <1>1, <1>2, FS_Product
<1>4. IsFiniteSet(P)
  BY <1>3, FS_Product
<1>5. f \in Injection(Tuple, P)
  <2>1. f \in [Tuple -> P]
    BY DEF Tuple
  <2>2. ASSUME NEW s \in Tuple, NEW t \in Tuple, f[s] = f[t]
        PROVE  s = t
    BY <2>2 DEF Tuple
  <2>. QED BY <2>1, <2>2 DEF Injection, IsInjective
<1>. QED BY <1>4, <1>5, FS_Injection

\* What the first n rows cover.
CoveredUpTo(s, n) == UNION {TuplesOf(s[k]) : k \in 1 .. n}

\* A whole sequence covers what its rows cover.
LEMMA CoveredByAll ==
  ASSUME NEW S, NEW s \in Seq(S)
  PROVE  CoveredBy(s) = CoveredUpTo(s, Len(s))
BY DEF CoveredBy, CoveredUpTo

\* A prefix covers what its rows cover.
LEMMA CoveredBySubSeq ==
  ASSUME NEW S, NEW s \in Seq(S), NEW n \in 0 .. Len(s)
  PROVE  CoveredBy(SubSeq(s, 1, n)) = CoveredUpTo(s, n)
<1>1. /\ \A k \in 1 .. n : s[k] \in S
      /\ SubSeq(s, 1, n) \in Seq(S)
      /\ Len(SubSeq(s, 1, n)) = n
      /\ \A k \in 1 .. n : SubSeq(s, 1, n)[k] = s[k]
  BY SubSeqProperties
<1>2. DOMAIN SubSeq(s, 1, n) = 1 .. n
  BY <1>1
<1>. QED BY <1>1, <1>2 DEF CoveredBy, CoveredUpTo

\* One more row adds its tuples.
LEMMA CoveredUpToNext ==
  ASSUME NEW s, NEW n \in Nat
  PROVE  CoveredUpTo(s, n + 1) = CoveredUpTo(s, n) \cup TuplesOf(s[n + 1])
<1>1. 1 .. n + 1 = (1 .. n) \cup {n + 1}
  OBVIOUS
<1>. QED BY <1>1 DEF CoveredUpTo

\* A row appended does not change what the earlier ones cover.
LEMMA CoveredUpToAppend ==
  ASSUME NEW S, NEW s \in Seq(S), NEW x \in S, NEW n \in 0 .. Len(s)
  PROVE  CoveredUpTo(Append(s, x), n) = CoveredUpTo(s, n)
<1>1. \A k \in 1 .. n : Append(s, x)[k] = s[k]
  BY AppendProperties
<1>. QED BY <1>1 DEF CoveredUpTo

-----------------------------------------------------------------------------
(* How many there are *)

\* Two disjoint parts add up.
LEMMA DisjointCount ==
  ASSUME NEW S, NEW T, IsFiniteSet(S), IsFiniteSet(T), S \cap T = {}
  PROVE  /\ IsFiniteSet(S \cup T)
         /\ Cardinality(S \cup T) = Cardinality(S) + Cardinality(T)
<1>1. /\ IsFiniteSet(S \cup T)
      /\ Cardinality(S \cup T) = Cardinality(S) + Cardinality(T) - Cardinality(S \cap T)
  BY FS_Union
<1>2. Cardinality(S \cap T) = 0
  BY FS_EmptySet
<1>3. Cardinality(S) \in Nat /\ Cardinality(T) \in Nat
  BY FS_CardinalityType
<1>. QED BY <1>1, <1>2, <1>3

\* A one-to-one map onto T counts T.
LEMMA BijectionCount ==
  ASSUME NEW S, NEW T, IsFiniteSet(S), NEW f \in [S -> T],
         \A a, b \in S : f[a] = f[b] => a = b,
         \A t \in T : \E a \in S : f[a] = t
  PROVE  IsFiniteSet(T) /\ Cardinality(T) = Cardinality(S)
<1>1. f \in Injection(S, T)
  BY DEF Injection, IsInjective
<1>2. f \in Surjection(S, T)
  BY DEF Surjection
<1>3. ExistsBijection(S, T)
  BY <1>1, <1>2 DEF ExistsBijection, Bijection
<1>. QED BY <1>3, FS_Bijection

\* An option has two values.
LEMMA BitCount == IsFiniteSet(Bit) /\ Cardinality(Bit) = 2
<1>1. IsFiniteSet({0}) /\ Cardinality({0}) = 1
  BY FS_Singleton
<1>2. IsFiniteSet({0} \cup {1}) /\ Cardinality({0} \cup {1}) = 2
  BY <1>1, FS_AddElement
<1>3. Bit = {0} \cup {1}
  BY DEF Bit
<1>. QED BY <1>2, <1>3

\* There are NumVar options.
LEMMA VarCount == IsFiniteSet(Var) /\ Cardinality(Var) = NumVar
BY FS_Interval, NumVarAssumption DEF Var

\* One row of the scan: the tuples with i and v_i fixed.
RowOf(i, b) == {t \in Tuple : t[1] = i /\ t[2] = b}

\* A row holds two tuples for every later option: what the scan subtracts at
\* once when the backbone rules v_i out.
LEMMA RowCount ==
  ASSUME NEW i \in Var, NEW b \in Bit
  PROVE  IsFiniteSet(RowOf(i, b)) /\ Cardinality(RowOf(i, b)) = 2 * (NumVar - i - 1)
<1>. DEFINE J == i + 1 .. NumVar - 1
            f == [p \in J \X Bit |-> <<i, b, p[1], p[2]>>]
<1>1. i \in 0 .. NumVar - 1 /\ NumVar \in Nat
  BY NumVarAssumption DEF Var
<1>2. IsFiniteSet(J) /\ Cardinality(J) = NumVar - i - 1
  <2>1. /\ IsFiniteSet(J)
        /\ Cardinality(J) = IF i + 1 > NumVar - 1 THEN 0 ELSE (NumVar - 1) - (i + 1) + 1
    BY <1>1, FS_Interval, i + 1 \in Int, NumVar - 1 \in Int
  <2>. QED BY <1>1, <2>1
<1>3. IsFiniteSet(J \X Bit) /\ Cardinality(J \X Bit) = (NumVar - i - 1) * 2
  <2>. HIDE DEF J
  <2>1. IsFiniteSet(J \X Bit) /\ Cardinality(J \X Bit) = Cardinality(J) * Cardinality(Bit)
    BY <1>2, BitCount, FS_Product
  <2>. QED BY <1>2, <2>1, BitCount
<1>4. /\ IsFiniteSet(RowOf(i, b))
      /\ Cardinality(RowOf(i, b)) = Cardinality(J \X Bit)
  <2>1. \A p \in J \X Bit : <<i, b, p[1], p[2]>> \in RowOf(i, b)
    BY <1>1 DEF RowOf, Tuple, Var
  <2>2. f \in [J \X Bit -> RowOf(i, b)]
    BY <2>1
  <2>3. \A p, r \in J \X Bit : f[p] = f[r] => p = r
    OBVIOUS
  <2>4. ASSUME NEW t \in RowOf(i, b) PROVE \E p \in J \X Bit : f[p] = t
    <3>1. /\ t[3] \in J /\ t[4] \in Bit
          /\ t = <<i, b, t[3], t[4]>>
      BY <1>1 DEF RowOf, Tuple, Var
    <3>2. <<t[3], t[4]>> \in J \X Bit /\ f[<<t[3], t[4]>>] = t
      BY <3>1
    <3>. QED BY <3>2
  <2>. HIDE DEF f, J
  <2>. QED BY <1>3, <2>2, <2>3, <2>4, BijectionCount, SMTT(30)
<1>. QED BY <1>1, <1>3, <1>4

\* Init2TupleInfo's n (n - 1) / 2 * 4 is the number of 2-tuples.
LEMMA TupleCount == Cardinality(Tuple) = NumTupleAllPossible
<1>. DEFINE O  == Var \X Bit
            P  == O \X O
            Lo == {p \in P : p[1][1] < p[2][1]}
            Eq == {p \in P : p[1][1] = p[2][1]}
            Hi == {p \in P : p[1][1] > p[2][1]}
            n  == NumVar
<1>1. n \in Nat /\ n >= 2 /\ \A v \in Var : v \in Int
  BY NumVarAssumption DEF Var
<1>2. IsFiniteSet(O) /\ Cardinality(O) = n * 2
  BY VarCount, BitCount, FS_Product
<1>3. IsFiniteSet(P) /\ Cardinality(P) = (n * 2) * (n * 2)
  BY <1>2, FS_Product
<1>4. /\ IsFiniteSet(Lo) /\ IsFiniteSet(Eq) /\ IsFiniteSet(Hi)
      /\ Cardinality(Lo) \in Nat /\ Cardinality(Eq) \in Nat /\ Cardinality(Hi) \in Nat
  BY <1>3, FS_Subset, FS_CardinalityType
<1>5. Cardinality(P) = Cardinality(Lo) + Cardinality(Eq) + Cardinality(Hi)
  <2>1. P = (Lo \cup Eq) \cup Hi
    BY <1>1
  <2>2. (Lo \cap Eq) = {} /\ (Lo \cup Eq) \cap Hi = {}
    BY <1>1
  <2>. HIDE DEF P, Lo, Eq, Hi
  <2>3. /\ IsFiniteSet(Lo \cup Eq)
        /\ Cardinality(Lo \cup Eq) = Cardinality(Lo) + Cardinality(Eq)
    BY <1>4, <2>2, DisjointCount
  <2>4. Cardinality((Lo \cup Eq) \cup Hi) = Cardinality(Lo \cup Eq) + Cardinality(Hi)
    BY <1>4, <2>2, <2>3, DisjointCount
  <2>. QED BY <2>1, <2>3, <2>4
<1>6. Cardinality(Hi) = Cardinality(Lo)
  <2>. DEFINE f == [p \in Lo |-> <<p[2], p[1]>>]
  <2>1. \A p \in Lo : <<p[2], p[1]>> \in Hi
    BY <1>1
  <2>2. f \in [Lo -> Hi]
    BY <2>1
  <2>3. \A p, r \in Lo : f[p] = f[r] => p = r
    OBVIOUS
  <2>4. ASSUME NEW h \in Hi PROVE \E p \in Lo : f[p] = h
    <3>1. <<h[2], h[1]>> \in Lo /\ h = <<h[1], h[2]>>
      BY <1>1
    <3>. QED BY <3>1
  <2>. HIDE DEF f, Lo, Hi
  <2>. QED BY <1>4, <2>2, <2>3, <2>4, BijectionCount
<1>7. Cardinality(Eq) = n * 4
  <2>. DEFINE Q == Var \X (Bit \X Bit)
              f == [q \in Q |-> << <<q[1], q[2][1]>>, <<q[1], q[2][2]>> >>]
  <2>1. IsFiniteSet(Bit \X Bit) /\ Cardinality(Bit \X Bit) = 4
    <3>1. /\ IsFiniteSet(Bit \X Bit)
          /\ Cardinality(Bit \X Bit) = Cardinality(Bit) * Cardinality(Bit)
      BY BitCount, FS_Product
    <3>. QED BY <3>1, BitCount
  <2>2. IsFiniteSet(Q) /\ Cardinality(Q) = n * 4
    BY <2>1, VarCount, FS_Product
  <2>3. \A q \in Q : << <<q[1], q[2][1]>>, <<q[1], q[2][2]>> >> \in Eq
    OBVIOUS
  <2>4. f \in [Q -> Eq]
    BY <2>3
  <2>5. \A q, r \in Q : f[q] = f[r] => q = r
    OBVIOUS
  <2>6. ASSUME NEW e \in Eq PROVE \E q \in Q : f[q] = e
    <3>1. /\ e[1] \in O /\ e[2] \in O /\ e[1][1] = e[2][1] /\ e = <<e[1], e[2]>>
      OBVIOUS
    <3>2. e[1] = <<e[1][1], e[1][2]>> /\ e[2] = <<e[1][1], e[2][2]>>
      BY <3>1
    <3>3. << e[1][1], <<e[1][2], e[2][2]>> >> \in Q
      BY <3>1
    <3>4. f[<< e[1][1], <<e[1][2], e[2][2]>> >>] = e
      BY <3>1, <3>2, <3>3
    <3>. QED BY <3>3, <3>4
  <2>. HIDE DEF f, Q, Eq
  <2>. QED BY <2>2, <2>4, <2>5, <2>6, BijectionCount
<1>8. Cardinality(Tuple) = Cardinality(Lo)
  <2>. DEFINE f == [t \in Tuple |-> << <<t[1], t[2]>>, <<t[3], t[4]>> >>]
  <2>1. \A t \in Tuple : << <<t[1], t[2]>>, <<t[3], t[4]>> >> \in Lo
    BY DEF Tuple
  <2>2. f \in [Tuple -> Lo]
    BY <2>1
  <2>3. \A s, t \in Tuple : f[s] = f[t] => s = t
    BY DEF Tuple
  <2>4. ASSUME NEW p \in Lo PROVE \E t \in Tuple : f[t] = p
    <3>1. /\ p[1] = <<p[1][1], p[1][2]>> /\ p[2] = <<p[2][1], p[2][2]>>
          /\ p = <<p[1], p[2]>>
      OBVIOUS
    <3>2. <<p[1][1], p[1][2], p[2][1], p[2][2]>> \in Tuple
      BY DEF Tuple
    <3>3. f[<<p[1][1], p[1][2], p[2][1], p[2][2]>>] = p
      BY <3>1, <3>2
    <3>. QED BY <3>2, <3>3
  <2>. HIDE DEF f, Lo
  <2>. QED BY <2>2, <2>3, <2>4, TupleFinite, BijectionCount
<1>. HIDE DEF O, P, Lo, Eq, Hi
<1>9. 2 * Cardinality(Tuple) = 4 * (n * (n - 1))
  <2>1. (n * 2) * (n * 2) = 4 * (n * (n - 1)) + n * 4
    BY <1>1
  <2>. QED BY <1>1, <1>3, <1>4, <1>5, <1>6, <1>7, <1>8, <2>1
<1>10. Cardinality(Tuple) = 2 * (n * (n - 1)) /\ n * (n - 1) \in Nat
  BY <1>1, <1>4, <1>8, <1>9
<1>11. \E k \in Nat : n * (n - 1) = 2 * k
  <2>1. PICK k \in Nat : n = 2 * k \/ n = 2 * k + 1
    <3>1. n = 2 * (n \div 2) \/ n = 2 * (n \div 2) + 1
      BY <1>1
    <3>2. n \div 2 \in Nat
      BY <1>1
    <3>. QED BY <3>1, <3>2
  <2>2. CASE n = 2 * k
    <3>1. n * (n - 1) = 2 * (k * (n - 1)) /\ k * (n - 1) \in Nat
      BY <1>1, <2>2
    <3>. QED BY <3>1
  <2>3. CASE n = 2 * k + 1
    <3>1. n * (n - 1) = 2 * (n * k) /\ n * k \in Nat
      BY <1>1, <2>3
    <3>. QED BY <3>1
  <2>. QED BY <2>1, <2>2, <2>3
<1>12. PICK k \in Nat : n * (n - 1) = 2 * k
  BY <1>11
<1>13. NumTupleAllPossible = ((2 * k) \div 2) * 4
  BY <1>12 DEF NumTupleAllPossible, NumCombinationAllPossible
<1>. QED BY <1>10, <1>12, <1>13
=============================================================================
