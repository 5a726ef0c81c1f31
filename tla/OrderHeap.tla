----------------------------- MODULE OrderHeap -----------------------------
(***************************************************************************)
(* order_heap: Minisat's Heap<VarOrderLt>, an array with the index of each *)
(* option in it.  Its order is that of activities or, for the sampler      *)
(* without VSIDS, of shuffled_var, which get_solution rewrites while the   *)
(* heap is full.  Positions are 1-based: the parent of i is i \div 2.      *)
(* Activities are kept as keys that fall as the activity grows; rescaling  *)
(* them all alike changes no comparison.                                   *)
(***************************************************************************)
EXTENDS CNF, FiniteSetsExt, SequencesExt

CONSTANT MaxKey   \* bound: keys are 0 .. MaxKey

ASSUME MaxKeyAssumption == MaxKey \in Nat /\ MaxKey >= NumVar - 1

VARIABLES
  order_heap,  \* [heap, indices]: the array, and positions in it (0: not in heap)
  key,         \* -activity or shuffled_var
  use_VSIDS,
  stale,       \* history: keys were rewritten since the heap was empty or rebuilt
  out          \* what removeMin returned last

hvars == <<order_heap, key, use_VSIDS, stale, out>>

lt(q, x, y) == q[x] < q[y]   \* in the order of keys q

inHeap(x) == order_heap.indices[x] # 0

\* The items of f at their positions, in the array and in the indices.
Place(g, f) ==
  [heap    |-> [k \in DOMAIN g.heap |-> IF k \in DOMAIN f THEN f[k] ELSE g.heap[k]],
   indices |-> [x \in Var |-> IF \E k \in DOMAIN f : f[k] = x
                              THEN CHOOSE k \in DOMAIN f : f[k] = x
                              ELSE g.indices[x]]]

\* The positions from i to the root, upwards.
PathUp(i) == LET up[k \in 0 .. i] == IF k = 0 THEN {} ELSE {k} \cup up[k \div 2] IN up[i]

\* The item at i rises past ancestors as long as it comes before them.
PercolateUp(q, g, i) ==
  LET x == g.heap[i]
      highest == Min({t \in PathUp(i) :
                        \A p \in PathUp(i) : t <= p /\ p < i => lt(q, x, g.heap[p])})
      path == {p \in PathUp(i) : p >= highest}
  IN  Place(g, [p \in path |-> IF p = highest THEN x ELSE g.heap[p \div 2]])

\* Fault: the right child is never looked at.
LeftChild(q, s, i) == 2 * i

\* The child that comes first.
Child(q, s, i) ==
  IF 2 * i + 1 <= Len(s) /\ lt(q, s[2 * i + 1], s[2 * i]) THEN 2 * i + 1 ELSE 2 * i

\* The item at i sinks past the first child as long as that comes before it.
PercolateDown(q, g, i) ==
  LET s == g.heap
      Sinks(k) == 2 * k <= Len(s) /\ lt(q, s[Child(q, s, k)], s[i])
      path[k \in DOMAIN s] == {k} \cup IF Sinks(k) THEN path[Child(q, s, k)] ELSE {}
  IN  Place(g, [p \in path[i] |-> IF Sinks(p) THEN s[Child(q, s, p)] ELSE s[i]])

-----------------------------------------------------------------------------
HInit ==
  /\ order_heap = [heap |-> <<>>, indices |-> [x \in Var |-> 0]]
  /\ use_VSIDS \in BOOLEAN
  /\ key = [x \in Var |-> IF use_VSIDS THEN MaxKey ELSE x]
  /\ stale = FALSE
  /\ out = -1

Pushed(g, x) ==
  [heap    |-> Append(g.heap, x),
   indices |-> [g.indices EXCEPT ![x] = Len(g.heap) + 1]]

\* insertVarOrder, from setDecisionVar and cancelUntil.
Insert(x) ==
  /\ ~inHeap(x)
  /\ order_heap' = PercolateUp(key, Pushed(order_heap, x), Len(order_heap.heap) + 1)
  /\ UNCHANGED <<key, use_VSIDS, stale, out>>

\* Fault: the first item is taken off the indices before the last moves up.
TakenFirst(g) ==
  LET last == Last(g.heap)
  IN  [heap    |-> Front([g.heap EXCEPT ![1] = last]),
       indices |-> [[g.indices EXCEPT ![g.heap[1]] = 0] EXCEPT ![last] = 1]]

\* The last item moves to the front; the first is off the indices, also if
\* it was the last.
Taken(g) ==
  LET last == Last(g.heap)
  IN  [heap    |-> Front([g.heap EXCEPT ![1] = last]),
       indices |-> [[g.indices EXCEPT ![last] = 1] EXCEPT ![g.heap[1]] = 0]]

\* pickBranchLit pops the option that comes first.
RemoveMin ==
  /\ order_heap.heap # <<>>
  /\ order_heap' = IF Len(order_heap.heap) > 2 THEN PercolateDown(key, Taken(order_heap), 1)
                   ELSE Taken(order_heap)
  /\ stale' = (stale /\ Len(order_heap.heap) > 1)
  /\ out' = order_heap.heap[1]
  /\ UNCHANGED <<key, use_VSIDS>>

\* varBumpActivity raises an activity and moves the option up, also when the
\* order is not by activity.
Bump(x) ==
  /\ IF use_VSIDS
     THEN \E k \in 0 .. key[x] - 1 : key' = [key EXCEPT ![x] = k]
     ELSE UNCHANGED key
  /\ order_heap' = IF inHeap(x) THEN PercolateUp(key', order_heap, order_heap.indices[x])
                   ELSE order_heap
  /\ UNCHANGED <<use_VSIDS, stale, out>>

\* The options S in ascending order.
Ascending(S) ==
  {s \in [1 .. Cardinality(S) -> S] : \A j, k \in DOMAIN s : j < k => s[j] < s[k]}

\* build: the items s, then each inner position sinks, the last one first.
Built(q, g, s) ==
  LET half    == Len(s) \div 2
      start   == [heap    |-> s,
                  indices |-> [x \in Var |-> IF \E k \in DOMAIN s : s[k] = x
                                             THEN CHOOSE k \in DOMAIN s : s[k] = x
                                             ELSE IF x \in ToSet(g.heap) THEN 0
                                             ELSE g.indices[x]]]
      sunk[k \in 0 .. half] ==
        IF k = 0 THEN start ELSE PercolateDown(q, sunk[k - 1], half + 1 - k)
  IN  sunk[half]

\* rebuildOrderHeap: the options S that have no value.
Rebuild(S) ==
  /\ \E s \in Ascending(S) : order_heap' = Built(key, order_heap, s)
  /\ stale' = FALSE
  /\ UNCHANGED <<key, use_VSIDS, out>>

\* get_solution copies a new order into shuffled_var and leaves the heap.
Reshuffle ==
  /\ ~use_VSIDS
  /\ key' \in {f \in [Var -> Var] : \A x, y \in Var : f[x] = f[y] => x = y}
  /\ stale' = (stale \/ order_heap.heap # <<>>)
  /\ UNCHANGED <<order_heap, use_VSIDS, out>>

HNext ==
  \/ \E x \in Var : Insert(x) \/ Bump(x)
  \/ RemoveMin \/ Reshuffle
  \/ \E S \in SUBSET Var : Rebuild(S)

HSpec == HInit /\ [][HNext]_hvars

-----------------------------------------------------------------------------
(* Properties *)

\* Array and indices say the same: no option is in the heap twice, is missing
\* from it while inHeap says it is there, or is kept out while it is not.
IndicesExact ==
  /\ \A k \in DOMAIN order_heap.heap : order_heap.indices[order_heap.heap[k]] = k
  /\ \A x \in Var : inHeap(x) => /\ order_heap.indices[x] \in DOMAIN order_heap.heap
                                 /\ order_heap.heap[order_heap.indices[x]] = x

\* Every option put in comes out once, whatever happens to the keys under the
\* heap; and the least key first, unless keys were rewritten under it.
Pool == INSTANCE VarPool WITH pool <- ToSet(order_heap.heap)
ImplementsPool == Pool!PoolSpec
=============================================================================
