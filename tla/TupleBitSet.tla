---------------------------- MODULE TupleBitSet ----------------------------
(***************************************************************************)
(* SimpleBitSet: sets of 2-tuples in heap-allocated words, with a counter  *)
(* kept by increments and hand-written copy and move operations.  std::sort*)
(* and vector<pair<.., SimpleBitSet>> call all of them on pq.              *)
(*                                                                         *)
(* An object is a record of its fields; siz is never read and left out.    *)
(* An address of the heap may be reused as soon as it has been deleted.    *)
(***************************************************************************)
EXTENDS TupleIndex

CONSTANTS Obj,       \* names of SimpleBitSet objects
          Address,   \* heap addresses, nullptr excluded
          Null,      \* nullptr
          Touched    \* the tuples set and unset are called with

ASSUME BitSetAssumption == Null \notin Address /\ Touched \subseteq Tuple

VARIABLES heap,   \* the arrays allocated: a function from addresses
          obj,    \* the objects alive: a function from Obj
          ret     \* the result of the last set or unset

bvars == <<heap, obj, ret>>

Alive    == DOMAIN obj
Free     == Address \ DOMAIN heap

\* Objects with words: neither default-constructed nor moved from.
Holding == {o \in Alive : obj[o].cap > 0}

NullObject == [arr |-> Null, cap |-> 0, cnt |-> 0]

With(f, x, y)  == [z \in DOMAIN f \cup {x} |-> IF z = x THEN y ELSE f[z]]
Without(f, x)  == [z \in DOMAIN f \ {x} |-> f[z]]

BInit == /\ heap = [a \in {} |-> <<>>]
         /\ obj = [o \in {} |-> NullObject]
         /\ ret = FALSE

-----------------------------------------------------------------------------
(* Constructors, assignments, destructor *)

Default(o) ==
  /\ o \notin Alive
  /\ obj' = With(obj, o, NullObject)
  /\ UNCHANGED <<heap, ret>>

\* SimpleBitSet(num_tuple_all_possible_)
Sized(o) ==
  /\ o \notin Alive
  /\ \E a \in Free :
       /\ heap' = With(heap, a, [w \in 0 .. Capacity - 1 |-> {}])
       /\ obj' = With(obj, o, [arr |-> a, cap |-> Capacity, cnt |-> 0])
  /\ UNCHANGED ret

\* Fault: delete [] is left out (every assignment leaks).
DeletedNever(h, o) == h

\* delete [] arr, a no-op on nullptr.
Deleted(h, o) ==
  IF obj[o].arr = Null THEN h ELSE Without(h, obj[o].arr)

\* Fault: the words are shared, as a compiler-generated copy would.
CopyShallow(o, p) ==
  /\ p \in Holding /\ o # p
  /\ heap' = IF o \in Alive THEN Deleted(heap, o) ELSE heap
  /\ obj' = With(obj, o, obj[p])
  /\ UNCHANGED ret

\* The copy constructor (o not alive) and copy assignment: a new array, filled
\* from the source.  Assigning an object to itself changes nothing.  A source
\* without words is never copied: the array for it, of no words but with one
\* initialiser, may be refused.
Copy(o, p) ==
  /\ p \in Holding /\ o # p
  /\ LET kept == IF o \in Alive THEN Deleted(heap, o) ELSE heap
     IN  \E a \in Address \ DOMAIN kept :
           /\ heap' = With(kept, a, [w \in 0 .. obj[p].cap - 1 |-> heap[obj[p].arr][w]])
           /\ obj' = With(obj, o, [obj[p] EXCEPT !.arr = a])
  /\ UNCHANGED ret

\* The move constructor and move assignment: p's array changes hands.
Move(o, p) ==
  /\ p \in Alive /\ o # p
  /\ heap' = IF o \in Alive THEN Deleted(heap, o) ELSE heap
  /\ obj' = With([obj EXCEPT ![p] = NullObject], o, obj[p])
  /\ UNCHANGED ret

Destroy(o) ==
  /\ o \in Alive
  /\ heap' = Deleted(heap, o)
  /\ obj' = Without(obj, o)
  /\ UNCHANGED ret

-----------------------------------------------------------------------------
(* Bits *)

Get(o, t) == BitOf(t) \in heap[obj[o].arr][WordOf(t)]

\* Fault: every call counts.
SetAlwaysCounts(o, t) ==
  /\ o \in Holding
  /\ heap' = [heap EXCEPT ![obj[o].arr][WordOf(t)] = @ \cup {BitOf(t)}]
  /\ obj' = [obj EXCEPT ![o].cnt = @ + 1]
  /\ ret' = ~Get(o, t)

Set(o, t) ==
  /\ o \in Holding
  /\ ret' = ~Get(o, t)
  /\ IF Get(o, t) THEN UNCHANGED <<heap, obj>>
     ELSE /\ heap' = [heap EXCEPT ![obj[o].arr][WordOf(t)] = @ \cup {BitOf(t)}]
          /\ obj' = [obj EXCEPT ![o].cnt = @ + 1]

Unset(o, t) ==
  /\ o \in Holding
  /\ ret' = Get(o, t)
  /\ IF ~Get(o, t) THEN UNCHANGED <<heap, obj>>
     ELSE /\ heap' = [heap EXCEPT ![obj[o].arr][WordOf(t)] = @ \ {BitOf(t)}]
          /\ obj' = [obj EXCEPT ![o].cnt = @ - 1]

\* difference_: word by word, counting the bits taken out.
Difference(o, p) ==
  /\ {o, p} \subseteq Holding
  /\ LET mine   == heap[obj[o].arr]
         theirs == heap[obj[p].arr]
         common == {wb \in (0 .. obj[o].cap - 1) \X (0 .. WordBits - 1) :
                      wb[2] \in mine[wb[1]] \cap theirs[wb[1]]}
     IN  /\ heap' = [heap EXCEPT ![obj[o].arr] =
                       [w \in 0 .. obj[o].cap - 1 |-> mine[w] \ theirs[w]]]
         /\ obj' = [obj EXCEPT ![o].cnt = @ - Cardinality(common)]
  /\ UNCHANGED ret

BNext ==
  \E o \in Obj :
    \/ Default(o) \/ Sized(o) \/ Destroy(o)
    \/ \E p \in Obj : Copy(o, p) \/ Move(o, p) \/ Difference(o, p)
    \/ \E t \in Touched : Set(o, t) \/ Unset(o, t)

BSpec == BInit /\ [][BNext]_bvars

-----------------------------------------------------------------------------
(* Properties *)

\* Types: the counter never falls below 0, and an object has all its words
\* or none.
BitSetTypeOK ==
  /\ Alive \subseteq Obj
  /\ obj \in [Alive -> [arr : Address \cup {Null}, cap : {0, Capacity}, cnt : Nat]]
  /\ DOMAIN heap \subseteq Address
  /\ ret \in BOOLEAN

\* Every array is owned by exactly one live object and no object points to
\* a deleted one: destructors free each array once, and nothing leaks.
ArraysOwned ==
  /\ \A o \in Alive :
       obj[o].arr # Null =>
         /\ obj[o].arr \in DOMAIN heap
         /\ heap[obj[o].arr] \in [0 .. obj[o].cap - 1 -> SUBSET (0 .. WordBits - 1)]
  /\ \A a \in DOMAIN heap :
       \E o \in Alive : obj[o].arr = a /\ \A p \in Alive \ {o} : obj[p].arr # a

\* The tuples whose bit is set in o.
Contents(o) == {t \in Tuple : Get(o, t)}

\* The counter, only ever moved by increments, popcounts and copies, is the
\* number of tuples in the set: count() is what gains are compared by.
CountExact == \A o \in Holding : obj[o].cnt = Cardinality(Contents(o))

\* A SimpleBitSet is a set of tuples held by value: no two tuples share a
\* bit and no operation on one object is seen through another.
Value == INSTANCE TupleSets WITH
           holds <- [o \in Holding |-> Contents(o)],
           empty <- Alive \ Holding

ImplementsSets == Value!TSpec
=============================================================================
