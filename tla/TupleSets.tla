----------------------------- MODULE TupleSets -----------------------------
(***************************************************************************)
(* What the rest of the program takes a SimpleBitSet for: a variable that  *)
(* holds a set of 2-tuples, by value.  A default-constructed or moved-from *)
(* one holds nothing and may only be assigned to, moved or destroyed.      *)
(***************************************************************************)
EXTENDS CNF

CONSTANT Obj

VARIABLES holds,   \* the sets: a function from the objects that hold one
          empty,   \* live objects that hold none
          ret      \* what set or unset returned last

tvars == <<holds, empty, ret>>

Live == DOMAIN holds \cup empty

TInit == holds = [o \in {} |-> {}] /\ empty = {} /\ ret = FALSE

\* Object o gets value S; the others keep theirs.
Put(f, o, S) == [x \in DOMAIN f \cup {o} |-> IF x = o THEN S ELSE f[x]]
Drop(f, o)   == [x \in DOMAIN f \ {o} |-> f[x]]

TNew(o) ==
  /\ o \notin Live
  /\ \/ holds' = Put(holds, o, {}) /\ UNCHANGED empty
     \/ empty' = empty \cup {o} /\ UNCHANGED holds
  /\ UNCHANGED ret

\* o becomes a copy of p, constructed or assigned.
TCopy(o, p) ==
  /\ p \in DOMAIN holds
  /\ holds' = Put(holds, o, holds[p])
  /\ empty' = empty \ {o}
  /\ UNCHANGED ret

\* o takes over what p holds.
TMove(o, p) ==
  /\ p \in Live /\ o # p
  /\ IF p \in empty
     THEN holds' = Drop(holds, o) /\ empty' = empty \cup {o}
     ELSE /\ holds' = Put(Drop(holds, p), o, holds[p])
          /\ empty' = (empty \ {o}) \cup {p}
  /\ UNCHANGED ret

TDestroy(o) ==
  /\ o \in Live
  /\ holds' = Drop(holds, o)
  /\ empty' = empty \ {o}
  /\ UNCHANGED ret

TSet(o, t) ==
  /\ o \in DOMAIN holds
  /\ ret' = (t \notin holds[o])
  /\ holds' = [holds EXCEPT ![o] = @ \cup {t}]
  /\ UNCHANGED empty

TUnset(o, t) ==
  /\ o \in DOMAIN holds
  /\ ret' = (t \in holds[o])
  /\ holds' = [holds EXCEPT ![o] = @ \ {t}]
  /\ UNCHANGED empty

TDifference(o, p) ==
  /\ {o, p} \subseteq DOMAIN holds
  /\ holds' = [holds EXCEPT ![o] = @ \ holds[p]]
  /\ UNCHANGED <<empty, ret>>

TNext ==
  \E o \in Obj :
    \/ TNew(o) \/ TDestroy(o)
    \/ \E p \in Obj : TCopy(o, p) \/ TMove(o, p) \/ TDifference(o, p)
    \/ \E t \in Tuple : TSet(o, t) \/ TUnset(o, t)

TSpec == TInit /\ [][TNext]_tvars
=============================================================================
