------------------------------ MODULE VarPool ------------------------------
(***************************************************************************)
(* What MinisatSearch takes order_heap for: a set of options that hands    *)
(* out each of its members once, in any order if their keys were rewritten *)
(* since it was last empty or rebuilt, else the least key first.           *)
(***************************************************************************)
EXTENDS CNF

CONSTANT MaxKey   \* bound: keys are 0 .. MaxKey

VARIABLES pool,    \* the options it holds
          key,     \* the order is by key, the least first
          stale,   \* keys were rewritten under it
          out      \* the option handed out last, -1 at the start

poolVars == <<pool, key, stale, out>>

Key == 0 .. MaxKey

PoolInit ==
  /\ pool = {} /\ key \in [Var -> Key]
  /\ stale = FALSE /\ out = -1

PoolInsert(x) ==
  /\ x \notin pool
  /\ pool' = pool \cup {x}
  /\ UNCHANGED <<key, stale, out>>

PoolTake ==
  /\ \E x \in pool :
       /\ stale \/ \A y \in pool : key[x] <= key[y]
       /\ pool' = pool \ {x}
       /\ stale' = (stale /\ pool # {x})
       /\ out' = x
  /\ UNCHANGED key

PoolLower(x) ==
  /\ \E k \in 0 .. key[x] : key' = [key EXCEPT ![x] = k]
  /\ UNCHANGED <<pool, stale, out>>

PoolRewrite ==
  /\ key' \in [Var -> Key]
  /\ stale' = (stale \/ pool # {})
  /\ UNCHANGED <<pool, out>>

PoolRebuild ==
  /\ pool' \in SUBSET Var
  /\ stale' = FALSE
  /\ UNCHANGED <<key, out>>

PoolNext ==
  \/ \E x \in Var : PoolInsert(x) \/ PoolLower(x)
  \/ PoolTake \/ PoolRewrite \/ PoolRebuild

PoolSpec == PoolInit /\ [][PoolNext]_poolVars
=============================================================================
