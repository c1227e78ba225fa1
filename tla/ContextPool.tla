---------------------------- MODULE ContextPool ----------------------------
(***************************************************************************)
(* The pool of CPU contexts in the memory of the WASM module               *)
(* (binds/js/qe6502_js.c): a stack of free contexts and a flag for each    *)
(* context.  Its functions are operators on a record, the module's static  *)
(* variables, so that a caller may call several of them in one step.       *)
(***************************************************************************)
EXTENDS Integers

CONSTANT Capacity   \* QE6502JS_CONTEXT_POOL_CAPACITY

ASSUME CapacityAssumption == Capacity \in Nat \ {0}

Contexts == 0 .. Capacity - 1

Null == -1          \* the null pointer
Stray == -2         \* a pointer to anything that is not a context

Pointers == Contexts \cup {Null, Stray}

(* The static variables before the first call.                             *)
Fresh ==
  [ free |-> [i \in Contexts |-> Null], is_free |-> [c \in Contexts |-> FALSE],
    count |-> 0, ready |-> FALSE ]

(* qe6502js_context_pool_reset()                                           *)
PoolReset ==
  [ free |-> [i \in Contexts |-> i], is_free |-> [c \in Contexts |-> TRUE],
    count |-> Capacity, ready |-> TRUE ]

Ready(pool) == IF pool.ready THEN pool ELSE PoolReset

(* The context at the top of the stack, and the pool without it.           *)
Top(pool) == pool.free[pool.count - 1]

(* Mutant: the flag of the context taken is not cleared.                   *)
WithoutTopKeepsFlag(pool) == [pool EXCEPT !.count = @ - 1]

WithoutTop(pool) ==
  [ free |-> pool.free, is_free |-> [pool.is_free EXCEPT ![Top(pool)] = FALSE],
    count |-> pool.count - 1, ready |-> pool.ready ]

(* qe6502js_context_alloc(): the context, or null, and the pool left.      *)
Alloc(pool) ==
  LET ready == Ready(pool)
  IN  IF ready.count = 0
      THEN [ctx |-> Null, pool |-> ready]
      ELSE [ctx |-> Top(ready), pool |-> WithoutTop(ready)]

(* qe6502js_context_free(ctx): anything that is not a context in use is    *)
(* ignored.                                                                *)
Free(pool, ctx) ==
  IF ~pool.ready \/ ctx \notin Contexts \/ pool.is_free[ctx] \/ pool.count >= Capacity
  THEN pool
  ELSE [ free |-> [pool.free EXCEPT ![pool.count] = ctx],
         is_free |-> [pool.is_free EXCEPT ![ctx] = TRUE],
         count |-> pool.count + 1, ready |-> pool.ready ]

-----------------------------------------------------------------------------
(* What makes a pool usable: the contexts on the stack are different ones, *)
(* and they are the ones the flags call free.                              *)
OnStack(pool) == { pool.free[i] : i \in 0 .. pool.count - 1 }

WellFormed(pool) ==
  /\ \A i, j \in 0 .. pool.count - 1 : pool.free[i] = pool.free[j] => i = j
  /\ OnStack(pool) = { c \in Contexts : pool.is_free[c] }
=============================================================================
