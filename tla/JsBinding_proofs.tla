-------------------------- MODULE JsBinding_proofs --------------------------
(***************************************************************************)
(* Proofs about the JavaScript binding, for every capacity of the pool and *)
(* any number of CPU objects.                                              *)
(***************************************************************************)
EXTENDS JsBinding, FiniteSetTheorems, TLAPS

(* A pool after its reset.                                                 *)
Pools ==
  [ free : [Contexts -> Contexts \cup {Null}], is_free : [Contexts -> BOOLEAN],
    count : 0 .. Capacity, ready : {TRUE} ]

-----------------------------------------------------------------------------
(* The functions of the pool.                                              *)

(* The reset leaves every context on the stack once.                       *)
LEMMA PoolResetIsWellFormed ==
  PoolReset \in Pools /\ WellFormed(PoolReset) /\ \A c \in Contexts : PoolReset.is_free[c]
<1>1. PoolReset \in Pools
  BY CapacityAssumption DEF PoolReset, Pools, Contexts
<1>2. \A i, j \in 0 .. PoolReset.count - 1 :
        PoolReset.free[i] = PoolReset.free[j] => i = j
  BY CapacityAssumption DEF PoolReset, Contexts
<1>3. OnStack(PoolReset) = Contexts
  BY CapacityAssumption DEF PoolReset, OnStack, Contexts
<1>. QED
  BY <1>1, <1>2, <1>3 DEF WellFormed, PoolReset

(* What is on the stack is a context, and free.                            *)
LEMMA OnStackIsFree ==
  ASSUME NEW p \in Pools, WellFormed(p), NEW i \in 0 .. p.count - 1
  PROVE  p.free[i] \in Contexts /\ p.is_free[p.free[i]]
BY DEF WellFormed, OnStack

(* With a context in use the stack is not full, so that the test for a     *)
(* full stack never keeps a context from being freed.                      *)
LEMMA RoomToFree ==
  ASSUME NEW p \in Pools, WellFormed(p), NEW ctx \in Contexts, ~p.is_free[ctx]
  PROVE  p.count < Capacity
<1> DEFINE slots == 0 .. p.count - 1
           others == Contexts \ {ctx}
           f == [i \in slots |-> p.free[i]]
<1>1. p.count \in Nat /\ p.count <= Capacity /\ Capacity \in Nat \ {0}
  BY CapacityAssumption DEF Pools
<1>2. \A i \in slots : p.free[i] \in others
  BY OnStackIsFree
<1>3. \A i, j \in slots : p.free[i] = p.free[j] => i = j
  BY DEF WellFormed
<1>4. f \in Injection(slots, others)
  BY <1>2, <1>3 DEF Injection, IsInjective
<1>5. IsFiniteSet(Contexts) /\ Cardinality(Contexts) = Capacity
  BY <1>1, FS_Interval DEF Contexts
<1>6. IsFiniteSet(others) /\ Cardinality(others) = Capacity - 1
  BY <1>5, FS_RemoveElement
<1>7. Cardinality(slots) <= Cardinality(others)
  BY <1>4, <1>6, FS_Injection
<1>8. Cardinality(slots) = p.count
  <2>1. p.count - 1 \in Int /\ (0 > p.count - 1 <=> p.count = 0)
    BY <1>1
  <2>2. Cardinality(slots) = IF 0 > p.count - 1 THEN 0 ELSE p.count - 1 - 0 + 1
    BY <2>1, FS_Interval
  <2>. QED
    BY <1>1, <2>1, <2>2
<1>. QED
  BY <1>1, <1>6, <1>7, <1>8

(* alloc() takes a free context and leaves the rest as it was.             *)
LEMMA AllocTakesFree ==
  ASSUME NEW p \in Pools, WellFormed(p), p.count # 0
  PROVE  LET got == Alloc(p)
         IN  /\ got.ctx \in Contexts
             /\ p.is_free[got.ctx]
             /\ got.pool \in Pools
             /\ WellFormed(got.pool)
             /\ got.pool.is_free = [p.is_free EXCEPT ![got.ctx] = FALSE]
<1> DEFINE ctx == p.free[p.count - 1]
           q == WithoutTop(p)
<1>1. p.count \in 1 .. Capacity /\ Capacity \in Nat /\ p.count - 1 \in 0 .. p.count - 1
  BY CapacityAssumption DEF Pools
<1>2. Alloc(p) = [ctx |-> ctx, pool |-> q]
  BY DEF Alloc, Ready, Pools, Top
<1>3. ctx \in Contexts /\ p.is_free[ctx]
  BY <1>1, OnStackIsFree
<1>4. /\ q.free = p.free /\ q.count = p.count - 1 /\ q.ready = p.ready
      /\ q.is_free = [p.is_free EXCEPT ![ctx] = FALSE]
      /\ q \in Pools
  <2>1. /\ q.free = p.free /\ q.count = p.count - 1 /\ q.ready = p.ready
        /\ q.is_free = [p.is_free EXCEPT ![ctx] = FALSE]
    BY DEF WithoutTop, Top
  <2>2. q.count \in 0 .. Capacity
    BY <1>1, <2>1
  <2>3. q.is_free \in [Contexts -> BOOLEAN]
    BY <2>1 DEF Pools
  <2>4. q = [free |-> q.free, is_free |-> q.is_free, count |-> q.count, ready |-> q.ready]
    BY DEF WithoutTop
  <2>. QED
    BY <2>1, <2>2, <2>3, <2>4 DEF Pools
<1>5. \A i, j \in 0 .. q.count - 1 : q.free[i] = q.free[j] => i = j
  BY <1>1, <1>4 DEF WellFormed
<1>6. OnStack(q) = OnStack(p) \ {ctx}
  <2>1. \A i \in 0 .. q.count - 1 : i \in 0 .. p.count - 1 /\ p.free[i] # ctx
    BY <1>1, <1>4 DEF WellFormed
  <2>2. \A i \in 0 .. p.count - 1 : p.free[i] # ctx => i \in 0 .. q.count - 1
    BY <1>1, <1>4
  <2>. QED
    BY <1>4, <2>1, <2>2 DEF OnStack
<1>7. OnStack(q) = { c \in Contexts : q.is_free[c] }
  BY <1>4, <1>6 DEF WellFormed, Pools
<1>8. WellFormed(q)
  BY <1>5, <1>7 DEF WellFormed
<1>9. Alloc(p).ctx = ctx /\ Alloc(p).pool = q
  BY <1>2
<1>. HIDE DEF ctx, q
<1>. QED
  BY <1>3, <1>4, <1>8, <1>9

(* With the stack empty alloc() returns null and changes nothing.          *)
LEMMA AllocExhausted ==
  ASSUME NEW p \in Pools, p.count = 0
  PROVE  Alloc(p) = [ctx |-> Null, pool |-> p]
BY DEF Alloc, Ready, Pools

(* free() puts a context in use back and leaves the rest as it was.        *)
LEMMA FreeGivesBack ==
  ASSUME NEW p \in Pools, WellFormed(p), NEW ctx \in Contexts, ~p.is_free[ctx]
  PROVE  /\ Free(p, ctx) \in Pools
         /\ WellFormed(Free(p, ctx))
         /\ Free(p, ctx).is_free = [p.is_free EXCEPT ![ctx] = TRUE]
<1> DEFINE q == Free(p, ctx)
<1>1. p.count < Capacity /\ p.count \in Nat /\ Capacity \in Nat
  <2>1. p.count < Capacity
    BY RoomToFree
  <2>. QED
    BY <2>1, CapacityAssumption DEF Pools
<1>2. q = [ free |-> [p.free EXCEPT ![p.count] = ctx],
             is_free |-> [p.is_free EXCEPT ![ctx] = TRUE],
             count |-> p.count + 1, ready |-> p.ready ]
  <2>1. p.ready
    BY DEF Pools
  <2>2. ~(p.count >= Capacity)
    BY <1>1
  <2>. QED
    BY <2>1, <2>2 DEF Free
<1>3. p.count \in Contexts
  BY <1>1 DEF Contexts
<1>4. /\ q.free = [p.free EXCEPT ![p.count] = ctx]
      /\ q.count = p.count + 1 /\ q.ready = p.ready
      /\ q.is_free = [p.is_free EXCEPT ![ctx] = TRUE]
      /\ q \in Pools
  <2>1. /\ q.free = [p.free EXCEPT ![p.count] = ctx]
        /\ q.count = p.count + 1 /\ q.ready = p.ready
        /\ q.is_free = [p.is_free EXCEPT ![ctx] = TRUE]
    BY <1>2
  <2>2. q.count \in 0 .. Capacity
    BY <1>1, <2>1
  <2>3. q.is_free \in [Contexts -> BOOLEAN] /\ q.free \in [Contexts -> Contexts \cup {Null}]
    BY <2>1, <1>3 DEF Pools
  <2>4. q = [free |-> q.free, is_free |-> q.is_free, count |-> q.count, ready |-> q.ready]
    BY <1>2
  <2>. QED
    BY <2>1, <2>2, <2>3, <2>4 DEF Pools
<1>5. \A i \in 0 .. p.count - 1 : q.free[i] = p.free[i] /\ p.free[i] # ctx
  <2>. SUFFICES ASSUME NEW i \in 0 .. p.count - 1
                PROVE  q.free[i] = p.free[i] /\ p.free[i] # ctx
    OBVIOUS
  <2>1. i \in Contexts /\ i # p.count
    BY <1>1 DEF Contexts
  <2>2. p.is_free[p.free[i]]
    BY OnStackIsFree
  <2>. QED
    BY <1>4, <2>1, <2>2 DEF Pools
<1>6. q.free[p.count] = ctx
  BY <1>3, <1>4 DEF Pools
<1>7. \A i \in 0 .. q.count - 1 : i = p.count \/ i \in 0 .. p.count - 1
  BY <1>1, <1>4
<1>8. \A i, j \in 0 .. q.count - 1 : q.free[i] = q.free[j] => i = j
  BY <1>5, <1>6, <1>7 DEF WellFormed
<1>9. OnStack(q) = OnStack(p) \cup {ctx}
  <2>1. \A i \in 0 .. p.count - 1 : i \in 0 .. q.count - 1
    BY <1>1, <1>4
  <2>2. p.count \in 0 .. q.count - 1
    BY <1>1, <1>4
  <2>. QED
    BY <1>5, <1>6, <1>7, <2>1, <2>2 DEF OnStack
<1>10. OnStack(q) = { c \in Contexts : q.is_free[c] }
  BY <1>4, <1>9 DEF WellFormed, Pools
<1>. QED
  BY <1>2, <1>4, <1>8, <1>10 DEF WellFormed

(* A call that borrows a context and returns it leaves the pool as usable  *)
(* as it was.                                                              *)
LEMMA BorrowAndReturn ==
  ASSUME NEW p \in Pools, WellFormed(p), p.count # 0
  PROVE  LET got == Alloc(p)
             back == Free(got.pool, got.ctx)
         IN  /\ got.ctx \in Contexts
             /\ p.is_free[got.ctx]
             /\ back \in Pools
             /\ WellFormed(back)
             /\ back.is_free = p.is_free
<1> DEFINE got == Alloc(p)
           q == got.pool
<1>1. /\ got.ctx \in Contexts /\ p.is_free[got.ctx] /\ q \in Pools /\ WellFormed(q)
      /\ q.is_free = [p.is_free EXCEPT ![got.ctx] = FALSE]
  BY AllocTakesFree
<1>. HIDE DEF got, q
<1>2. p.is_free \in [Contexts -> BOOLEAN]
  BY DEF Pools
<1>3. ~q.is_free[got.ctx]
  BY <1>1, <1>2
<1>4. /\ Free(q, got.ctx) \in Pools /\ WellFormed(Free(q, got.ctx))
      /\ Free(q, got.ctx).is_free = [q.is_free EXCEPT ![got.ctx] = TRUE]
  BY <1>1, <1>3, FreeGivesBack
<1>5. [q.is_free EXCEPT ![got.ctx] = TRUE] = p.is_free
  BY <1>1, <1>2
<1>. QED
  BY <1>1, <1>4, <1>5 DEF got, q

-----------------------------------------------------------------------------
(* The CPU objects and the contexts in use.                                *)
JsTypeOK ==
  /\ pool \in Pools
  /\ memory \in [Contexts -> Cores \cup Images]
  /\ cpus \in [Handles -> {Unborn} \cup Objects]
  /\ snapshot \in Images \cup {NoSnapshot}

(* A live object has a context, with a core in it.                         *)
OwnsCore ==
  \A h \in Handles :
    Alive(h) => cpus[h].ptr \in Contexts /\ memory[cpus[h].ptr] \in Cores

JsInv == JsTypeOK /\ OwnsCore /\ PoolWellFormed /\ NoLeak

(* NoLeak, owner by owner.                                                 *)
LEMMA NoLeakByOwner ==
  ASSUME JsTypeOK
  PROVE  NoLeak <=>
           /\ \A h \in Handles : Alive(h) => cpus[h].ptr \in Contexts /\ ~pool.is_free[cpus[h].ptr]
           /\ \A c \in Contexts : ~pool.is_free[c] =>
                \E h \in Handles : Alive(h) /\ cpus[h].ptr = c
           /\ \A g, h \in Handles : Alive(g) /\ Alive(h) /\ cpus[g].ptr = cpus[h].ptr => g = h
BY DEF NoLeak

(* The initial state has no owners and no context in use.                  *)
LEMMA JsInitInv == JsInit => JsInv
<1>. SUFFICES ASSUME JsInit PROVE JsInv
  OBVIOUS
<1>1. JsTypeOK
  BY PoolResetIsWellFormed, BlankAssumption DEF JsInit, JsTypeOK
<1>2. \A h \in Handles : ~Alive(h)
  BY DEF JsInit, Alive, Created
<1>3. PoolWellFormed /\ NoLeak
  BY <1>1, <1>2, PoolResetIsWellFormed DEF JsInit, PoolWellFormed, NoLeak
<1>. QED
  BY <1>1, <1>2, <1>3 DEF JsInv, OwnsCore

(* An object that has been created holds its private fields, and one that  *)
(* holds them has been created.                                            *)
LEMMA CreatedIsObject ==
  ASSUME JsTypeOK, NEW h \in Handles
  PROVE  Created(h) <=> cpus[h] \in Objects
BY MarkersAssumption DEF JsTypeOK, Created

(* A step that moves neither the flags nor the owners keeps the invariant. *)
LEMMA OwnersUnmoved ==
  ASSUME JsInv, JsTypeOK', WellFormed(pool'), pool'.is_free = pool.is_free,
         \A h \in Handles : Alive(h)' <=> Alive(h),
         \A h \in Handles : Alive(h) => cpus'[h].ptr = cpus[h].ptr,
         \A h \in Handles : Alive(h) => memory'[cpus[h].ptr] \in Cores
  PROVE  JsInv'
<1>1. \A h \in Handles : Alive(h) => cpus[h].ptr \in Contexts /\ ~pool.is_free[cpus[h].ptr]
  BY NoLeakByOwner DEF JsInv
<1>2. OwnsCore'
  BY <1>1 DEF OwnsCore
<1>3. NoLeak'
  <2>1. { cpus'[h].ptr : h \in { x \in Handles : Alive(x)' } }
          = { cpus[h].ptr : h \in { x \in Handles : Alive(x) } }
    OBVIOUS
  <2>. QED
    BY <2>1 DEF JsInv, NoLeak
<1>. QED
  BY <1>2, <1>3 DEF JsInv, PoolWellFormed

(* The pool after a call that may throw before it borrows a context.       *)
LEMMA StillUsable ==
  ASSUME JsInv, pool.count = 0
  PROVE  Alloc(pool).ctx = Null /\ Alloc(pool).pool = pool
BY AllocExhausted DEF JsInv, JsTypeOK

(* A call that throws and leaves the pool with the flags it had.           *)
LEMMA ThrowKeepsInv ==
  ASSUME JsInv, NEW reason, Throws(reason),
         pool' \in Pools, WellFormed(pool'), pool'.is_free = pool.is_free
  PROVE  JsInv'
<1>1. JsTypeOK'
  BY DEF JsInv, JsTypeOK, Throws
<1>2. \A h \in Handles : Alive(h)' <=> Alive(h)
  BY DEF Throws, Alive, Created
<1>3. \A h \in Handles : Alive(h) => memory'[cpus[h].ptr] \in Cores
  BY DEF JsInv, OwnsCore, Throws
<1>4. \A h \in Handles : Alive(h) => cpus'[h].ptr = cpus[h].ptr
  BY DEF Throws
<1>. QED
  BY <1>1, <1>2, <1>3, <1>4, OwnersUnmoved

-----------------------------------------------------------------------------
(* The steps.                                                              *)

(* createCpu() hands a free context to an object that had none.            *)
LEMMA CreateCpuKeepsInv ==
  ASSUME JsInv, NEW h \in Handles, CreateCpu(h)
  PROVE  JsInv'
<1>1. CASE pool.count = 0
  <2>1. pool' = pool /\ Throws("null")
    BY <1>1, StillUsable DEF CreateCpu
  <2>. QED
    BY <2>1, ThrowKeepsInv DEF JsInv, JsTypeOK, PoolWellFormed
<1>2. CASE pool.count # 0
  <2> DEFINE got == Alloc(pool)
             ctx == got.ctx
             object == [ptr |-> ctx, tick |-> Blank, disposed |-> FALSE]
  <2>1. /\ ctx \in Contexts /\ pool.is_free[ctx] /\ got.pool \in Pools
        /\ WellFormed(got.pool) /\ got.pool.is_free = [pool.is_free EXCEPT ![ctx] = FALSE]
    BY <1>2, AllocTakesFree DEF JsInv, JsTypeOK, PoolWellFormed
  <2>2. ctx # Null
    BY <2>1, CapacityAssumption DEF Contexts, Null
  <2>3. /\ ~Created(h) /\ pool' = got.pool
        /\ memory' = [memory EXCEPT ![ctx] = Blank]
        /\ cpus' = [cpus EXCEPT ![h] = object]
        /\ snapshot' = snapshot
    BY <2>2 DEF CreateCpu
  <2>. HIDE DEF got, ctx
  <2>4. object \in Objects /\ object.ptr = ctx /\ ~object.disposed
    BY <2>1, BlankAssumption DEF Objects
  <2>. HIDE DEF object
  <2>5. JsTypeOK'
    BY <2>1, <2>3, <2>4, BlankAssumption DEF JsInv, JsTypeOK
  <2>6. /\ pool.is_free \in [Contexts -> BOOLEAN] /\ memory \in [Contexts -> Cores \cup Images]
        /\ cpus'[h] = object /\ \A x \in Handles \ {h} : cpus'[x] = cpus[x]
    BY <2>3 DEF JsInv, JsTypeOK, Pools
  <2>7. ~Alive(h) /\ Alive(h)' /\ \A x \in Handles \ {h} : Alive(x)' <=> Alive(x)
    BY <2>3, <2>4, <2>6, MarkersAssumption DEF Alive, Created
  <2>8. /\ \A x \in Handles : Alive(x) => cpus[x].ptr \in Contexts /\ ~pool.is_free[cpus[x].ptr]
        /\ \A c \in Contexts : ~pool.is_free[c] =>
             \E x \in Handles : Alive(x) /\ cpus[x].ptr = c
        /\ \A g, x \in Handles : Alive(g) /\ Alive(x) /\ cpus[g].ptr = cpus[x].ptr => g = x
    BY NoLeakByOwner DEF JsInv
  <2>9. \A x \in Handles \ {h} : Alive(x) => cpus'[x].ptr = cpus[x].ptr /\ cpus[x].ptr # ctx
    BY <2>1, <2>6, <2>8
  <2>10. OwnsCore'
    BY <2>1, <2>3, <2>4, <2>6, <2>7, <2>8, <2>9, BlankAssumption DEF JsInv, OwnsCore
  <2>11. \A c \in Contexts : pool'.is_free[c] <=> pool.is_free[c] /\ c # ctx
    BY <2>1, <2>3, <2>6
  <2>12. /\ \A x \in Handles : Alive(x)' => cpus'[x].ptr \in Contexts /\ ~pool'.is_free[cpus'[x].ptr]
         /\ \A c \in Contexts : ~pool'.is_free[c] =>
              \E x \in Handles : Alive(x)' /\ cpus'[x].ptr = c
         /\ \A g, x \in Handles : Alive(g)' /\ Alive(x)' /\ cpus'[g].ptr = cpus'[x].ptr => g = x
    BY <2>1, <2>4, <2>6, <2>7, <2>8, <2>9, <2>11
  <2>13. NoLeak'
    BY <2>3, <2>5, <2>12 DEF NoLeak, JsTypeOK, Pools
  <2>. QED
    BY <2>1, <2>3, <2>5, <2>10, <2>13 DEF JsInv, PoolWellFormed
<1>. QED
  BY <1>1, <1>2

(* createCpu() that throws has given its context back.                     *)
LEMMA CreateCpuBadModelKeepsInv ==
  ASSUME JsInv, NEW h \in Handles, CreateCpuBadModel(h)
  PROVE  JsInv'
<1>1. CASE pool.count = 0
  <2>1. pool' = pool /\ Throws("null")
    BY <1>1, StillUsable DEF CreateCpuBadModel
  <2>. QED
    BY <2>1, ThrowKeepsInv DEF JsInv, JsTypeOK, PoolWellFormed
<1>2. CASE pool.count # 0
  <2>1. /\ Alloc(pool).ctx \in Contexts
        /\ Free(Alloc(pool).pool, Alloc(pool).ctx) \in Pools
        /\ WellFormed(Free(Alloc(pool).pool, Alloc(pool).ctx))
        /\ Free(Alloc(pool).pool, Alloc(pool).ctx).is_free = pool.is_free
    BY <1>2, BorrowAndReturn DEF JsInv, JsTypeOK, PoolWellFormed
  <2>2. Alloc(pool).ctx # Null
    BY <2>1, CapacityAssumption DEF Contexts, Null
  <2>3. pool' = Free(Alloc(pool).pool, Alloc(pool).ctx) /\ Throws("range")
    BY <2>2 DEF CreateCpuBadModel
  <2>. QED
    BY <2>1, <2>3, ThrowKeepsInv
<1>. QED
  BY <1>1, <1>2

(* A live object has private fields, a context in use, and a core in it    *)
(* that is no other object's.                                              *)
LEMMA LiveObject ==
  ASSUME JsInv, NEW h \in Handles, Alive(h)
  PROVE  /\ cpus[h] \in Objects
         /\ cpus[h].ptr \in Contexts
         /\ ~pool.is_free[cpus[h].ptr]
         /\ memory[cpus[h].ptr] \in Cores
BY CreatedIsObject, NoLeakByOwner DEF JsInv, OwnsCore, Alive

(* restart(), jumpTo(), tick(), and the setters, write the object's core.  *)
LEMMA StepKeepsInv ==
  ASSUME JsInv, NEW h \in Handles, NEW core \in Cores, Step(h, core)
  PROVE  JsInv'
<1> DEFINE object == [cpus[h] EXCEPT !.tick = core]
<1>1. cpus[h] \in Objects /\ cpus[h].ptr \in Contexts
  BY LiveObject DEF Step
<1>2. /\ Alive(h) /\ memory' = [memory EXCEPT ![cpus[h].ptr] = core]
      /\ cpus' = [cpus EXCEPT ![h] = object]
      /\ pool' = pool /\ snapshot' = snapshot
  BY DEF Step
<1>3. object \in Objects /\ object.ptr = cpus[h].ptr /\ object.disposed = cpus[h].disposed
  BY <1>1 DEF Objects
<1>. HIDE DEF object
<1>4. JsTypeOK'
  BY <1>1, <1>2, <1>3 DEF JsInv, JsTypeOK
<1>5. cpus'[h] = object /\ \A x \in Handles \ {h} : cpus'[x] = cpus[x]
  BY <1>2 DEF JsInv, JsTypeOK
<1>6. object # Unborn /\ cpus[h] # Unborn
  BY <1>1, <1>3, MarkersAssumption
<1>7. \A x \in Handles : /\ Alive(x)' <=> Alive(x)
                         /\ cpus'[x].ptr = cpus[x].ptr
  BY <1>3, <1>5, <1>6 DEF Alive, Created
<1>8. \A x \in Handles : Alive(x) => memory'[cpus[x].ptr] \in Cores
  BY <1>2, LiveObject DEF JsInv, JsTypeOK
<1>. QED
  BY <1>2, <1>4, <1>7, <1>8, OwnersUnmoved DEF JsInv, PoolWellFormed

LEMMA SetStateKeepsInv ==
  ASSUME JsInv, NEW h \in Handles, NEW core \in Cores, SetState(h, core)
  PROVE  JsInv'
<1>1. cpus[h].ptr \in Contexts
  BY LiveObject DEF SetState
<1>2. JsTypeOK'
  BY <1>1 DEF JsInv, JsTypeOK, SetState
<1>3. \A x \in Handles : Alive(x) => memory'[cpus[x].ptr] \in Cores
  BY LiveObject DEF SetState, JsInv, JsTypeOK
<1>4. pool' = pool /\ \A x \in Handles : (Alive(x)' <=> Alive(x)) /\ cpus'[x].ptr = cpus[x].ptr
  BY DEF SetState, Alive, Created
<1>. QED
  BY <1>2, <1>3, <1>4, OwnersUnmoved DEF JsInv, PoolWellFormed

(* save() writes into a context that was free, so into no object's core.   *)
LEMMA SaveKeepsInv ==
  ASSUME JsInv, NEW h \in Handles, Save(h)
  PROVE  JsInv'
<1>1. CASE pool.count = 0
  <2>1. pool' = pool /\ Throws("null")
    BY <1>1, StillUsable DEF Save
  <2>. QED
    BY <2>1, ThrowKeepsInv DEF JsInv, JsTypeOK, PoolWellFormed
<1>2. CASE pool.count # 0
  <2> DEFINE ctx == Alloc(pool).ctx
             back == Free(Alloc(pool).pool, ctx)
             image == [core |-> memory[cpus[h].ptr], tick |-> cpus[h].tick]
  <2>1. /\ ctx \in Contexts /\ pool.is_free[ctx]
        /\ back \in Pools /\ WellFormed(back) /\ back.is_free = pool.is_free
    BY <1>2, BorrowAndReturn DEF JsInv, JsTypeOK, PoolWellFormed
  <2>2. ctx # Null
    BY <2>1, CapacityAssumption DEF Contexts, Null
  <2>3. /\ Alive(h) /\ pool' = back /\ cpus' = cpus
        /\ memory' = [memory EXCEPT ![ctx] = image] /\ snapshot' = memory'[ctx]
    BY <2>2 DEF Save
  <2>4. image \in Images
    BY <2>3, LiveObject DEF Images, Objects
  <2>. HIDE DEF ctx, back, image
  <2>5. JsTypeOK'
    BY <2>1, <2>3, <2>4 DEF JsInv, JsTypeOK
  <2>6. \A x \in Handles : Alive(x) => memory'[cpus[x].ptr] \in Cores
    BY <2>1, <2>3, LiveObject DEF JsInv, JsTypeOK
  <2>7. \A x \in Handles : (Alive(x)' <=> Alive(x)) /\ cpus'[x].ptr = cpus[x].ptr
    BY <2>3 DEF Alive, Created
  <2>. QED
    BY <2>1, <2>3, <2>5, <2>6, <2>7, OwnersUnmoved
<1>. QED
  BY <1>1, <1>2

(* load() leaves the bytes it read in a context that stays free.           *)
LEMMA LoadKeepsInv ==
  ASSUME JsInv, NEW h \in Handles, Load(h)
  PROVE  JsInv'
<1>1. CASE pool.count = 0
  <2>1. pool' = pool /\ Throws("null")
    BY <1>1, StillUsable DEF Load
  <2>. QED
    BY <2>1, ThrowKeepsInv DEF JsInv, JsTypeOK, PoolWellFormed
<1>2. CASE pool.count # 0
  <2> DEFINE ctx == Alloc(pool).ctx
             back == Free(Alloc(pool).pool, ctx)
             written == [memory EXCEPT ![ctx] = snapshot]
             object == [cpus[h] EXCEPT !.tick = snapshot.tick]
  <2>1. /\ ctx \in Contexts /\ pool.is_free[ctx]
        /\ back \in Pools /\ WellFormed(back) /\ back.is_free = pool.is_free
    BY <1>2, BorrowAndReturn DEF JsInv, JsTypeOK, PoolWellFormed
  <2>2. ctx # Null
    BY <2>1, CapacityAssumption DEF Contexts, Null
  <2>3. written[ctx] = snapshot /\ written \in [Contexts -> Cores \cup Images \cup {NoSnapshot}]
    BY <2>1 DEF JsInv, JsTypeOK
  <2>4. /\ Alive(h) /\ pool' = back /\ snapshot' = snapshot /\ snapshot # NoSnapshot
        /\ memory' = [written EXCEPT ![cpus[h].ptr] = snapshot.core]
        /\ cpus' = [cpus EXCEPT ![h] = object]
    BY <2>2, <2>3 DEF Load
  <2>5. snapshot \in Images /\ snapshot.core \in Cores /\ snapshot.tick \in Cores
    BY <2>4 DEF JsInv, JsTypeOK, Images
  <2>6. /\ cpus[h] \in Objects /\ cpus[h].ptr \in Contexts
        /\ ~pool.is_free[cpus[h].ptr]
    BY <2>4, LiveObject
  <2>7. object \in Objects /\ object.ptr = cpus[h].ptr /\ object.disposed = cpus[h].disposed
    BY <2>5, <2>6 DEF Objects
  <2>8. \A c \in Contexts : c # ctx => written[c] = memory[c]
    BY <2>1 DEF JsInv, JsTypeOK
  <2>9. written \in [Contexts -> Cores \cup Images]
    BY <2>1, <2>5 DEF JsInv, JsTypeOK
  <2>. HIDE DEF ctx, back, written, object
  <2>10. JsTypeOK'
    BY <2>1, <2>4, <2>5, <2>6, <2>7, <2>9 DEF JsInv, JsTypeOK
  <2>11. cpus'[h] = object /\ \A x \in Handles \ {h} : cpus'[x] = cpus[x]
    BY <2>4 DEF JsInv, JsTypeOK
  <2>12. object # Unborn /\ cpus[h] # Unborn
    BY <2>6, <2>7, MarkersAssumption
  <2>13. \A x \in Handles : /\ Alive(x)' <=> Alive(x)
                            /\ cpus'[x].ptr = cpus[x].ptr
    BY <2>7, <2>11, <2>12 DEF Alive, Created
  <2>14. \A x \in Handles : Alive(x) => memory'[cpus[x].ptr] \in Cores
    BY <2>1, <2>4, <2>5, <2>8, <2>9, LiveObject
  <2>. QED
    BY <2>1, <2>4, <2>10, <2>13, <2>14, OwnersUnmoved
<1>. QED
  BY <1>1, <1>2

(* dispose() gives the context of a live object back, once.                *)
LEMMA DisposeKeepsInv ==
  ASSUME JsInv, NEW h \in Handles, Dispose(h)
  PROVE  JsInv'
<1>1. CASE cpus[h].disposed
  <2>1. UNCHANGED <<pool, memory, cpus, snapshot>>
    BY <1>1 DEF Dispose
  <2>. QED
    BY <2>1 DEF JsInv, JsTypeOK, OwnsCore, PoolWellFormed, NoLeak, Alive, Created
<1>2. CASE ~cpus[h].disposed
  <2> DEFINE ctx == cpus[h].ptr
             back == Free(pool, ctx)
             object == [ptr |-> Null, tick |-> Blank, disposed |-> TRUE]
  <2>1. /\ Alive(h) /\ pool' = back /\ memory' = memory /\ snapshot' = snapshot
        /\ cpus' = [cpus EXCEPT ![h] = object]
    BY <1>2 DEF Dispose, Alive
  <2>2. ctx \in Contexts /\ ~pool.is_free[ctx]
    BY <2>1, LiveObject
  <2>3. back \in Pools /\ WellFormed(back) /\ back.is_free = [pool.is_free EXCEPT ![ctx] = TRUE]
    BY <2>2, FreeGivesBack DEF JsInv, JsTypeOK, PoolWellFormed
  <2>4. object \in Objects /\ object.disposed
    BY BlankAssumption DEF Objects
  <2>. HIDE DEF back, object
  <2>5. JsTypeOK'
    BY <2>1, <2>3, <2>4 DEF JsInv, JsTypeOK
  <2>6. /\ pool.is_free \in [Contexts -> BOOLEAN]
        /\ cpus'[h] = object /\ \A x \in Handles \ {h} : cpus'[x] = cpus[x]
    BY <2>1 DEF JsInv, JsTypeOK, Pools
  <2>7. ~Alive(h)' /\ \A x \in Handles \ {h} : Alive(x)' <=> Alive(x)
    BY <2>4, <2>6 DEF Alive, Created
  <2>8. /\ \A x \in Handles : Alive(x) => cpus[x].ptr \in Contexts /\ ~pool.is_free[cpus[x].ptr]
        /\ \A c \in Contexts : ~pool.is_free[c] =>
             \E x \in Handles : Alive(x) /\ cpus[x].ptr = c
        /\ \A g, x \in Handles : Alive(g) /\ Alive(x) /\ cpus[g].ptr = cpus[x].ptr => g = x
    BY NoLeakByOwner DEF JsInv
  <2>9. \A x \in Handles \ {h} : Alive(x) => cpus'[x].ptr = cpus[x].ptr /\ cpus[x].ptr # ctx
    BY <2>1, <2>6, <2>8
  <2>. HIDE DEF ctx
  <2>10. OwnsCore'
    BY <2>1, <2>6, <2>7, <2>9 DEF JsInv, OwnsCore
  <2>11. \A c \in Contexts : pool'.is_free[c] <=> pool.is_free[c] \/ c = ctx
    BY <2>1, <2>2, <2>3, <2>6
  <2>12. /\ \A x \in Handles : Alive(x)' => cpus'[x].ptr \in Contexts /\ ~pool'.is_free[cpus'[x].ptr]
         /\ \A c \in Contexts : ~pool'.is_free[c] =>
              \E x \in Handles : Alive(x)' /\ cpus'[x].ptr = c
         /\ \A g, x \in Handles : Alive(g)' /\ Alive(x)' /\ cpus'[g].ptr = cpus'[x].ptr => g = x
    BY <2>6, <2>7, <2>8, <2>9, <2>11 DEF ctx
  <2>13. NoLeak'
    BY <2>5, <2>12 DEF NoLeak, JsTypeOK, Pools
  <2>. QED
    BY <2>1, <2>3, <2>5, <2>10, <2>13 DEF JsInv, PoolWellFormed
<1>. QED
  BY <1>1, <1>2

(* Every step keeps the invariant.                                         *)
LEMMA JsStepInv == JsInv /\ [JsNext]_jsVars => JsInv'
<1>. SUFFICES ASSUME JsInv, [JsNext]_jsVars PROVE JsInv'
  OBVIOUS
<1>1. CASE UNCHANGED jsVars
  BY <1>1 DEF jsVars, JsInv, JsTypeOK, OwnsCore, PoolWellFormed, NoLeak, Alive, Created
<1>2. CASE JsNext
  <2>. PICK h \in Handles :
         \/ CreateCpu(h) \/ CreateCpuBadModel(h)
         \/ \E core \in Cores : Step(h, core) \/ SetState(h, core)
         \/ Save(h) \/ Load(h) \/ LoadWrongSize(h)
         \/ Dispose(h) \/ CallDisposed(h)
    BY <1>2 DEF JsNext
  <2>1. ASSUME pool' = pool, NEW reason, Throws(reason) PROVE JsInv'
    BY <2>1, ThrowKeepsInv DEF JsInv, JsTypeOK, PoolWellFormed
  <2>2. CASE LoadWrongSize(h)
    BY <2>1, <2>2 DEF LoadWrongSize
  <2>3. CASE CallDisposed(h)
    BY <2>1, <2>3 DEF CallDisposed
  <2>. QED
    BY <2>2, <2>3, CreateCpuKeepsInv, CreateCpuBadModelKeepsInv, StepKeepsInv,
       SetStateKeepsInv, SaveKeepsInv, LoadKeepsInv, DisposeKeepsInv
<1>. QED
  BY <1>1, <1>2

(* Whatever the calls and however many the objects, the stack of free      *)
(* contexts and their flags agree and no context is on the stack twice.    *)
THEOREM PoolStaysWellFormed == JsSpec => []PoolWellFormed
<1>1. JsInv => PoolWellFormed
  BY DEF JsInv
<1>. QED
  BY <1>1, JsInitInv, JsStepInv, PTL DEF JsSpec

(* Whatever the calls, returning or throwing, the contexts in use are the  *)
(* live objects', one each.                                                *)
THEOREM NothingLeaks == JsSpec => []NoLeak
<1>1. JsInv => NoLeak
  BY DEF JsInv
<1>. QED
  BY <1>1, JsInitInv, JsStepInv, PTL DEF JsSpec

-----------------------------------------------------------------------------
(* Objects in a pool implement objects with a memory each.                 *)
Views == [h \in Handles |-> Seen(h)]

(* What the owner of an object sees says whether it is alive.              *)
LEMMA ViewOfObject ==
  ASSUME JsInv, NEW h \in Handles
  PROVE  /\ ~Created(h) => Seen(h) = Unborn
         /\ Created(h) /\ cpus[h].disposed => Seen(h) = Disposed
         /\ Alive(h) => /\ Seen(h) = [core |-> memory[cpus[h].ptr], tick |-> cpus[h].tick]
                        /\ Seen(h) \in Images
         /\ Alive(h) <=> Seen(h) \notin {Unborn, Disposed}
         /\ Created(h) <=> Seen(h) # Unborn
<1>1. Unborn # Disposed /\ Unborn \notin Images /\ Disposed \notin Images
  BY MarkersAssumption
<1>2. CASE Alive(h)
  <2>1. Seen(h) = [core |-> memory[cpus[h].ptr], tick |-> cpus[h].tick]
    BY <1>2 DEF Seen, Alive
  <2>2. [core |-> memory[cpus[h].ptr], tick |-> cpus[h].tick] \in Images
    BY <1>2, LiveObject DEF Images, Objects
  <2>. QED
    BY <1>1, <1>2, <2>1, <2>2 DEF Alive
<1>3. CASE ~Alive(h)
  BY <1>1, <1>3 DEF Alive, Seen
<1>. QED
  BY <1>2, <1>3

LEMMA LiveIsAlive ==
  ASSUME JsInv
  PROVE  Private!Live = { h \in Handles : Alive(h) }
BY ViewOfObject DEF Private!Live

(* The abstract specification counts with an instance of the same operator.*)
LEMMA SameCount == Private!Cardinality(Private!Live) = Cardinality(Private!Live)
BY Zenon DEF Private!Cardinality, Cardinality

(* The stack is empty exactly when as many objects live as there are       *)
(* contexts: a call that throws for want of one has no other excuse.       *)
LEMMA StackCountsTheLiving ==
  ASSUME JsInv
  PROVE  /\ pool.count = 0 => Cardinality(Private!Live) = Capacity
         /\ pool.count # 0 => Cardinality(Private!Live) < Capacity
<1> DEFINE live == { h \in Handles : Alive(h) }
           f == [h \in live |-> cpus[h].ptr]
<1>1. \A h \in live : cpus[h].ptr \in Contexts /\ ~pool.is_free[cpus[h].ptr]
  BY LiveObject
<1>2. /\ \A c \in Contexts : ~pool.is_free[c] => \E h \in live : cpus[h].ptr = c
      /\ \A g, h \in live : cpus[g].ptr = cpus[h].ptr => g = h
  BY NoLeakByOwner DEF JsInv
<1>3. f \in Injection(live, Contexts)
  BY <1>1, <1>2 DEF Injection, IsInjective
<1>4. Capacity \in Nat /\ IsFiniteSet(Contexts) /\ Cardinality(Contexts) = Capacity
  BY CapacityAssumption, FS_Interval DEF Contexts
<1>5. /\ IsFiniteSet(live) /\ Cardinality(live) <= Capacity
      /\ Cardinality(live) = Capacity <=> f \in Surjection(live, Contexts)
  BY <1>3, <1>4, FS_Injection
<1>6. Cardinality(live) \in Nat
  BY <1>5, FS_CardinalityType
<1>7. CASE pool.count = 0
  <2>1. \A c \in Contexts : ~pool.is_free[c]
    BY <1>7 DEF JsInv, PoolWellFormed, WellFormed, OnStack
  <2>2. f \in Surjection(live, Contexts)
    BY <1>1, <1>2, <2>1 DEF Surjection
  <2>. QED
    BY <1>5, <1>7, <2>2, LiveIsAlive
<1>8. CASE pool.count # 0
  <2>1. \E c \in Contexts : pool.is_free[c]
    BY <1>8, AllocTakesFree DEF JsInv, JsTypeOK, PoolWellFormed
  <2>2. f \notin Surjection(live, Contexts)
    BY <1>1, <2>1 DEF Surjection
  <2>3. Cardinality(live) < Capacity
    BY <1>4, <1>5, <1>6, <2>2
  <2>. QED
    BY <1>8, <2>3, LiveIsAlive
<1>. QED
  BY <1>7, <1>8

(* A step that changes what one owner sees.                                *)
LEMMA OneViewChanges ==
  ASSUME NEW h \in Handles, NEW v, Seen(h)' = v,
         \A x \in Handles \ {h} : Seen(x)' = Seen(x)
  PROVE  Views' = [Views EXCEPT ![h] = v]
BY DEF Views

LEMMA NoViewChanges ==
  ASSUME \A x \in Handles : Seen(x)' = Seen(x)
  PROVE  Views' = Views
BY DEF Views

(* An object is seen as it was when neither it nor its core has changed.   *)
LEMMA Undisturbed ==
  ASSUME NEW x \in Handles, cpus'[x] = cpus[x],
         Alive(x) => memory'[cpus[x].ptr] = memory[cpus[x].ptr]
  PROVE  Seen(x)' = Seen(x)
BY DEF Seen, Alive, Created

(* A call that throws leaves every view, and has the reason it gives.      *)
LEMMA ThrowRefines ==
  ASSUME NEW reason \in {"null", "disposed", "range"}, Throws(reason),
         reason = "null" => Cardinality(Private!Live) = Capacity,
         reason = "disposed" => \E h \in Handles : Seen(h) = Disposed
  PROVE  Private!Next
<1>1. \A x \in Handles : Seen(x)' = Seen(x)
  BY Undisturbed DEF Throws
<1>2. Views' = Views
  BY <1>1, NoViewChanges
<1>3. reason = "disposed" => \E h \in Handles : Views[h] = Disposed
  BY DEF Views
<1>4. outcome' = reason /\ snapshot' = snapshot
  BY DEF Throws
<1>5. Private!Throw(reason)
  BY <1>2, <1>3, <1>4, SameCount DEF Private!Throw, Views
<1>. QED
  BY <1>5 DEF Private!Next

(* The step of a live object that leaves it with this core and tick.       *)
LEMMA DriveRefines ==
  ASSUME NEW h \in Handles, NEW core \in Cores, NEW tick \in Cores, JsInv, Alive(h),
         Seen(h)' = [core |-> core, tick |-> tick],
         \A x \in Handles \ {h} : Seen(x)' = Seen(x),
         outcome' = "done", snapshot' = snapshot
  PROVE  Private!Next
<1>1. Views' = [Views EXCEPT ![h] = [core |-> core, tick |-> tick]]
  BY OneViewChanges
<1>2. h \in Private!Live
  BY LiveIsAlive
<1>3. Private!Drive(h)
  BY <1>1, <1>2 DEF Private!Drive, Views
<1>. QED
  BY <1>3 DEF Private!Next

-----------------------------------------------------------------------------
LEMMA CreateCpuRefines ==
  ASSUME JsInv, NEW h \in Handles, CreateCpu(h)
  PROVE  Private!Next
<1>1. CASE pool.count = 0
  <2>1. Throws("null")
    BY <1>1, StillUsable DEF CreateCpu
  <2>. QED
    BY <1>1, <2>1, ThrowRefines, StackCountsTheLiving
<1>2. CASE pool.count # 0
  <2> DEFINE ctx == Alloc(pool).ctx
             object == [ptr |-> ctx, tick |-> Blank, disposed |-> FALSE]
  <2>1. ctx \in Contexts /\ pool.is_free[ctx]
    BY <1>2, AllocTakesFree DEF JsInv, JsTypeOK, PoolWellFormed
  <2>2. ctx # Null
    BY <2>1, CapacityAssumption DEF Contexts, Null
  <2>3. /\ ~Created(h)
        /\ memory' = [memory EXCEPT ![ctx] = Blank]
        /\ cpus' = [cpus EXCEPT ![h] = object]
        /\ outcome' = "done" /\ snapshot' = snapshot
    BY <2>2 DEF CreateCpu
  <2>. HIDE DEF ctx
  <2>4. object \in Objects /\ object.ptr = ctx /\ object.tick = Blank /\ ~object.disposed
    BY <2>1, BlankAssumption DEF Objects
  <2>. HIDE DEF object
  <2>5. /\ memory'[ctx] = Blank /\ \A c \in Contexts \ {ctx} : memory'[c] = memory[c]
        /\ cpus'[h] = object /\ \A x \in Handles \ {h} : cpus'[x] = cpus[x]
    BY <2>1, <2>3 DEF JsInv, JsTypeOK
  <2>6. Seen(h)' = [core |-> Blank, tick |-> Blank]
    BY <2>4, <2>5, MarkersAssumption DEF Seen, Created
  <2>7. \A x \in Handles \ {h} : Seen(x)' = Seen(x)
    BY <2>1, <2>5, LiveObject, Undisturbed
  <2>8. Views' = [Views EXCEPT ![h] = [core |-> Blank, tick |-> Blank]] /\ Views[h] = Unborn
    BY <2>3, <2>6, <2>7, OneViewChanges, ViewOfObject DEF Views
  <2>9. Private!Create(h)
    BY <1>2, <2>3, <2>8, StackCountsTheLiving, SameCount DEF Private!Create, Views
  <2>. QED
    BY <2>9 DEF Private!Next
<1>. QED
  BY <1>1, <1>2

LEMMA CreateCpuBadModelRefines ==
  ASSUME JsInv, NEW h \in Handles, CreateCpuBadModel(h)
  PROVE  Private!Next
<1>1. CASE pool.count = 0
  <2>1. Throws("null")
    BY <1>1, StillUsable DEF CreateCpuBadModel
  <2>. QED
    BY <1>1, <2>1, ThrowRefines, StackCountsTheLiving
<1>2. CASE pool.count # 0
  <2>1. Alloc(pool).ctx \in Contexts
    BY <1>2, AllocTakesFree DEF JsInv, JsTypeOK, PoolWellFormed
  <2>2. Throws("range")
    BY <2>1, CapacityAssumption DEF CreateCpuBadModel, Contexts, Null
  <2>. QED
    BY <2>2, ThrowRefines
<1>. QED
  BY <1>1, <1>2

LEMMA StepRefines ==
  ASSUME JsInv, NEW h \in Handles, NEW core \in Cores, Step(h, core) \/ SetState(h, core)
  PROVE  Private!Next
<1>1. Alive(h) /\ outcome' = "done" /\ snapshot' = snapshot
  BY DEF Step, SetState
<1>2. /\ cpus[h] \in Objects /\ cpus[h].ptr \in Contexts /\ cpus[h] # Unborn
      /\ ~cpus[h].disposed
  BY <1>1, LiveObject DEF Alive, Created
<1>3. /\ memory'[cpus[h].ptr] = core
      /\ \A c \in Contexts \ {cpus[h].ptr} : memory'[c] = memory[c]
  BY <1>2 DEF Step, SetState, JsInv, JsTypeOK
<1>4. \A x \in Handles \ {h} : cpus'[x] = cpus[x]
  BY DEF Step, SetState, JsInv, JsTypeOK
<1>5. \A x \in Handles \ {h} : Alive(x) => cpus[x].ptr # cpus[h].ptr
  BY <1>1 DEF JsInv, NoLeak
<1>6. \A x \in Handles \ {h} : Seen(x)' = Seen(x)
  BY <1>3, <1>4, <1>5, LiveObject, Undisturbed
<1>7. CASE Step(h, core)
  <2> DEFINE object == [cpus[h] EXCEPT !.tick = core]
  <2>1. object \in Objects /\ object.ptr = cpus[h].ptr /\ ~object.disposed /\ object.tick = core
    BY <1>2 DEF Objects
  <2>2. cpus'[h] = object
    BY <1>7 DEF Step, JsInv, JsTypeOK
  <2>. HIDE DEF object
  <2>3. Seen(h)' = [core |-> core, tick |-> core]
    BY <1>3, <2>1, <2>2, MarkersAssumption DEF Seen, Created
  <2>. QED
    BY <1>1, <1>6, <2>3, DriveRefines
<1>8. CASE SetState(h, core)
  <2>1. Seen(h)' = [core |-> core, tick |-> cpus[h].tick]
    BY <1>2, <1>3, <1>8 DEF SetState, Seen, Created
  <2>2. cpus[h].tick \in Cores
    BY <1>2 DEF Objects
  <2>. QED
    BY <1>1, <1>6, <2>1, <2>2, DriveRefines
<1>. QED
  BY <1>7, <1>8

LEMMA SaveRefines ==
  ASSUME JsInv, NEW h \in Handles, Save(h)
  PROVE  Private!Next
<1>1. CASE pool.count = 0
  <2>1. Throws("null")
    BY <1>1, StillUsable DEF Save
  <2>. QED
    BY <1>1, <2>1, ThrowRefines, StackCountsTheLiving
<1>2. CASE pool.count # 0
  <2> DEFINE ctx == Alloc(pool).ctx
             image == [core |-> memory[cpus[h].ptr], tick |-> cpus[h].tick]
  <2>1. ctx \in Contexts /\ pool.is_free[ctx]
    BY <1>2, AllocTakesFree DEF JsInv, JsTypeOK, PoolWellFormed
  <2>2. ctx # Null
    BY <2>1, CapacityAssumption DEF Contexts, Null
  <2>3. /\ Alive(h) /\ cpus' = cpus /\ outcome' = "done"
        /\ memory' = [memory EXCEPT ![ctx] = image] /\ snapshot' = memory'[ctx]
    BY <2>2 DEF Save
  <2>4. Seen(h) = image
    BY <2>3, ViewOfObject
  <2>. HIDE DEF ctx, image
  <2>5. snapshot' = image /\ \A c \in Contexts \ {ctx} : memory'[c] = memory[c]
    BY <2>1, <2>3 DEF JsInv, JsTypeOK
  <2>6. \A x \in Handles : Seen(x)' = Seen(x)
    BY <2>1, <2>3, <2>5, LiveObject, Undisturbed
  <2>7. Views' = Views /\ snapshot' = Views[h] /\ h \in Private!Live
    BY <2>3, <2>4, <2>5, <2>6, NoViewChanges, LiveIsAlive DEF Views
  <2>8. Private!Save(h)
    BY <2>3, <2>7 DEF Private!Save, Views
  <2>. QED
    BY <2>8 DEF Private!Next
<1>. QED
  BY <1>1, <1>2

LEMMA LoadRefines ==
  ASSUME JsInv, NEW h \in Handles, Load(h)
  PROVE  Private!Next
<1>1. CASE pool.count = 0
  <2>1. Throws("null")
    BY <1>1, StillUsable DEF Load
  <2>. QED
    BY <1>1, <2>1, ThrowRefines, StackCountsTheLiving
<1>2. CASE pool.count # 0
  <2> DEFINE ctx == Alloc(pool).ctx
             written == [memory EXCEPT ![ctx] = snapshot]
             object == [cpus[h] EXCEPT !.tick = snapshot.tick]
  <2>1. ctx \in Contexts /\ pool.is_free[ctx]
    BY <1>2, AllocTakesFree DEF JsInv, JsTypeOK, PoolWellFormed
  <2>2. ctx # Null
    BY <2>1, CapacityAssumption DEF Contexts, Null
  <2>3. written[ctx] = snapshot /\ \A c \in Contexts \ {ctx} : written[c] = memory[c]
    BY <2>1 DEF JsInv, JsTypeOK
  <2>4. /\ Alive(h) /\ snapshot' = snapshot /\ snapshot # NoSnapshot /\ outcome' = "done"
        /\ memory' = [written EXCEPT ![cpus[h].ptr] = snapshot.core]
        /\ cpus' = [cpus EXCEPT ![h] = object]
    BY <2>2, <2>3 DEF Load
  <2>5. snapshot = [core |-> snapshot.core, tick |-> snapshot.tick]
    BY <2>4 DEF JsInv, JsTypeOK, Images
  <2>6. /\ cpus[h] \in Objects /\ cpus[h].ptr \in Contexts /\ ~pool.is_free[cpus[h].ptr]
        /\ ~cpus[h].disposed
    BY <2>4, LiveObject DEF Alive
  <2>7. /\ object.ptr = cpus[h].ptr /\ object.tick = snapshot.tick /\ ~object.disposed
        /\ object \in Objects
    <3>1. snapshot.tick \in Cores
      BY <2>4 DEF JsInv, JsTypeOK, Images
    <3>. QED
      BY <2>6, <3>1 DEF Objects
  <2>8. DOMAIN written = Contexts
    BY DEF JsInv, JsTypeOK
  <2>9. /\ memory'[cpus[h].ptr] = snapshot.core
        /\ \A c \in Contexts \ {ctx, cpus[h].ptr} : memory'[c] = memory[c]
    BY <2>1, <2>3, <2>4, <2>6, <2>8
  <2>. HIDE DEF ctx, written, object
  <2>10. cpus'[h] = object /\ \A x \in Handles \ {h} : cpus'[x] = cpus[x]
    BY <2>4 DEF JsInv, JsTypeOK
  <2>11. Seen(h)' = snapshot
    BY <2>5, <2>7, <2>9, <2>10, MarkersAssumption DEF Seen, Created
  <2>12. \A x \in Handles \ {h} :
           Alive(x) => cpus[x].ptr \in Contexts \ {ctx, cpus[h].ptr}
    BY <2>1, <2>4, LiveObject DEF JsInv, NoLeak
  <2>13. \A x \in Handles \ {h} : Seen(x)' = Seen(x)
    BY <2>9, <2>10, <2>12, Undisturbed
  <2>14. Views' = [Views EXCEPT ![h] = snapshot] /\ h \in Private!Live
    BY <2>4, <2>11, <2>13, OneViewChanges, LiveIsAlive
  <2>15. Private!Load(h)
    BY <2>4, <2>14 DEF Private!Load, Views
  <2>. QED
    BY <2>15 DEF Private!Next
<1>. QED
  BY <1>1, <1>2

LEMMA DisposeRefines ==
  ASSUME JsInv, NEW h \in Handles, Dispose(h)
  PROVE  Private!Next
<1>1. /\ Created(h) /\ outcome' = "done" /\ snapshot' = snapshot /\ memory' = memory
  BY DEF Dispose
<1>2. \A x \in Handles \ {h} : cpus'[x] = cpus[x]
  BY DEF Dispose, JsInv, JsTypeOK
<1>3. cpus'[h] # Unborn /\ cpus'[h].disposed
  <2>1. CASE cpus[h].disposed
    BY <1>1, <2>1 DEF Dispose, Created
  <2>2. CASE ~cpus[h].disposed
    <3> DEFINE object == [ptr |-> Null, tick |-> Blank, disposed |-> TRUE]
    <3>1. object \in Objects /\ object.disposed
      BY BlankAssumption DEF Objects
    <3>2. cpus'[h] = object
      BY <2>2 DEF Dispose, JsInv, JsTypeOK
    <3>. HIDE DEF object
    <3>. QED
      BY <3>1, <3>2, MarkersAssumption
  <2>. QED
    BY <2>1, <2>2
<1>4. Seen(h)' = Disposed
  BY <1>3 DEF Seen, Created
<1>5. \A x \in Handles \ {h} : Seen(x)' = Seen(x)
  BY <1>1, <1>2, Undisturbed
<1>6. Views' = [Views EXCEPT ![h] = Disposed] /\ Views[h] # Unborn
  BY <1>1, <1>4, <1>5, OneViewChanges, ViewOfObject DEF Views
<1>7. Private!Dispose(h)
  BY <1>1, <1>6 DEF Private!Dispose, Views
<1>. QED
  BY <1>7 DEF Private!Next

LEMMA CallDisposedRefines ==
  ASSUME NEW h \in Handles, CallDisposed(h)
  PROVE  Private!Next
<1>1. Throws("disposed") /\ Seen(h) = Disposed
  BY DEF CallDisposed, Seen
<1>. QED
  BY <1>1, ThrowRefines

(* For every capacity and any number of objects: sharing the pool shows in *)
(* nothing but the calls that throw when all its contexts are owned.       *)
THEOREM ObjectsStayApart == JsSpec => KeepsCpusApart
<1>1. JsInit => Private!Init
  BY DEF JsInit, Private!Init, Seen, Created
<1>2. ASSUME JsInv, [JsNext]_jsVars
      PROVE  [Private!Next]_<<Views, snapshot, outcome>>
  <2>1. CASE UNCHANGED jsVars
    BY <2>1 DEF jsVars, Views, Seen, Created
  <2>2. CASE JsNext
    <3>. PICK h \in Handles :
           \/ CreateCpu(h) \/ CreateCpuBadModel(h)
           \/ \E core \in Cores : Step(h, core) \/ SetState(h, core)
           \/ Save(h) \/ Load(h) \/ LoadWrongSize(h)
           \/ Dispose(h) \/ CallDisposed(h)
      BY <2>2 DEF JsNext
    <3>1. CASE LoadWrongSize(h)
      BY <3>1, ThrowRefines DEF LoadWrongSize
    <3>2. CASE \E core \in Cores : Step(h, core) \/ SetState(h, core)
      BY <1>2, <3>2, StepRefines
    <3>3. CASE CreateCpu(h) \/ CreateCpuBadModel(h)
      BY <1>2, <3>3, CreateCpuRefines, CreateCpuBadModelRefines
    <3>4. CASE Save(h) \/ Load(h)
      BY <1>2, <3>4, SaveRefines, LoadRefines
    <3>5. CASE Dispose(h) \/ CallDisposed(h)
      BY <1>2, <3>5, DisposeRefines, CallDisposedRefines
    <3>. QED
      BY <3>1, <3>2, <3>3, <3>4, <3>5
  <2>. QED
    BY <1>2, <2>1, <2>2
<1>3. JsInv /\ [JsNext]_jsVars
        => [Private!Next]_<<[h \in Handles |-> Seen(h)], snapshot, outcome>>
  BY <1>2 DEF Views
<1>. QED
  BY <1>1, <1>3, JsInitInv, JsStepInv, PTL DEF JsSpec, KeepsCpusApart, Private!Spec
=============================================================================
