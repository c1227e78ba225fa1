----------------------------- MODULE JsBinding -----------------------------
(***************************************************************************)
(* The JavaScript binding (binds/js/qe6502.js) on the pool of contexts:    *)
(* CPU objects hold a pointer into the WASM memory and the last tick, and  *)
(* save() and load() borrow a context of the same pool as a buffer.        *)
(* JavaScript runs one call at a time.                                     *)
(***************************************************************************)
EXTENDS ContextPool

CONSTANTS
  Handles,    \* the CPU objects the program may create, a bound
  Cores,      \* states of a core, which its calls move among
  Blank,      \* the state after qe6502abi_setup, and the tick word 0
  Unborn, Disposed,  \* a CPU object before createCpu() and after dispose()
  NoSnapshot  \* the program holds no snapshot

ASSUME BlankAssumption == Blank \in Cores

(* What a snapshot says of a CPU, and the private fields of a CPU object.  *)
Images == [core : Cores, tick : Cores]
Objects == [ptr : Contexts \cup {Null}, tick : Cores, disposed : BOOLEAN]

ASSUME MarkersAssumption ==
  /\ Unborn # Disposed
  /\ {Unborn, Disposed, NoSnapshot} \cap (Images \cup Objects) = {}

VARIABLES
  pool,       \* the static variables of qe6502_js.c
  memory,     \* context -> the core in it, or a snapshot's bytes
  cpus,       \* CPU object -> Unborn or its private fields
  snapshot,   \* the last array save() returned
  outcome     \* how the last call ended

jsVars == <<pool, memory, cpus, snapshot, outcome>>

-----------------------------------------------------------------------------
Throws(reason) == outcome' = reason /\ UNCHANGED <<memory, cpus, snapshot>>

Created(h) == cpus[h] # Unborn
Alive(h) == Created(h) /\ ~cpus[h].disposed

(* Mutant: a constructor that throws leaves its context allocated.         *)
CreateCpuBadModelLeaks(h) ==
  /\ ~Created(h)
  /\ LET got == Alloc(pool)
     IN  /\ pool' = got.pool
         /\ Throws(IF got.ctx = Null THEN "null" ELSE "range")

(* createCpu() with a model number out of range: the context goes back.    *)
CreateCpuBadModel(h) ==
  /\ ~Created(h)
  /\ LET got == Alloc(pool)
     IN  IF got.ctx = Null
         THEN pool' = got.pool /\ Throws("null")
         ELSE pool' = Free(got.pool, got.ctx) /\ Throws("range")

(* createCpu()                                                             *)
CreateCpu(h) ==
  /\ ~Created(h)
  /\ LET got == Alloc(pool)
     IN  /\ pool' = got.pool
         /\ IF got.ctx = Null
            THEN Throws("null")
            ELSE /\ memory' = [memory EXCEPT ![got.ctx] = Blank]
                 /\ cpus' = [cpus EXCEPT
                      ![h] = [ptr |-> got.ctx, tick |-> Blank, disposed |-> FALSE]]
                 /\ outcome' = "done"
                 /\ UNCHANGED snapshot

(* restart(), jumpTo() and tick() leave a new core and its tick.           *)
Step(h, core) ==
  /\ Alive(h)
  /\ memory' = [memory EXCEPT ![cpus[h].ptr] = core]
  /\ cpus' = [cpus EXCEPT ![h].tick = core]
  /\ outcome' = "done"
  /\ UNCHANGED <<pool, snapshot>>

(* The line and register setters change the core only.                     *)
SetState(h, core) ==
  /\ Alive(h)
  /\ memory' = [memory EXCEPT ![cpus[h].ptr] = core]
  /\ outcome' = "done"
  /\ UNCHANGED <<pool, cpus, snapshot>>

(* save(): through a borrowed context, out of which the bytes are copied.  *)
Save(h) ==
  /\ Alive(h)
  /\ LET scratch == Alloc(pool)
     IN  IF scratch.ctx = Null
         THEN pool' = scratch.pool /\ Throws("null")
         ELSE /\ memory' = [memory EXCEPT ![scratch.ctx] =
                   [core |-> memory[cpus[h].ptr], tick |-> cpus[h].tick]]
              /\ snapshot' = memory'[scratch.ctx]
              /\ pool' = Free(scratch.pool, scratch.ctx)
              /\ outcome' = "done"
              /\ UNCHANGED cpus

(* load(): the bytes are copied into a borrowed context and read back.     *)
Load(h) ==
  /\ Alive(h)
  /\ snapshot # NoSnapshot
  /\ LET scratch == Alloc(pool)
     IN  IF scratch.ctx = Null
         THEN pool' = scratch.pool /\ Throws("null")
         ELSE LET written == [memory EXCEPT ![scratch.ctx] = snapshot]
                  bytes == written[scratch.ctx]
              IN  /\ memory' = [written EXCEPT ![cpus[h].ptr] = bytes.core]
                  /\ cpus' = [cpus EXCEPT ![h].tick = bytes.tick]
                  /\ pool' = Free(scratch.pool, scratch.ctx)
                  /\ outcome' = "done"
                  /\ UNCHANGED snapshot

(* load() of an array of another size throws before it borrows anything.   *)
LoadWrongSize(h) == Alive(h) /\ Throws("range") /\ UNCHANGED pool

(* Mutant: dispose() does not remember that it has been called.            *)
DisposeAgain(h) ==
  /\ Created(h)
  /\ pool' = Free(pool, cpus[h].ptr)
  /\ cpus' = [cpus EXCEPT ![h].disposed = TRUE, ![h].tick = Blank]
  /\ outcome' = "done"
  /\ UNCHANGED <<memory, snapshot>>

(* dispose(), which may be called any number of times.                     *)
Dispose(h) ==
  /\ Created(h)
  /\ IF cpus[h].disposed
     THEN UNCHANGED <<pool, cpus>>
     ELSE /\ pool' = Free(pool, cpus[h].ptr)
          /\ cpus' = [cpus EXCEPT
               ![h] = [ptr |-> Null, tick |-> Blank, disposed |-> TRUE]]
  /\ outcome' = "done"
  /\ UNCHANGED <<memory, snapshot>>

(* #assertAlive(): any other call of a disposed object throws.             *)
CallDisposed(h) ==
  /\ Created(h)
  /\ cpus[h].disposed
  /\ Throws("disposed")
  /\ UNCHANGED pool

-----------------------------------------------------------------------------
(* instantiateQe6502() resets the pool of its new memory.                  *)
JsInit ==
  /\ pool = PoolReset
  /\ memory = [c \in Contexts |-> Blank]
  /\ cpus = [h \in Handles |-> Unborn]
  /\ snapshot = NoSnapshot
  /\ outcome = "done"

JsNext ==
  \E h \in Handles :
    \/ CreateCpu(h) \/ CreateCpuBadModel(h)
    \/ \E core \in Cores : Step(h, core) \/ SetState(h, core)
    \/ Save(h) \/ Load(h) \/ LoadWrongSize(h)
    \/ Dispose(h) \/ CallDisposed(h)

JsSpec == JsInit /\ [][JsNext]_jsVars

-----------------------------------------------------------------------------
(* The stack of free contexts and their flags agree, with no context on    *)
(* the stack twice: or two owners would get the same one.                  *)
PoolWellFormed == WellFormed(pool)

(* Between calls the contexts in use are those of the live CPU objects,    *)
(* one each: no call, whether it returns or throws, keeps a context.       *)
NoLeak ==
  /\ { c \in Contexts : ~pool.is_free[c] }
       = { cpus[h].ptr : h \in { x \in Handles : Alive(x) } }
  /\ \A g, h \in Handles : Alive(g) /\ Alive(h) /\ cpus[g].ptr = cpus[h].ptr => g = h

(* The CPU objects as their owner sees them.                               *)
Seen(h) ==
  IF ~Created(h) THEN Unborn
  ELSE IF cpus[h].disposed THEN Disposed
       ELSE [core |-> memory[cpus[h].ptr], tick |-> cpus[h].tick]

Private == INSTANCE PrivateCpus
  WITH Limit <- Capacity, cpus <- [h \in Handles |-> Seen(h)]

(* Objects that share a pool behave like objects with a memory each: none  *)
(* sees what is done to another, a snapshot is the state of the object it  *)
(* was taken from, and a call fails only for the reasons it gives.         *)
KeepsCpusApart == Private!Spec
=============================================================================
