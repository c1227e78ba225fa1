---------------------------- MODULE PrivateCpus ----------------------------
(***************************************************************************)
(* What the JavaScript binding promises: CPU objects that own their state, *)
(* whatever is done to the others, and calls that either do what they say  *)
(* or throw, with a reason, and change nothing.                            *)
(***************************************************************************)
EXTENDS Integers, FiniteSets

CONSTANTS
  Handles,    \* the CPU objects a program may create
  Cores,      \* states of a core
  Blank,      \* the state after qe6502abi_setup
  Limit,      \* how many CPU objects may be alive at a time
  Unborn, Disposed, NoSnapshot

VARIABLES
  cpus,       \* CPU object -> Unborn, Disposed, or its core and last tick
  snapshot,   \* the last array save() returned
  outcome     \* how the last call ended

Live == { h \in Handles : cpus[h] \notin {Unborn, Disposed} }

Create(h) ==
  /\ cpus[h] = Unborn
  /\ Cardinality(Live) < Limit
  /\ cpus' = [cpus EXCEPT ![h] = [core |-> Blank, tick |-> Blank]]
  /\ outcome' = "done"
  /\ UNCHANGED snapshot

Drive(h) ==
  /\ h \in Live
  /\ \E core, tick \in Cores : cpus' = [cpus EXCEPT ![h] = [core |-> core, tick |-> tick]]
  /\ outcome' = "done"
  /\ UNCHANGED snapshot

Save(h) ==
  /\ h \in Live
  /\ snapshot' = cpus[h]
  /\ outcome' = "done"
  /\ UNCHANGED cpus

Load(h) ==
  /\ h \in Live
  /\ snapshot # NoSnapshot
  /\ cpus' = [cpus EXCEPT ![h] = snapshot]
  /\ outcome' = "done"
  /\ UNCHANGED snapshot

Dispose(h) ==
  /\ cpus[h] # Unborn
  /\ cpus' = [cpus EXCEPT ![h] = Disposed]
  /\ outcome' = "done"
  /\ UNCHANGED snapshot

(* A save or a load needs room for one CPU more, like a creation.          *)
Throw(reason) ==
  /\ CASE reason = "null" -> Cardinality(Live) = Limit
       [] reason = "disposed" -> \E h \in Handles : cpus[h] = Disposed
       [] reason = "range" -> TRUE
  /\ outcome' = reason
  /\ UNCHANGED <<cpus, snapshot>>

Init ==
  /\ cpus = [h \in Handles |-> Unborn]
  /\ snapshot = NoSnapshot
  /\ outcome = "done"

Next ==
  \/ \E h \in Handles : Create(h) \/ Drive(h) \/ Save(h) \/ Load(h) \/ Dispose(h)
  \/ \E reason \in {"null", "disposed", "range"} : Throw(reason)

Spec == Init /\ [][Next]_<<cpus, snapshot, outcome>>
=============================================================================
