--------------------------- MODULE InterruptLines ---------------------------
(***************************************************************************)
(* The interrupt word of the qe6502 core (qe6502_t.interrupts, qe6502.h)   *)
(* and the operations that read and rewrite it (qe6502.c).  The C word is  *)
(* a bit mask; here it is the set of the names of the bits that are set,   *)
(* so flag_on is a union and flag_off a set difference.                    *)
(***************************************************************************)
EXTENDS Integers

(* The eight bits of qe6502_t.interrupts.                                  *)
InterruptBits ==
  { "sampling",      \* the running cycle is a sampling (prefetch) cycle
    "nmi_pin",       \* level of the NMI line, as the host drives it
    "nmi_last",      \* that level when it was last sampled
    "nmi_edge",      \* an NMI edge is latched
    "nmi_taken",     \* arbitration was won by NMI, entry at the next fetch
    "irq_pin",       \* level of the IRQ line
    "irq_taken",     \* arbitration was won by IRQ
    "sampling_off" } \* the edge detector is off (NMOS vector window)

TakenBits == {"nmi_taken", "irq_taken"}

(* The processor status bits that control flow and arbitration depend on.  *)
Flags == {"I", "D"}

(* prefetch(): the cycle asks the resolver to arbitrate when it ends.      *)
Prefetch(ints) == ints \cup {"sampling"}

(* update_nmi_last_sampled()                                               *)
UpdateNmiLastSampled(ints) ==
  IF "nmi_pin" \in ints THEN ints \cup {"nmi_last"} ELSE ints \ {"nmi_last"}

(* Mutant: the level is remembered before it is compared.                  *)
SenseNmiUpdatesFirst(ints) ==
  LET updated == UpdateNmiLastSampled(ints)
  IN  IF "sampling_off" \in ints THEN ints
      ELSE IF "nmi_pin" \in updated /\ "nmi_last" \notin updated
           THEN updated \cup {"nmi_edge"} ELSE updated

(* Mutant: the line is treated as level-sensitive.                         *)
SenseNmiLevel(ints) ==
  IF "sampling_off" \in ints THEN ints
  ELSE UpdateNmiLastSampled(
         IF "nmi_pin" \in ints THEN ints \cup {"nmi_edge"} ELSE ints)

(* The head of interrupt_resolver(): latch a rising NMI line, remember the *)
(* level; nothing at all while the edge detector is off.                   *)
SenseNmi(ints) ==
  IF "sampling_off" \in ints
  THEN ints
  ELSE UpdateNmiLastSampled(
         IF "nmi_pin" \in ints /\ "nmi_last" \notin ints
         THEN ints \cup {"nmi_edge"}
         ELSE ints)

(* find_active_interrupt(): a latched NMI edge wins and is consumed, else  *)
(* an asserted IRQ line that the I flag does not mask.                     *)
FindActiveInterrupt(ints, flags) ==
  IF "nmi_edge" \in ints
  THEN (ints \ {"nmi_edge", "irq_taken"}) \cup {"nmi_taken"}
  ELSE IF "I" \notin flags /\ "irq_pin" \in ints
       THEN (ints \ {"nmi_taken"}) \cup {"irq_taken"}
       ELSE ints

(* Which taken bit an arbitration left, in the order the code tests them.  *)
Winner(ints) ==
  IF "nmi_taken" \in ints THEN "nmi"
  ELSE IF "irq_taken" \in ints THEN "irq" ELSE "none"

(* Mutants: the resolver unhooks itself while IRQ is only masked, or while *)
(* a won interrupt still waits for its fetch.                              *)
PendingForgetsIrq(ints) ==
  \/ "nmi_edge" \in ints
  \/ "nmi_pin" \in ints /\ "nmi_last" \notin ints
  \/ ints \cap TakenBits # {}

PendingForgetsTaken(ints) ==
  \/ "nmi_edge" \in ints
  \/ "irq_pin" \in ints
  \/ "nmi_pin" \in ints /\ "nmi_last" \notin ints

(* The condition under which interrupt_resolver() keeps itself hooked into *)
(* qe6502_tick(): the complement of the test that clears hijack_microcode. *)
Pending(ints) ==
  \/ "nmi_edge" \in ints
  \/ "irq_pin" \in ints
  \/ "nmi_pin" \in ints /\ "nmi_last" \notin ints
  \/ ints \cap TakenBits # {}

-----------------------------------------------------------------------------
(* What the handlers that touch the interrupt word leave in it; the        *)
(* prefetch handlers and the ones that touch nothing are in Microcode.     *)

(* mc_stack_push_status_b, mc_irq_c3_push_p (NMOS): arbitrate once more,   *)
(* switch the edge detector off, consume the outcome.                      *)
NmosPushStatus(ints, flags) ==
  (FindActiveInterrupt(ints, flags) \cup {"sampling_off"}) \ TakenBits

(* mc_nmi_c3_push_p (NMOS): as above, and a new NMI edge is dropped too.   *)
NmosNmiPushStatus(ints, flags) == NmosPushStatus(ints, flags) \ {"nmi_edge"}

(* Mutant: nobody switches the edge detector on again.                     *)
NmosVectorHighStaysDeaf(ints) == ints

(* mc_brk_c5_vec_hi, mc_nmos_irq_c5_vec_hi: the edge detector is on again. *)
NmosVectorHigh(ints) == ints \ {"sampling_off"}

(* mc_nmos_nmi_c5_vec_hi: on again, and the present level counts as seen.  *)
NmosNmiVectorHigh(ints) == UpdateNmiLastSampled(ints \ {"sampling_off"})

(* mc_cmos_nmi_c3_push_p                                                   *)
CmosNmiPushStatus(ints) ==
  UpdateNmiLastSampled(ints \ {"nmi_edge", "nmi_taken"})

(* Mutant: the IRQ's status push consumes a latched NMI edge too.           *)
CmosIrqPushStatusDropsEdge(ints) == ints \ {"irq_taken", "nmi_edge"}

(* mc_cmos_irq_c3_push_p                                                   *)
CmosIrqPushStatus(ints) == ints \ {"irq_taken"}

(* Mutant: an edge that came during the sequence is kept.                  *)
CmosVectorHighKeepsEdge(ints) == UpdateNmiLastSampled(ints)

(* cmos_interrupt_vector_low(), run by both CMOS interrupt sequences.      *)
CmosVectorHigh(ints) == UpdateNmiLastSampled(ints \ {"nmi_edge"})
=============================================================================
