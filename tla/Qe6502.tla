------------------------------- MODULE Qe6502 -------------------------------
(***************************************************************************)
(* The qe6502 CPU core as its host sees and drives it: qe6502_tick() with  *)
(* the fast path and the hooked-in interrupt resolver, the two interrupt   *)
(* lines, qe6502_goto() and qe6502_restart().                              *)
(*                                                                         *)
(* qe6502_tick() does not look at the interrupt lines at all unless        *)
(* hijack_microcode is set; the functions that drive the lines set it, and *)
(* the resolver clears it again when it finds nothing left to do.  That    *)
(* optimisation, and the handlers that reach into the interrupt word       *)
(* behind the resolver's back, are what this module is about.              *)
(***************************************************************************)
EXTENDS Execution

VARIABLES
  interrupts,  \* qe6502_t.interrupts, the set of its set bits
  hijack       \* qe6502_t.hijack_microcode

vars == <<microcode, P, latch_data, advance, tick, interrupts, hijack>>

-----------------------------------------------------------------------------
(* qe6502_tick() with hijack_microcode clear: the handler and nothing else. *)
FastTick(from) ==
  /\ ~hijack
  /\ \E e \in Entries(from) : \E choice \in Choices(OpAt(e.at)) :
       /\ Handler(e, choice)
       /\ interrupts' = InterruptsAfter(OpAt(e.at), interrupts, P, choice)
       /\ microcode' = Continue(e, interrupts, choice)
  /\ UNCHANGED hijack

(* Mutant: arbitrate with the flags that the cycle has just changed.       *)
ArbitrateWithNewFlags(left, next) ==
  /\ "sampling" \in left
  /\ interrupts' = FindActiveInterrupt(left \ {"sampling"}, P')
  /\ microcode' = next
  /\ hijack' = Pending(interrupts')

(* interrupt_resolver() after the handler, in its three outcomes.  First,  *)
(* a sampling cycle ends: arbitrate with the flags from before the cycle.  *)
Arbitrate(left, next) ==
  /\ "sampling" \in left
  /\ interrupts' = FindActiveInterrupt(left \ {"sampling"}, P)
  /\ microcode' = next
  /\ hijack' = Pending(interrupts')

(* Mutant: next_enter_service_slot(), which leaves the cursor where the    *)
(* increment after a handler call would correct it; here there is none.    *)
EnterSequenceOneBefore(left) ==
  /\ "sampling" \notin left
  /\ tick' = "fetch"
  /\ left \cap TakenBits # {}
  /\ interrupts' = left \ TakenBits
  /\ microcode' = Index(IF Winner(left) = "nmi" THEN SlotNmi ELSE SlotIrq, 0) - 1
  /\ UNCHANGED hijack

(* An opcode was requested and an interrupt has been won: the opcode is    *)
(* not dispatched, the interrupt sequence is.                              *)
EnterSequence(left) ==
  /\ "sampling" \notin left
  /\ tick' = "fetch"
  /\ left \cap TakenBits # {}
  /\ interrupts' = left \ TakenBits
  /\ microcode' = Index(IF Winner(left) = "nmi" THEN SlotNmi ELSE SlotIrq, 0)
  /\ UNCHANGED hijack

(* Any other cycle; the resolver unhooks itself if nothing is pending.     *)
Resume(left, next) ==
  /\ "sampling" \notin left
  /\ tick' = "fetch" => left \cap TakenBits = {}
  /\ interrupts' = left
  /\ microcode' = next
  /\ hijack' = Pending(left)

(* qe6502_tick() with hijack_microcode set.                                *)
HijackedTick(from) ==
  /\ hijack
  /\ \E e \in Entries(from) : \E choice \in Choices(OpAt(e.at)) :
       LET found == SenseNmi(interrupts)
           left  == InterruptsAfter(OpAt(e.at), found, P, choice)
           next  == Continue(e, found, choice)
       IN  /\ Handler(e, choice)
           /\ Arbitrate(left, next) \/ EnterSequence(left) \/ Resume(left, next)

Tick == FastTick(microcode) \/ HijackedTick(microcode)

(* qe6502_goto(): the first tick of execution at a new address.            *)
Goto ==
  \/ FastTick(Index(SlotGoto, 0))
  \/ HijackedTick(Index(SlotGoto, 0))

-----------------------------------------------------------------------------
(* Mutants: the wrong bit; a sampling bit left over; releasing the line     *)
(* does not hook the resolver, so that nobody sees the line high.          *)
NmiAssertWrongBit(level) ==
  /\ interrupts' = IF level THEN interrupts \cup {"nmi"} ELSE interrupts \ {"nmi_pin"}
  /\ hijack' = TRUE
  /\ UNCHANGED execution

NmiAssertKeepsSampling(level) ==
  /\ interrupts' = IF level THEN interrupts \cup {"nmi_pin"} ELSE interrupts \ {"nmi_pin"}
  /\ hijack' = (hijack \/ (level # ("nmi_pin" \in interrupts)))
  /\ UNCHANGED execution

NmiAssertHooksOnRiseOnly(level) ==
  LET quiet == interrupts \ {"sampling"}
  IN  /\ interrupts' = IF level THEN quiet \cup {"nmi_pin"} ELSE quiet \ {"nmi_pin"}
      /\ hijack' = (hijack \/ (level /\ "nmi_pin" \notin interrupts))
      /\ UNCHANGED execution

(* qe6502_nmi_assert(cpu, level).                                          *)
NmiAssert(level) ==
  LET quiet == interrupts \ {"sampling"}
  IN  /\ interrupts' = IF level THEN quiet \cup {"nmi_pin"} ELSE quiet \ {"nmi_pin"}
      /\ hijack' = (hijack \/ (level # ("nmi_pin" \in interrupts)))
      /\ UNCHANGED execution

(* Mutant: asserting IRQ does not hook the resolver.                       *)
IrqAssertDoesNotHook(level) ==
  LET quiet == interrupts \ {"sampling"}
  IN  /\ interrupts' = IF level THEN quiet \cup {"irq_pin"} ELSE quiet \ {"irq_pin"}
      /\ UNCHANGED hijack
      /\ UNCHANGED execution

(* qe6502_irq_assert(cpu, level).                                          *)
IrqAssert(level) ==
  LET quiet == interrupts \ {"sampling"}
  IN  /\ interrupts' = IF level THEN quiet \cup {"irq_pin"} ELSE quiet \ {"irq_pin"}
      /\ hijack' = (hijack \/ level)
      /\ UNCHANGED execution

(* qe6502_restart(): the lines' levels are forgotten with all the rest.    *)
Restart ==
  /\ microcode' = Restarted.microcode
  /\ P' = Restarted.P
  /\ latch_data' = Restarted.latch_data
  /\ advance' = Restarted.advance
  /\ tick' = Restarted.tick
  /\ interrupts' = {}
  /\ hijack' = FALSE

-----------------------------------------------------------------------------
(* A context is set up with its model number and restarted before it runs. *)
Init ==
  /\ microcode = Restarted.microcode
  /\ P = Restarted.P
  /\ latch_data = Restarted.latch_data
  /\ advance = Restarted.advance
  /\ tick = Restarted.tick
  /\ interrupts = {}
  /\ hijack = FALSE

LineChange == \E level \in BOOLEAN : NmiAssert(level) \/ IrqAssert(level)

Next == Tick \/ LineChange \/ Restart \/ Goto

Spec == Init /\ [][Next]_vars

-----------------------------------------------------------------------------
(* Every variable has its type.                                            *)
TypeOK ==
  /\ ExecutionTypeOK
  /\ interrupts \subseteq InterruptBits
  /\ hijack \in BOOLEAN

(* The resolver is hooked into qe6502_tick() whenever there is anything    *)
(* for it to do: an unhooked resolver with an interrupt pending would      *)
(* leave that interrupt unnoticed until the next edge of a line.           *)
PendingHijacks == Pending(interrupts) => hijack

(* A sampling bit that the unhooked path leaves behind is gone by the time *)
(* the resolver runs again: a stale one would make it arbitrate in a cycle *)
(* that does not sample the lines.                                         *)
NoStaleSampling == hijack => "sampling" \notin interrupts

(* The microcode never falls off the end of a slot's sequence into the     *)
(* control store entries that no .inc file fills: those are null pointers. *)
NoHole == OpAt(microcode) # "empty"
=============================================================================
