-------------------------- MODULE InstructionPromises --------------------------
(***************************************************************************)
(* What the interrupt test suites take for granted of an instruction-level *)
(* CPU, stated of the qe6502 adapter over the core: the line contract, and *)
(* which call an interrupt is entered after.                               *)
(***************************************************************************)
EXTENDS InstructionCpu

VARIABLES
  began,     \* history: IRQ, I and the slot as the running call found them
  unserved,  \* history: calls finished since NMI rose, or NotRaised
  low_seen   \* history: the last cycle ran with NMI released

NotRaised == -1

promiseVars ==
  <<microcode, P, latch_data, advance, tick, interrupts, hijack,
    instruction_count, deassert_at, asked, phase, spent, began, unserved, low_seen>>

-----------------------------------------------------------------------------
(* A branch that crosses a page may lose an NMI to an IRQ (see             *)
(* LosesToSecondPoll in InterruptLedger).                                  *)
LostToIrq == "nmi_taken" \in interrupts /\ "irq_taken" \in interrupts'

Rises == "nmi_pin" \notin interrupts /\ "nmi_pin" \in interrupts' /\ low_seen

Falls == phase = "idle" /\ "nmi_pin" \notin interrupts'

Watch ==
  /\ began' = IF phase = "lead" /\ phase' = "trail"
              THEN [ irq |-> "irq_pin" \in interrupts, masked |-> "I" \in P,
                     slot |-> SlotOf(microcode') ]
              ELSE began
  /\ low_seen' = IF spent' # spent \/ phase' = "trail"
                 THEN "nmi_pin" \notin interrupts ELSE low_seen
  /\ unserved' =
       IF Falls \/ SlotOf(microcode') = SlotNmi \/ LostToIrq \/ tick' = "jammed"
       THEN NotRaised
       ELSE IF Rises THEN 0
       ELSE IF unserved = NotRaised THEN NotRaised
       ELSE unserved + (instruction_count' - instruction_count)

PromiseInit ==
  /\ AdapterInit
  /\ began = [ irq |-> FALSE, masked |-> FALSE, slot |-> SlotInternalReset ]
  /\ unserved = NotRaised
  /\ low_seen = TRUE

PromiseNext ==
  \/ Reset /\ Watch
  \/ StepInstruction /\ Watch
  \/ (\E line \in Lines : \E n \in Counts : AssertFor(line, n)) /\ Watch
  \/ ResetCycle /\ Watch
  \/ ResetReturns /\ Watch
  \/ LoopCycle /\ Watch
  \/ Execute /\ Watch
  \/ Complete /\ Watch
  \/ ReleaseIrq /\ Watch
  \/ ReleaseNmi /\ Watch

PromiseSpec == PromiseInit /\ [][PromiseNext]_promiseVars

-----------------------------------------------------------------------------
IrqLine ==
  INSTANCE LineContract WITH
    asked <- asked["irq"], left <- CallsLeft("irq"), done <- CallsDone("irq"),
    level <- "irq_pin" \in interrupts

NmiLine ==
  INSTANCE LineContract WITH
    asked <- asked["nmi"], left <- CallsLeft("nmi"), done <- CallsDone("nmi"),
    level <- "nmi_pin" \in interrupts

(* Each line is released when the call finishes that the count given       *)
(* names, and neither reset(), a later assertion, an explicit release nor  *)
(* the other line's deadline makes it earlier or later.                    *)
IrqLineContract == IrqLine!Spec
NmiLineContract == NmiLine!Spec

(* Driven through the adapter, the core is never in the case in which it   *)
(* misses an edge: NMI is not released while the edge detector is off.     *)
AdapterIsPatient == [][PatientNext]_vars

(* Whoever calls the adapter finds the core before an opcode, or jammed,   *)
(* and after reset() before the program's first: the budgets of the loops  *)
(* are enough for every instruction and every interrupt sequence.          *)
ReturnsAtBoundary ==
  phase = "idle" =>
    /\ AtBoundary
    /\ instruction_count = 0 => microcode = Index(SlotReset1, 1)

(* An NMI that rises between two calls is entered by the end of the next   *)
(* one, even if it is asserted for that call only.                         *)
NmiServedByNextCall == unserved <= 0

(* With IRQ asserted throughout a call and I clear before and after it,    *)
(* an interrupt follows; with I set before it, none but after an RTI that  *)
(* clears I (the instruction after a CLI or PLP runs first).               *)
IrqFollowsCall ==
  phase = "release_irq" /\ tick = "fetch" =>
    /\ began.irq /\ ~began.masked /\ "I" \notin P
         => microcode \in {Index(SlotIrq, 0), Index(SlotNmi, 0)}
    /\ microcode = Index(SlotIrq, 0)
         => began.irq /\ (began.masked => began.slot = \h40)
=============================================================================
