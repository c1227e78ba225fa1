---------------------------- MODULE InstructionCpu ----------------------------
(***************************************************************************)
(* The instruction-level adapter of the benchmark suites over the core     *)
(* (toolbox/qe6502, Qe6502InstructionCpu): it ticks the core until the     *)
(* next opcode fetch and releases the interrupt lines after a number of    *)
(* finished calls.  Its owner calls one function at a time, from "idle".   *)
(***************************************************************************)
EXTENDS Qe6502Polled, LineSchedule

CONSTANT
  ShamFetchAtStart   \* does the reset vector hold the address that the opcode
                     \* fetch in the middle of the reset sequence happens to show?

ASSUME ShamFetchAssumption == ShamFetchAtStart \in BOOLEAN

VARIABLES
  phase,     \* which loop or call of the adapter is running
  spent      \* the loop's `cycle'

adapterVars ==
  <<microcode, P, latch_data, advance, tick, interrupts, hijack,
    instruction_count, deassert_at, asked, phase, spent>>

Phases == {"idle", "reset", "lead", "trail", "release_irq", "release_nmi"}

(* Mutants: budgets that BRK, and the reset sequence, do not fit in.       *)
MaxCyclesTooFew == 4
MaxResetCyclesTooFew == 16

MaxCycles == 32
MaxResetCycles == 64

-----------------------------------------------------------------------------
(* reset().  The loop ends at an opcode fetch from the reset vector.       *)
AtStart ==
  /\ tick = "fetch"
  /\ SlotOf(microcode) = SlotReset0 => ShamFetchAtStart

Reset ==
  /\ phase = "idle"
  /\ Restart
  /\ instruction_count' = 0
  /\ deassert_at' = NothingScheduled
  /\ phase' = "reset"
  /\ spent' = 0
  /\ asked' = Silence

ResetCycle ==
  /\ phase = "reset"
  /\ ~AtStart
  /\ spent < MaxResetCycles
  /\ Tick
  /\ spent' = spent + 1
  /\ UNCHANGED <<instruction_count, deassert_at, phase>>
  /\ asked' = Silence

ResetReturns ==
  /\ phase = "reset"
  /\ AtStart \/ spent = MaxResetCycles
  /\ phase' = "idle"
  /\ spent' = 0
  /\ UNCHANGED <<instruction_count, deassert_at>>
  /\ UNCHANGED vars
  /\ asked' = Silence

-----------------------------------------------------------------------------
(* step_instruction(): step_until_opcode_fetch(), one cycle, and again.    *)
AtBoundary == tick \in {"fetch", "jammed"}

LoopEnds == AtBoundary \/ spent = MaxCycles

StepInstruction ==
  /\ phase = "idle"
  /\ instruction_count < MaxInstructions
  /\ phase' = "lead"
  /\ UNCHANGED <<instruction_count, deassert_at, spent>>
  /\ UNCHANGED vars
  /\ asked' = Silence

LoopCycle ==
  /\ phase \in {"lead", "trail"}
  /\ ~LoopEnds
  /\ Tick
  /\ spent' = spent + 1
  /\ UNCHANGED <<instruction_count, deassert_at, phase>>
  /\ asked' = Silence

Execute ==
  /\ phase = "lead"
  /\ LoopEnds
  /\ Tick
  /\ phase' = "trail"
  /\ spent' = 0
  /\ UNCHANGED <<instruction_count, deassert_at>>
  /\ asked' = Silence

Complete ==
  /\ phase = "trail"
  /\ LoopEnds
  /\ instruction_count' = instruction_count + 1
  /\ phase' = "release_irq"
  /\ spent' = 0
  /\ UNCHANGED deassert_at
  /\ UNCHANGED vars
  /\ asked' = Silence

SetLine(line, level) == IF line = "irq" THEN IrqAssert(level) ELSE NmiAssert(level)

(* apply_scheduled_interrupt_deasserts(), one line at a time.              *)
Release(line, before, after) ==
  /\ phase = before
  /\ phase' = after
  /\ UNCHANGED <<instruction_count, spent>>
  /\ asked' = Silence
  /\ IF Due(line)
     THEN SetLine(line, FALSE) /\ ClearScheduled(line)
     ELSE UNCHANGED deassert_at /\ UNCHANGED vars

ReleaseIrq == Release("irq", "release_irq", "release_nmi")
ReleaseNmi == Release("nmi", "release_nmi", "idle")

-----------------------------------------------------------------------------
(* Mutants: a negative count is taken for an assertion; an explicit release *)
(* leaves the deadline of the line behind.                                 *)
AssertForUnlessZero(line, n) ==
  /\ phase = "idle"
  /\ Asks(line, n)
  /\ SetLine(line, n # 0)
  /\ IF n # 0 THEN ScheduleDeassert(line, n) ELSE ClearScheduled(line)
  /\ UNCHANGED <<instruction_count, phase, spent>>

AssertForKeepsDeadline(line, n) ==
  /\ phase = "idle"
  /\ Asks(line, n)
  /\ SetLine(line, n > 0)
  /\ IF n > 0 THEN ScheduleDeassert(line, n) ELSE UNCHANGED deassert_at
  /\ UNCHANGED <<instruction_count, phase, spent>>

(* assert_irq_for(n), assert_nmi_for(n).                                   *)
AssertFor(line, n) ==
  /\ phase = "idle"
  /\ Asks(line, n)
  /\ SetLine(line, n > 0)
  /\ IF n > 0 THEN ScheduleDeassert(line, n) ELSE ClearScheduled(line)
  /\ UNCHANGED <<instruction_count, phase, spent>>

-----------------------------------------------------------------------------
(* The constructor resets a fresh core.                                    *)
AdapterInit ==
  /\ Init
  /\ instruction_count = 0
  /\ deassert_at = NothingScheduled
  /\ asked = Silence
  /\ phase = "reset"
  /\ spent = 0

Call ==
  \/ Reset
  \/ StepInstruction
  \/ \E line \in Lines : \E n \in Counts : AssertFor(line, n)

AdapterNext ==
  \/ Call
  \/ ResetCycle
  \/ ResetReturns
  \/ LoopCycle
  \/ Execute
  \/ Complete
  \/ ReleaseIrq
  \/ ReleaseNmi

AdapterSpec == AdapterInit /\ [][AdapterNext]_adapterVars

AdapterTypeOK ==
  /\ ScheduleTypeOK
  /\ phase \in Phases
  /\ spent \in 0..MaxResetCycles
=============================================================================
