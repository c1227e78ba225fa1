---------------------------- MODULE LineSchedule ----------------------------
(***************************************************************************)
(* The bookkeeping that every instruction-level CPU adapter of the toolbox *)
(* keeps for its two interrupt lines: how many calls of step_instruction() *)
(* have finished, and after how many of them each line is to be released.  *)
(***************************************************************************)
EXTENDS Integers

CONSTANTS
  Counts,            \* the arguments of assert_irq_for() and assert_nmi_for()
  MaxInstructions    \* bound: step_instruction() calls from one reset to the next

ASSUME CountsAssumption == Counts \subseteq Int

ASSUME MaxInstructionsAssumption == MaxInstructions \in Nat

Lines == {"irq", "nmi"}

VARIABLES
  instruction_count, \* instruction_count_
  deassert_at,       \* irq_deassert_at_ and nmi_deassert_at_; 0 while the
                     \* has_..._deassert_at_ flag is off
  asked              \* history: the count, if an assertion was called just now

Scheduled(line) == deassert_at[line] # 0

(* apply_scheduled_interrupt_deasserts(): is this line to be released now? *)
Due(line) == Scheduled(line) /\ instruction_count >= deassert_at[line]

(* Mutant: one instruction too many.                                       *)
ScheduleDeassertLate(line, n) ==
  deassert_at' = [deassert_at EXCEPT ![line] = instruction_count + n + 1]

(* The end of assert_irq_for() and assert_nmi_for().                       *)
ScheduleDeassert(line, n) ==
  deassert_at' = [deassert_at EXCEPT ![line] = instruction_count + n]

(* clear_scheduled_irq_deassert(), clear_scheduled_nmi_deassert().         *)
ClearScheduled(line) == deassert_at' = [deassert_at EXCEPT ![line] = 0]

NothingScheduled == [line \in Lines |-> 0]

NotAsked == [called |-> FALSE, count |-> 0]

Silence == [line \in Lines |-> NotAsked]

Asks(line, n) == asked' = [Silence EXCEPT ![line] = [called |-> TRUE, count |-> n]]

ScheduleTypeOK ==
  /\ instruction_count \in Nat
  /\ deassert_at \in [Lines -> Nat]

-----------------------------------------------------------------------------
(* How the schedule looks to the contract.  A line that is due counts as    *)
(* released by the call that releases it, which is the one just finishing. *)
CallsDone(line) == IF Due(line) THEN instruction_count - 1 ELSE instruction_count

CallsLeft(line) == IF Scheduled(line) THEN deassert_at[line] - CallsDone(line) ELSE 0
=============================================================================
