----------------------- MODULE InstructionPromises_proofs -----------------------
(***************************************************************************)
(* The instruction-level adapter over the core, for every program, every   *)
(* model, every schedule of assertions and any number of calls: the lines  *)
(* keep their contract, each call returns at a boundary within its budget, *)
(* and the core is driven as PatientSpec asks.                             *)
(***************************************************************************)
EXTENDS InstructionPromises, Qe6502_proofs, PollTiming

-----------------------------------------------------------------------------
(* One tick of the core, whether the resolver is hooked in or not.         *)

Pins == {"irq_pin", "nmi_pin"}

(* Handlers do not drive the lines.                                        *)
LEMMA HandlersKeepPins ==
  ASSUME NEW op, NEW ints, NEW flags, NEW choice, NEW pin \in Pins
  PROVE  pin \in InterruptsAfter(op, ints, flags, choice) <=> pin \in ints
<1>1. pin \in FindActiveInterrupt(ints, flags) <=> pin \in ints
  BY DEF FindActiveInterrupt, Pins
<1>2. pin \in UpdateNmiLastSampled(ints) <=> pin \in ints
  BY DEF UpdateNmiLastSampled, Pins
<1>3. /\ pin \in NmosPushStatus(ints, flags) <=> pin \in ints
      /\ pin \in NmosNmiPushStatus(ints, flags) <=> pin \in ints
  BY <1>1 DEF NmosPushStatus, NmosNmiPushStatus, TakenBits, Pins
<1>4. /\ pin \in NmosVectorHigh(ints) <=> pin \in ints
      /\ pin \in NmosNmiVectorHigh(ints) <=> pin \in ints
  BY DEF NmosVectorHigh, NmosNmiVectorHigh, UpdateNmiLastSampled, Pins
<1>5. /\ pin \in CmosNmiPushStatus(ints) <=> pin \in ints
      /\ pin \in CmosIrqPushStatus(ints) <=> pin \in ints
      /\ pin \in CmosVectorHigh(ints) <=> pin \in ints
      /\ pin \in Prefetch(ints) <=> pin \in ints
  BY DEF CmosNmiPushStatus, CmosIrqPushStatus, CmosVectorHigh, Prefetch,
         UpdateNmiLastSampled, Pins
<1>. QED
  BY <1>3, <1>4, <1>5 DEF InterruptsAfter

LEMMA SensingKeepsPins ==
  ASSUME NEW ints, NEW pin \in Pins
  PROVE  pin \in SenseNmi(ints) <=> pin \in ints
BY DEF SenseNmi, UpdateNmiLastSampled, Pins

(* What a tick makes of the interrupt word: first the edge detector, if    *)
(* the resolver is hooked in, then the handler, then the resolver again,   *)
(* which has no effect on the lines or on the detector.                    *)
Sensing(ints) == ints = interrupts \/ ints = SenseNmi(interrupts)

(* The handler at e runs, and the cursor goes on from it, or an interrupt  *)
(* takes the fetch that it asked for.                                      *)
TickOf(e, choice) ==
  /\ Handler(e, choice)
  /\ \/ microcode' \in Successors(e.at, P, choice)
     \/ tick' = "fetch" /\ microcode' \in {Index(SlotNmi, 0), Index(SlotIrq, 0)}
  /\ \E ints : Sensing(ints) /\
       \A bit \in Pins \cup {"sampling_off"} :
         bit \in interrupts' <=> bit \in InterruptsAfter(OpAt(e.at), ints, P, choice)

(* Any tick is such a step, from an entry of the store that holds a handler. *)
LEMMA TickShape ==
  ASSUME TypeOK, Tick
  PROVE  \E e \in Entries(microcode) : \E choice \in Choices(OpAt(e.at)) :
           TickOf(e, choice) /\ e.at \in Nat /\ e.at \in Cursors /\ Running(e.at)
<1>1. microcode \in Nat
  BY DEF TypeOK, ExecutionTypeOK
<1>2. CASE FastTick(microcode)
  <2>1. PICK e \in Entries(microcode) : \E choice \in Choices(OpAt(e.at)) :
          /\ Handler(e, choice)
          /\ interrupts' = InterruptsAfter(OpAt(e.at), interrupts, P, choice)
          /\ microcode' = Continue(e, interrupts, choice)
    BY <1>2 DEF FastTick
  <2>2. PICK choice \in Choices(OpAt(e.at)) :
          /\ Handler(e, choice)
          /\ interrupts' = InterruptsAfter(OpAt(e.at), interrupts, P, choice)
          /\ microcode' = Continue(e, interrupts, choice)
    BY <2>1
  <2>3. TickOf(e, choice)
    BY <2>2, ContinueIsSuccessor DEF TickOf, Sensing
  <2>. QED
    BY <1>1, <2>3, EntriesRun
<1>3. CASE HijackedTick(microcode)
  <2> DEFINE found == SenseNmi(interrupts)
  <2>1. PICK e \in Entries(microcode) : \E choice \in Choices(OpAt(e.at)) :
          LET left == InterruptsAfter(OpAt(e.at), found, P, choice)
              next == Continue(e, found, choice)
          IN  /\ Handler(e, choice)
              /\ Arbitrate(left, next) \/ EnterSequence(left) \/ Resume(left, next)
    BY <1>3 DEF HijackedTick
  <2>2. PICK choice \in Choices(OpAt(e.at)) :
          LET left == InterruptsAfter(OpAt(e.at), found, P, choice)
              next == Continue(e, found, choice)
          IN  /\ Handler(e, choice)
              /\ Arbitrate(left, next) \/ EnterSequence(left) \/ Resume(left, next)
    BY <2>1
  <2> DEFINE left == InterruptsAfter(OpAt(e.at), found, P, choice)
             next == Continue(e, found, choice)
  <2>3. next \in Successors(e.at, P, choice)
    BY ContinueIsSuccessor
  <2>4. \/ microcode' = next
        \/ tick' = "fetch" /\ microcode' \in {Index(SlotNmi, 0), Index(SlotIrq, 0)}
    BY <2>2 DEF Arbitrate, EnterSequence, Resume
  <2>5. interrupts' \in {left, left \ TakenBits, FindActiveInterrupt(left \ {"sampling"}, P)}
    BY <2>2 DEF Arbitrate, EnterSequence, Resume
  <2>6. \A bit \in Pins \cup {"sampling_off"} : bit \in interrupts' <=> bit \in left
    BY <2>5 DEF TakenBits, FindActiveInterrupt, Pins
  <2>7. TickOf(e, choice)
    BY <2>2, <2>3, <2>4, <2>6 DEF TickOf, Sensing
  <2>. QED
    BY <1>1, <2>7, EntriesRun
<1>. QED
  BY <1>2, <1>3 DEF Tick

(* No tick drives a line.                                                  *)
LEMMA TickKeepsPins ==
  ASSUME TypeOK, Tick, NEW pin \in Pins
  PROVE  pin \in interrupts' <=> pin \in interrupts
<1>1. PICK e \in Entries(microcode) : \E choice \in Choices(OpAt(e.at)) : TickOf(e, choice)
  BY TickShape
<1>2. PICK choice \in Choices(OpAt(e.at)) : TickOf(e, choice)
  BY <1>1
<1>3. PICK ints : Sensing(ints) /\
        (pin \in interrupts' <=> pin \in InterruptsAfter(OpAt(e.at), ints, P, choice))
  BY <1>2 DEF TickOf
<1>4. pin \in ints <=> pin \in interrupts
  BY <1>3, SensingKeepsPins DEF Sensing
<1>. QED
  BY <1>3, <1>4, HandlersKeepPins

-----------------------------------------------------------------------------
(* The schedule of the releases.                                           *)

Pin(line) == IF line = "irq" THEN "irq_pin" ELSE "nmi_pin"

Level(line) == Pin(line) \in interrupts

(* A line is asserted exactly while its release is scheduled, and a        *)
(* release is not overdue: it is due only between the end of a call and    *)
(* the line's turn to be released.                                         *)
AwaitsRelease(line) ==
  phase = "release_irq" \/ (phase = "release_nmi" /\ line = "nmi")

ScheduleInv ==
  /\ ScheduleTypeOK
  /\ \A line \in Lines : Level(line) <=> Scheduled(line)
  /\ \A line \in Lines : Scheduled(line) =>
       /\ instruction_count <= deassert_at[line]
       /\ AwaitsRelease(line) \/ instruction_count < deassert_at[line]

LEMMA SetLineDrives ==
  ASSUME NEW line \in Lines, NEW level \in BOOLEAN, SetLine(line, level)
  PROVE  /\ Level(line)' <=> level
         /\ \A other \in Lines \ {line} : Level(other)' <=> Level(other)
<1>1. CASE line = "irq"
  BY <1>1 DEF SetLine, IrqAssert, Level, Pin, Lines
<1>2. CASE line = "nmi"
  BY <1>2 DEF SetLine, NmiAssert, Level, Pin, Lines
<1>. QED
  BY <1>1, <1>2 DEF Lines

LEMMA TickKeepsLevels ==
  ASSUME TypeOK, Tick, NEW line \in Lines
  PROVE  Level(line)' <=> Level(line)
BY TickKeepsPins DEF Level, Pin, Pins, Lines

LEMMA UnchangedKeepsLevels ==
  ASSUME UNCHANGED vars, NEW line \in Lines
  PROVE  Level(line)' <=> Level(line)
BY DEF vars, Level

(* The steps of the contract of a line, in the terms of the schedule.      *)
Assertion(line) ==
  LET n == asked'[line].count
  IN  /\ asked'[line].called
      /\ CallsLeft(line)' = IF n > 0 THEN n ELSE 0
      /\ Level(line)' <=> n > 0
      /\ CallsDone(line)' = CallsDone(line)

Completion(line) ==
  /\ asked'[line] = NotAsked
  /\ CallsDone(line)' = CallsDone(line) + 1
  /\ CallsLeft(line)' = IF CallsLeft(line) = 0 THEN 0 ELSE CallsLeft(line) - 1
  /\ Level(line)' <=> CallsLeft(line) > 1

Forgetting(line) ==
  /\ asked'[line] = NotAsked
  /\ CallsLeft(line)' = 0
  /\ ~Level(line)'
  /\ CallsDone(line)' = 0

Resting(line) ==
  /\ asked'[line] = NotAsked
  /\ CallsLeft(line)' = CallsLeft(line)
  /\ Level(line)' <=> Level(line)
  /\ CallsDone(line)' = CallsDone(line)

ContractStep(line) ==
  Assertion(line) \/ Completion(line) \/ Forgetting(line) \/ Resting(line)

LEMMA SilenceAsksNothing ==
  ASSUME asked' = Silence, NEW line \in Lines
  PROVE  asked'[line] = NotAsked
BY DEF Silence

(* Steps that leave the schedule and the levels alone, while no release    *)
(* falls due or stops being due.                                           *)
LEMMA RestKeepsSchedule ==
  ASSUME ScheduleInv, UNCHANGED <<instruction_count, deassert_at>>,
         \A line \in Lines : Level(line)' <=> Level(line),
         \A line \in Lines : AwaitsRelease(line) => AwaitsRelease(line)',
         asked' = Silence
  PROVE  ScheduleInv' /\ \A line \in Lines : Resting(line)
<1>1. ScheduleInv'
  BY DEF ScheduleInv, ScheduleTypeOK, Scheduled
<1>2. \A line \in Lines : Resting(line)
  BY SilenceAsksNothing DEF Resting, CallsLeft, CallsDone, Due, Scheduled
<1>. QED
  BY <1>1, <1>2

(* reset() forgets every assertion.                                        *)
LEMMA ResetForgets ==
  ASSUME Reset
  PROVE  ScheduleInv' /\ \A line \in Lines : Forgetting(line)
<1>1. /\ instruction_count' = 0
      /\ \A line \in Lines : deassert_at'[line] = 0
      /\ deassert_at' \in [Lines -> Nat]
  BY DEF Reset, NothingScheduled
<1>2. \A line \in Lines : ~Level(line)'
  BY DEF Reset, Restart, Level
<1>3. ScheduleInv'
  BY <1>1, <1>2 DEF ScheduleInv, ScheduleTypeOK, Scheduled
<1>4. \A line \in Lines : Forgetting(line)
  BY <1>1, <1>2, SilenceAsksNothing DEF Forgetting, CallsLeft, CallsDone, Due, Scheduled, Reset
<1>. QED
  BY <1>3, <1>4

(* An assertion schedules the release of its own line only.                *)
LEMMA AssertionSchedules ==
  ASSUME ScheduleInv, NEW line \in Lines, NEW n \in Counts, AssertFor(line, n)
  PROVE  /\ ScheduleInv'
         /\ Assertion(line)
         /\ \A other \in Lines \ {line} : Resting(other)
<1>1. n \in Int /\ (n > 0) \in BOOLEAN
  BY CountsAssumption
<1>2. /\ Level(line)' <=> n > 0
      /\ \A other \in Lines \ {line} : Level(other)' <=> Level(other)
  BY <1>1, SetLineDrives DEF AssertFor
<1>3. /\ instruction_count' = instruction_count /\ instruction_count \in Nat
      /\ deassert_at \in [Lines -> Nat]
      /\ phase = "idle" /\ phase' = "idle"
  BY DEF AssertFor, ScheduleInv, ScheduleTypeOK
<1>4. deassert_at' = [deassert_at EXCEPT ![line] = IF n > 0 THEN instruction_count + n ELSE 0]
  BY <1>1 DEF AssertFor, ScheduleDeassert, ClearScheduled
<1>5. /\ deassert_at' \in [Lines -> Nat]
      /\ deassert_at'[line] = IF n > 0 THEN instruction_count + n ELSE 0
      /\ \A other \in Lines \ {line} : deassert_at'[other] = deassert_at[other]
  BY <1>1, <1>3, <1>4
<1>6. \A l \in Lines : ~AwaitsRelease(l) /\ ~AwaitsRelease(l)'
  BY <1>3 DEF AwaitsRelease
<1>7. ScheduleInv'
  BY <1>1, <1>2, <1>3, <1>5, <1>6 DEF ScheduleInv, ScheduleTypeOK, Scheduled
<1>8. /\ asked'[line] = [called |-> TRUE, count |-> n]
      /\ \A other \in Lines \ {line} : asked'[other] = NotAsked
  BY DEF AssertFor, Asks, Silence
<1>9. Assertion(line)
  <2>1. ~Due(line) /\ ~Due(line)'
    BY <1>1, <1>3, <1>5, <1>6 DEF ScheduleInv, Due, Scheduled
  <2>2. CallsDone(line) = instruction_count /\ CallsDone(line)' = instruction_count
    BY <1>3, <2>1 DEF CallsDone
  <2>3. CallsLeft(line)' = IF n > 0 THEN n ELSE 0
    BY <1>1, <1>3, <1>5, <2>2 DEF CallsLeft, Scheduled
  <2>. QED
    BY <1>2, <1>8, <2>2, <2>3 DEF Assertion
<1>10. \A other \in Lines \ {line} : Resting(other)
  BY <1>2, <1>3, <1>5, <1>8 DEF Resting, CallsLeft, CallsDone, Due, Scheduled
<1>. QED
  BY <1>7, <1>9, <1>10

(* A finished call counts for a line, unless that makes its release due:   *)
(* then it counts when the line is released.                               *)
LEMMA CallCounts ==
  ASSUME ScheduleInv, Complete
  PROVE  ScheduleInv' /\ \A line \in Lines : Completion(line) \/ Resting(line)
<1>1. /\ instruction_count' = instruction_count + 1 /\ instruction_count \in Nat
      /\ deassert_at' = deassert_at /\ deassert_at \in [Lines -> Nat]
      /\ phase = "trail" /\ phase' = "release_irq"
      /\ asked' = Silence
  BY DEF Complete, ScheduleInv, ScheduleTypeOK
<1>2. \A line \in Lines : Level(line)' <=> Level(line)
  BY UnchangedKeepsLevels DEF Complete
<1>3. \A line \in Lines : ~AwaitsRelease(line) /\ AwaitsRelease(line)'
  BY <1>1 DEF AwaitsRelease
<1>4. ScheduleInv'
  BY <1>1, <1>2, <1>3 DEF ScheduleInv, ScheduleTypeOK, Scheduled
<1>5. ASSUME NEW line \in Lines PROVE Completion(line) \/ Resting(line)
  <2>1. asked'[line] = NotAsked
    BY <1>1, SilenceAsksNothing
  <2>2. ~Due(line) /\ CallsDone(line) = instruction_count
    BY <1>1, <1>3 DEF ScheduleInv, Due, CallsDone, Scheduled
  <2>3. CASE ~Scheduled(line)
    <3>1. ~Level(line) /\ ~Level(line)' /\ ~Scheduled(line)'
      BY <1>1, <1>2, <2>3 DEF ScheduleInv, Scheduled
    <3>2. CallsDone(line)' = instruction_count + 1 /\ CallsLeft(line)' = 0 /\ CallsLeft(line) = 0
      BY <1>1, <2>3, <3>1 DEF CallsDone, CallsLeft, Due
    <3>. QED
      BY <2>1, <2>2, <3>1, <3>2 DEF Completion
  <2>4. CASE Scheduled(line) /\ deassert_at[line] = instruction_count + 1
    <3>1. Due(line)' /\ Scheduled(line)'
      BY <1>1, <2>4 DEF Due, Scheduled
    <3>2. CallsDone(line)' = instruction_count + 1 - 1
      BY <1>1, <3>1 DEF CallsDone
    <3>3. CallsDone(line)' = CallsDone(line)
      BY <1>1, <2>2, <3>2
    <3>4. CallsLeft(line)' = CallsLeft(line)
      BY <1>1, <2>4, <3>1, <3>3 DEF CallsLeft
    <3>. QED
      BY <1>2, <2>1, <3>3, <3>4 DEF Resting
  <2>5. CASE Scheduled(line) /\ deassert_at[line] # instruction_count + 1
    <3>1. instruction_count + 1 < deassert_at[line] /\ deassert_at[line] \in Nat
      BY <1>1, <1>3, <2>5 DEF ScheduleInv
    <3>2. ~Due(line)' /\ Scheduled(line)'
      BY <1>1, <2>5, <3>1 DEF Due, Scheduled
    <3>3. CallsDone(line)' = instruction_count + 1
      BY <1>1, <3>2 DEF CallsDone
    <3>4. /\ CallsLeft(line) = deassert_at[line] - instruction_count
          /\ CallsLeft(line)' = deassert_at[line] - (instruction_count + 1)
      BY <1>1, <2>2, <2>5, <3>2, <3>3 DEF CallsLeft
    <3>5. Level(line)'
      BY <1>2, <2>5 DEF ScheduleInv
    <3>. QED
      BY <1>1, <2>1, <2>2, <3>1, <3>3, <3>4, <3>5 DEF Completion
  <2>. QED
    BY <2>3, <2>4, <2>5
<1>. QED
  BY <1>4, <1>5

(* A line is released when its release is due, and that is the end of its  *)
(* last call; the other line is left alone.                                *)
LEMMA ReleaseCompletes ==
  ASSUME ScheduleInv, NEW line \in Lines, NEW after,
         \/ line = "irq" /\ phase = "release_irq" /\ after = "release_nmi"
         \/ line = "nmi" /\ phase = "release_nmi" /\ after = "idle",
         Release(line, phase, after)
  PROVE  ScheduleInv' /\ \A l \in Lines : Completion(l) \/ Resting(l)
<1>1. /\ instruction_count' = instruction_count /\ instruction_count \in Nat
      /\ deassert_at \in [Lines -> Nat]
      /\ phase' = after
      /\ asked' = Silence
  BY DEF Release, ScheduleInv, ScheduleTypeOK
<1>2. AwaitsRelease(line) /\ ~AwaitsRelease(line)'
  BY <1>1 DEF AwaitsRelease
<1>3. \A l \in Lines \ {line} : AwaitsRelease(l) <=> AwaitsRelease(l)'
  BY <1>1 DEF AwaitsRelease, Lines
<1>4. CASE Due(line)
  <2>1. /\ ~Level(line)'
        /\ \A other \in Lines \ {line} : Level(other)' <=> Level(other)
    BY <1>4, SetLineDrives DEF Release
  <2>2. /\ deassert_at' \in [Lines -> Nat]
        /\ deassert_at'[line] = 0
        /\ \A other \in Lines \ {line} : deassert_at'[other] = deassert_at[other]
    BY <1>1, <1>4 DEF Release, ClearScheduled
  <2>3. ScheduleInv'
    BY <1>1, <1>3, <2>1, <2>2 DEF ScheduleInv, ScheduleTypeOK, Scheduled
  <2>4. deassert_at[line] = instruction_count /\ Scheduled(line)
    BY <1>1, <1>4 DEF ScheduleInv, Due
  <2>5. CallsDone(line) = instruction_count - 1 /\ CallsLeft(line) = 1
    BY <1>1, <1>4, <2>4 DEF CallsDone, CallsLeft
  <2>6. CallsDone(line)' = instruction_count /\ CallsLeft(line)' = 0
    BY <1>1, <2>2 DEF CallsDone, CallsLeft, Due, Scheduled
  <2>7. Completion(line)
    BY <1>1, <2>1, <2>5, <2>6, SilenceAsksNothing DEF Completion
  <2>8. \A other \in Lines \ {line} : Resting(other)
    BY <1>1, <2>1, <2>2, SilenceAsksNothing
    DEF Resting, CallsLeft, CallsDone, Due, Scheduled
  <2>. QED
    BY <2>3, <2>7, <2>8
<1>5. CASE ~Due(line)
  <2>1. deassert_at' = deassert_at /\ \A l \in Lines : Level(l)' <=> Level(l)
    BY <1>5, UnchangedKeepsLevels DEF Release
  <2>2. Scheduled(line) => instruction_count < deassert_at[line]
    BY <1>1, <1>5 DEF ScheduleInv, Due
  <2>3. ScheduleInv'
    BY <1>1, <1>3, <2>1, <2>2 DEF ScheduleInv, ScheduleTypeOK, Scheduled
  <2>4. \A l \in Lines : Resting(l)
    BY <1>1, <2>1, SilenceAsksNothing DEF Resting, CallsLeft, CallsDone, Due, Scheduled
  <2>. QED
    BY <2>3, <2>4
<1>. QED
  BY <1>4, <1>5

(* The steps that neither call nor release: cycles, and the phases of      *)
(* reset() and step_instruction().                                         *)
Passing == ResetCycle \/ ResetReturns \/ StepInstruction \/ LoopCycle \/ Execute

LEMMA PassingKeepsSchedule ==
  ASSUME TypeOK, ScheduleInv, Passing
  PROVE  ScheduleInv' /\ \A line \in Lines : Resting(line)
<1>1. UNCHANGED <<instruction_count, deassert_at>> /\ asked' = Silence
  BY DEF Passing, ResetCycle, ResetReturns, StepInstruction, LoopCycle, Execute
<1>2. \A line \in Lines : Level(line)' <=> Level(line)
  <2>1. Tick \/ UNCHANGED vars
    BY DEF Passing, ResetCycle, ResetReturns, StepInstruction, LoopCycle, Execute
  <2>. QED
    BY <2>1, TickKeepsLevels, UnchangedKeepsLevels
<1>3. \A line \in Lines : ~AwaitsRelease(line)
  BY DEF Passing, ResetCycle, ResetReturns, StepInstruction, LoopCycle, Execute, AwaitsRelease
<1>. QED
  BY <1>1, <1>2, <1>3, RestKeepsSchedule

LEMMA PromiseStepIsAdapterStep ==
  ASSUME PromiseNext
  PROVE  \/ Reset
         \/ Passing
         \/ \E line \in Lines : \E n \in Counts : AssertFor(line, n)
         \/ Complete
         \/ ReleaseIrq
         \/ ReleaseNmi
BY DEF PromiseNext, Passing

(* Every step of the adapter is one of the contract, for each line.        *)
LEMMA StepKeepsContract ==
  ASSUME TypeOK, ScheduleInv, PromiseNext
  PROVE  ScheduleInv' /\ \A line \in Lines : ContractStep(line)
<1>1. CASE Reset
  BY <1>1, ResetForgets DEF ContractStep
<1>2. CASE Passing
  BY <1>2, PassingKeepsSchedule DEF ContractStep
<1>3. ASSUME NEW line \in Lines, NEW n \in Counts, AssertFor(line, n)
      PROVE  ScheduleInv' /\ \A l \in Lines : ContractStep(l)
  BY <1>3, AssertionSchedules DEF ContractStep
<1>4. CASE Complete
  BY <1>4, CallCounts DEF ContractStep
<1>5. CASE ReleaseIrq
  <2>1. phase = "release_irq" /\ Release("irq", phase, "release_nmi")
    BY <1>5 DEF ReleaseIrq, Release
  <2>. QED
    BY <2>1, ReleaseCompletes DEF ContractStep, Lines
<1>6. CASE ReleaseNmi
  <2>1. phase = "release_nmi" /\ Release("nmi", phase, "idle")
    BY <1>6 DEF ReleaseNmi, Release
  <2>. QED
    BY <2>1, ReleaseCompletes DEF ContractStep, Lines
<1>. QED
  BY <1>1, <1>2, <1>3, <1>4, <1>5, <1>6, PromiseStepIsAdapterStep

-----------------------------------------------------------------------------
(* The two instances of the contract.                                      *)

LEMMA IrqContractStep ==
  ASSUME ContractStep("irq")
  PROVE  IrqLine!Next
<1>1. Level("irq") <=> "irq_pin" \in interrupts
  BY DEF Level, Pin
<1>2. Level("irq")' <=> "irq_pin" \in interrupts'
  BY DEF Level, Pin
<1>3. IrqLine!NotAsked = NotAsked
  BY DEF IrqLine!NotAsked, NotAsked
<1>4. CASE Assertion("irq")
  <2>1. ("irq_pin" \in interrupts') = (asked'["irq"].count > 0)
    BY <1>2, <1>4 DEF Assertion
  <2>2. IrqLine!AssertFor(asked'["irq"].count)
    BY <1>4, <2>1 DEF IrqLine!AssertFor, Assertion
  <2>. QED
    BY <1>4, <2>2 DEF IrqLine!Next, Assertion
<1>5. CASE Completion("irq")
  <2>1. ("irq_pin" \in interrupts') = (CallsLeft("irq") > 1)
    BY <1>2, <1>5 DEF Completion
  <2>2. IrqLine!CompleteCall
    BY <1>5, <2>1 DEF IrqLine!CompleteCall, Completion
  <2>. QED
    BY <1>3, <1>5, <2>2 DEF IrqLine!Next, Completion
<1>6. CASE Forgetting("irq")
  <2>1. ("irq_pin" \in interrupts') = FALSE
    BY <1>2, <1>6 DEF Forgetting
  <2>2. IrqLine!Reset
    BY <1>6, <2>1 DEF IrqLine!Reset, Forgetting
  <2>. QED
    BY <1>3, <1>6, <2>2 DEF IrqLine!Next, Forgetting
<1>7. CASE Resting("irq")
  <2>1. ("irq_pin" \in interrupts') = ("irq_pin" \in interrupts)
    BY <1>1, <1>2, <1>7 DEF Resting
  <2>. QED
    BY <1>3, <1>7, <2>1 DEF IrqLine!Next, Resting
<1>. QED
  BY <1>4, <1>5, <1>6, <1>7 DEF ContractStep

LEMMA NmiContractStep ==
  ASSUME ContractStep("nmi")
  PROVE  NmiLine!Next
<1>1. Level("nmi") <=> "nmi_pin" \in interrupts
  BY DEF Level, Pin
<1>2. Level("nmi")' <=> "nmi_pin" \in interrupts'
  BY DEF Level, Pin
<1>3. NmiLine!NotAsked = NotAsked
  BY DEF NmiLine!NotAsked, NotAsked
<1>4. CASE Assertion("nmi")
  <2>1. ("nmi_pin" \in interrupts') = (asked'["nmi"].count > 0)
    BY <1>2, <1>4 DEF Assertion
  <2>2. NmiLine!AssertFor(asked'["nmi"].count)
    BY <1>4, <2>1 DEF NmiLine!AssertFor, Assertion
  <2>. QED
    BY <1>4, <2>2 DEF NmiLine!Next, Assertion
<1>5. CASE Completion("nmi")
  <2>1. ("nmi_pin" \in interrupts') = (CallsLeft("nmi") > 1)
    BY <1>2, <1>5 DEF Completion
  <2>2. NmiLine!CompleteCall
    BY <1>5, <2>1 DEF NmiLine!CompleteCall, Completion
  <2>. QED
    BY <1>3, <1>5, <2>2 DEF NmiLine!Next, Completion
<1>6. CASE Forgetting("nmi")
  <2>1. ("nmi_pin" \in interrupts') = FALSE
    BY <1>2, <1>6 DEF Forgetting
  <2>2. NmiLine!Reset
    BY <1>6, <2>1 DEF NmiLine!Reset, Forgetting
  <2>. QED
    BY <1>3, <1>6, <2>2 DEF NmiLine!Next, Forgetting
<1>7. CASE Resting("nmi")
  <2>1. ("nmi_pin" \in interrupts') = ("nmi_pin" \in interrupts)
    BY <1>1, <1>2, <1>7 DEF Resting
  <2>. QED
    BY <1>3, <1>7, <2>1 DEF NmiLine!Next, Resting
<1>. QED
  BY <1>4, <1>5, <1>6, <1>7 DEF ContractStep

-----------------------------------------------------------------------------
(* The adapter drives the core by its functions only.                      *)
LEMMA CoreStep ==
  ASSUME [PromiseNext]_promiseVars
  PROVE  [Next]_vars
<1>1. CASE PromiseNext
  <2>1. ASSUME NEW line \in Lines, NEW level \in BOOLEAN, SetLine(line, level)
        PROVE  Next
    BY <2>1 DEF SetLine, LineChange, Next
  <2>2. \A n \in Counts : (n > 0) \in BOOLEAN
    OBVIOUS
  <2>3. Reset \/ Passing \/ Complete => Next \/ UNCHANGED vars
    BY DEF Reset, Passing, Complete, ResetCycle, ResetReturns, StepInstruction, LoopCycle,
           Execute, Next
  <2>4. ASSUME NEW line \in Lines, NEW n \in Counts, AssertFor(line, n) PROVE Next
    BY <2>1, <2>2, <2>4 DEF AssertFor
  <2>5. ReleaseIrq \/ ReleaseNmi => Next \/ UNCHANGED vars
    BY <2>1 DEF ReleaseIrq, ReleaseNmi, Release, Lines
  <2>. QED
    BY <1>1, <2>3, <2>4, <2>5, PromiseStepIsAdapterStep
<1>2. CASE UNCHANGED promiseVars
  BY <1>2 DEF promiseVars, vars
<1>. QED
  BY <1>1, <1>2

LEMMA CoreRuns == PromiseSpec => Spec
<1>1. PromiseInit => Init
  BY DEF PromiseInit, AdapterInit
<1>. QED
  BY <1>1, CoreStep, PTL DEF PromiseSpec, Spec

LEMMA ScheduleInvHolds == PromiseSpec => []ScheduleInv
<1>1. PromiseInit => ScheduleInv
  BY DEF PromiseInit, AdapterInit, Init, NothingScheduled, ScheduleInv, ScheduleTypeOK,
         Scheduled, Level
<1>2. TypeOK /\ ScheduleInv /\ [PromiseNext]_promiseVars => ScheduleInv'
  <2>1. UNCHANGED promiseVars /\ ScheduleInv => ScheduleInv'
    BY DEF promiseVars, ScheduleInv, ScheduleTypeOK, Scheduled, Level, AwaitsRelease
  <2>. QED
    BY <2>1, StepKeepsContract
<1>. QED
  BY <1>1, <1>2, CoreRuns, TypeCorrect, PTL DEF PromiseSpec

(* For every program and every schedule of assertions, the IRQ line of the *)
(* adapter is asserted for as many calls as it was asked to, whatever the  *)
(* other line, a reset or a later assertion does.                          *)
THEOREM IrqLineKeepsContract == PromiseSpec => IrqLineContract
<1>1. PromiseInit => IrqLine!Init
  BY DEF PromiseInit, AdapterInit, Init, IrqLine!Init, IrqLine!NotAsked, Silence, NotAsked,
         NothingScheduled, Lines, CallsLeft, CallsDone, Due, Scheduled
<1>2. TypeOK /\ ScheduleInv /\ [PromiseNext]_promiseVars => [IrqLine!Next]_(IrqLine!vars)
  <2>1. UNCHANGED promiseVars => UNCHANGED IrqLine!vars
    BY DEF promiseVars, IrqLine!vars, CallsLeft, CallsDone, Due, Scheduled
  <2>. QED
    BY <2>1, StepKeepsContract, IrqContractStep DEF Lines
<1>. QED
  BY <1>1, <1>2, ScheduleInvHolds, CoreRuns, TypeCorrect, PTL
  DEF PromiseSpec, IrqLineContract, IrqLine!Spec

(* And so is the NMI line.                                                 *)
THEOREM NmiLineKeepsContract == PromiseSpec => NmiLineContract
<1>1. PromiseInit => NmiLine!Init
  BY DEF PromiseInit, AdapterInit, Init, NmiLine!Init, NmiLine!NotAsked, Silence, NotAsked,
         NothingScheduled, Lines, CallsLeft, CallsDone, Due, Scheduled
<1>2. TypeOK /\ ScheduleInv /\ [PromiseNext]_promiseVars => [NmiLine!Next]_(NmiLine!vars)
  <2>1. UNCHANGED promiseVars => UNCHANGED NmiLine!vars
    BY DEF promiseVars, NmiLine!vars, CallsLeft, CallsDone, Due, Scheduled
  <2>. QED
    BY <2>1, StepKeepsContract, NmiContractStep DEF Lines
<1>. QED
  BY <1>1, <1>2, ScheduleInvHolds, CoreRuns, TypeCorrect, PTL
  DEF PromiseSpec, NmiLineContract, NmiLine!Spec

-----------------------------------------------------------------------------
(* The loops end at a boundary.                                            *)

(* With the lines at rest and the resolver unhooked, a reset takes         *)
(* seventeen cycles: eight of waiting, then one for each entry up to the   *)
(* fetch of the program's first opcode.                                    *)
Waiting ==
  /\ spent \in 0 .. 7
  /\ microcode = Index(SlotInternalReset, 0)
  /\ latch_data = spent
  /\ tick = "internal_reset"

Starting ==
  /\ spent \in 8 .. 17
  /\ microcode = Index(SlotReset0, 0) + (spent - 8)
  /\ tick # "jammed"
  /\ tick = "fetch" <=> spent \in {10, 17}

(* Everywhere else the core is before an opcode, or jammed, or in a loop   *)
(* of step_instruction() with enough of its budget left.                   *)
Approaching ==
  /\ phase = "trail"
  /\ Running(microcode)
  /\ spent + CyclesToFetch(microcode) <= MaxCycles

Between ==
  /\ OpAt(microcode) # "internal_reset"
  /\ AtBoundary \/ Approaching
  /\ phase # "trail" => spent = 0

ResettingInv == interrupts = {} /\ ~hijack /\ (Waiting \/ Starting)

BoundaryInv ==
  /\ phase \in Phases
  /\ spent \in 0 .. MaxResetCycles
  /\ IF phase = "reset" THEN ResettingInv ELSE Between

(* A bound on every sequence, from its first cycle.                        *)
LEMMA CyclesBounded ==
  ASSUME NEW at \in Nat
  PROVE  CyclesToFetch(at) \in 1 .. 16
<1>1. at % 8 \in 0 .. 7
  OBVIOUS
<1>. QED
  BY <1>1 DEF CyclesToFetch

(* After a tick that is not part of the internal reset, the core is at a   *)
(* boundary or nearer to one.                                              *)
LEMMA TickApproaches ==
  ASSUME TypeOK, OpAt(microcode) # "internal_reset", Tick
  PROVE  /\ OpAt(microcode') # "internal_reset"
         /\ \/ AtBoundary'
            \/ /\ Running(microcode')
               /\ CyclesToFetch(microcode') < 16
               /\ Running(microcode) => CyclesToFetch(microcode') < CyclesToFetch(microcode)
<1>1. PICK e \in Entries(microcode) : \E choice \in Choices(OpAt(e.at)) :
        TickOf(e, choice) /\ e.at \in Nat /\ e.at \in Cursors /\ Running(e.at)
  BY TickShape
<1>2. PICK choice \in Choices(OpAt(e.at)) : TickOf(e, choice)
  BY <1>1
<1>3. OpAt(e.at) # "internal_reset"
  <2>1. CASE OpAt(microcode) = "dispatch"
    <3>1. PICK opcode \in OpcodeSlots : e.at = Index(opcode, 0)
      BY <2>1, OpcodesAssumption DEF Entries
    <3>2. e.at # Index(SlotInternalReset, 0)
      BY <3>1 DEF OpcodeSlots, Index, MicrocodePerSlot, SlotInternalReset
    <3>. QED
      BY <1>1, <3>2, ResetSequenceAssumption DEF ResetSequence
  <2>2. CASE OpAt(microcode) # "dispatch"
    BY <2>2 DEF Entries
  <2>. QED
    BY <2>1, <2>2
<1>4. Running(microcode) => e.at = microcode
  BY DEF Entries, Running
<1>5. P \in SUBSET Flags /\ microcode \in Nat /\ microcode' \in Nat
  <2>1. P \in SUBSET Flags /\ microcode \in Nat
    BY DEF TypeOK, ExecutionTypeOK
  <2>2. TypeOK'
    BY <2>1, FastTickType, HijackedTickType DEF Tick
  <2>. QED
    BY <2>1, <2>2 DEF TypeOK, ExecutionTypeOK
<1>6. \A count : Request(OpAt(e.at), P, count) = Request(OpAt(e.at), P, 0)
  BY <1>3 DEF Request
<1>7. tick' = Request(OpAt(e.at), P, 0)
  BY <1>2, <1>6 DEF TickOf, Handler
<1>8. CASE microcode' \in Successors(e.at, P, choice)
  <2>1. /\ OpAt(microcode') # "internal_reset"
        /\ \/ Request(OpAt(e.at), P, 0) \in {"fetch", "jammed"}
           \/ Running(microcode') /\ CyclesToFetch(microcode') < CyclesToFetch(e.at)
    BY <1>1, <1>3, <1>5, <1>8, EndsInFetchAssumption DEF EndsInFetch
  <2>2. CyclesToFetch(e.at) \in 1 .. 16 /\ CyclesToFetch(microcode') \in 1 .. 16
    BY <1>1, <1>5, CyclesBounded
  <2>. QED
    BY <1>4, <1>7, <2>1, <2>2 DEF AtBoundary
<1>9. CASE tick' = "fetch" /\ microcode' \in {Index(SlotNmi, 0), Index(SlotIrq, 0)}
  <2>1. microcode' \in Cursors /\ microcode' # Index(SlotInternalReset, 0)
    BY <1>9 DEF Cursors, Index, MicrocodePerSlot, SlotNmi, SlotIrq, SlotInternalReset
  <2>. QED
    BY <1>9, <2>1, ResetSequenceAssumption DEF ResetSequence, AtBoundary
<1>. QED
  BY <1>2, <1>8, <1>9 DEF TickOf

(* The reset's handlers, which do not touch the interrupt word.            *)
ResetOps == {"internal_reset", "read", "reset_vec_lo", "reset_vec_hi", "fake_fetch", "vector_fetch"}

LEMMA QuietTick ==
  ASSUME TypeOK, interrupts = {}, ~hijack, Tick, OpAt(microcode) \in ResetOps
  PROVE  /\ interrupts' = {} /\ ~hijack'
         /\ latch_data' = IF OpAt(microcode) = "internal_reset" THEN latch_data + 1 ELSE latch_data
         /\ tick' = Request(OpAt(microcode), P, latch_data')
         /\ \E choice, winner :
              microcode' = NextMicrocode(microcode, P, choice, winner, latch_data')
<1> DEFINE op == OpAt(microcode)
<1>1. FastTick(microcode)
  BY DEF Tick, HijackedTick
<1>2. op \notin {"dispatch", "empty"}
  BY DEF ResetOps
<1>3. \A e \in Entries(microcode) : e.at = microcode
  BY <1>2 DEF Entries
<1>4. PICK e \in Entries(microcode) : \E choice \in Choices(OpAt(e.at)) :
        /\ Handler(e, choice)
        /\ interrupts' = InterruptsAfter(OpAt(e.at), interrupts, P, choice)
        /\ microcode' = Continue(e, interrupts, choice)
  BY <1>1 DEF FastTick
<1>5. e.at = microcode
  BY <1>3, <1>4
<1>6. PICK choice \in Choices(op) :
        /\ Handler(e, choice)
        /\ interrupts' = InterruptsAfter(op, interrupts, P, choice)
        /\ microcode' = Continue(e, interrupts, choice)
  BY <1>4, <1>5
<1>7. ~Samples(op, P, choice)
  BY DEF Samples, PrefetchOps, BinaryPrefetchOps, ResetOps
<1>8. interrupts' = {}
  BY <1>6, <1>7 DEF InterruptsAfter, ResetOps
<1>9. ~hijack'
  BY <1>1 DEF FastTick
<1>10. /\ latch_data' = IF op = "internal_reset" THEN latch_data + 1 ELSE latch_data
       /\ tick' = Request(op, P, latch_data')
  BY <1>5, <1>6 DEF Handler
<1>11. \E winner : microcode' = NextMicrocode(microcode, P, choice, winner, latch_data')
  BY <1>5, <1>6 DEF Continue
<1>. QED
  BY <1>8, <1>9, <1>10, <1>11

(* A cycle of the wait, and the end of it.                                 *)
LEMMA WaitingTick ==
  ASSUME TypeOK, interrupts = {}, ~hijack, Waiting, Tick, spent' = spent + 1
  PROVE  Waiting' \/ Starting'
<1>1. OpAt(microcode) = "internal_reset"
  <2>1. microcode \in Cursors
    BY DEF Waiting, Cursors, Index, MicrocodePerSlot, SlotInternalReset, SlotIrq
  <2>. QED
    BY <2>1, ResetSequenceAssumption DEF ResetSequence, Waiting
<1>2. PICK choice, winner :
        /\ microcode' = NextMicrocode(microcode, P, choice, winner, latch_data')
        /\ latch_data' = latch_data + 1
        /\ tick' = Request("internal_reset", P, latch_data')
  BY <1>1, QuietTick DEF ResetOps
<1>3. latch_data' = spent'
  BY <1>2 DEF Waiting
<1>4. CASE spent = 7
  <2>1. latch_data' = 8
    BY <1>3, <1>4
  <2>2. microcode' = Index(SlotReset0, 0)
    <3>1. NextMicrocode(microcode, P, choice, winner, 8) = Index(SlotReset0, 0)
      BY <1>1 DEF NextMicrocode, LoopsHere
    <3>. QED
      BY <1>2, <2>1, <3>1
  <2>3. tick' = "read"
    BY <1>2, <2>1 DEF Request, FetchOps
  <2>4. spent' = 8 /\ Index(SlotReset0, 0) \in Int
    BY <1>4 DEF Index, SlotReset0, MicrocodePerSlot
  <2>. QED
    BY <2>2, <2>3, <2>4 DEF Starting
<1>5. CASE spent # 7
  <2>1. spent' \in 0 .. 7 /\ latch_data' # 8
    BY <1>3, <1>5 DEF Waiting
  <2>2. microcode' = microcode
    BY <1>1, <1>2, <2>1 DEF NextMicrocode, LoopsHere
  <2>3. tick' = "internal_reset"
    BY <1>2, <2>1 DEF Request, FetchOps
  <2>. QED
    BY <1>3, <2>1, <2>2, <2>3 DEF Waiting
<1>. QED
  BY <1>4, <1>5

(* A cycle of the reset sequence.                                          *)
LEMMA StartingTick ==
  ASSUME TypeOK, interrupts = {}, ~hijack, Starting, spent # 17, Tick, spent' = spent + 1
  PROVE  Starting'
<1> DEFINE cycle == spent - 8
           op    == OpAt(microcode)
<1>1. cycle \in 0 .. 8 /\ microcode = Index(SlotReset0, cycle) /\ microcode \in Nat
  BY DEF Starting, Index, SlotReset0, MicrocodePerSlot
<1>2. IF cycle \in {1, 8} THEN op \in {"fake_fetch", "vector_fetch"}
                          ELSE op \in {"read", "reset_vec_lo", "reset_vec_hi"}
  <2>1. CASE cycle = 1
    BY <1>1, <2>1, ResetSequenceAssumption DEF ResetSequence
  <2>2. CASE cycle = 8
    BY <1>1, <2>2, ResetSequenceAssumption DEF ResetSequence
  <2>3. CASE cycle \in {0, 2, 3, 4, 5, 6, 7}
    BY <1>1, <2>3, ResetSequenceAssumption DEF ResetSequence
  <2>. QED
    BY <1>1, <2>1, <2>2, <2>3
<1>3. op \in ResetOps \ {"internal_reset"}
  BY <1>2 DEF ResetOps
<1>4. PICK choice, winner :
        /\ microcode' = NextMicrocode(microcode, P, choice, winner, latch_data')
        /\ tick' = Request(op, P, latch_data')
  BY <1>3, QuietTick
<1>5. microcode' = microcode + 1
  <2>1. ~LoopsHere(op, latch_data') /\ Ahead(op, P, choice) = 0
    BY <1>3 DEF LoopsHere, Ahead, ProbeOps, ResetOps
  <2>2. microcode' = microcode + 1 + 0
    BY <1>3, <1>4, <2>1 DEF NextMicrocode, ResetOps
  <2>. QED
    BY <1>1, <2>2
<1>6. tick' # "jammed" /\ (tick' = "fetch" <=> cycle \in {1, 8})
  <2>1. CASE cycle \in {1, 8}
    BY <1>2, <1>4, <2>1 DEF Request, FetchOps
  <2>2. CASE cycle \notin {1, 8}
    BY <1>2, <1>4, <2>2 DEF Request, FetchOps
  <2>. QED
    BY <2>1, <2>2
<1>7. spent' \in 8 .. 17 /\ (spent' \in {10, 17} <=> cycle \in {1, 8})
  BY DEF Starting
<1>8. microcode' = Index(SlotReset0, 0) + (spent' - 8)
  BY <1>5 DEF Starting, Index, SlotReset0, MicrocodePerSlot
<1>. QED
  BY <1>6, <1>7, <1>8 DEF Starting

-----------------------------------------------------------------------------
(* The invariant of the loops, step by step.                               *)

LEMMA ResetCycleKeepsBoundary ==
  ASSUME TypeOK, BoundaryInv, ResetCycle
  PROVE  BoundaryInv'
<1>1. /\ phase = "reset" /\ phase' = "reset"
      /\ interrupts = {} /\ ~hijack
      /\ Waiting \/ Starting
      /\ spent' = spent + 1 /\ spent \in Nat
  BY DEF ResetCycle, BoundaryInv, ResettingInv
<1>2. spent # 17 \/ Waiting
  <2>. SUFFICES ASSUME Starting, spent = 17 PROVE FALSE
    BY <1>1
  <2>1. tick = "fetch" /\ microcode = SlotReset1 * 8 + 1
    BY DEF Starting, Index, MicrocodePerSlot, SlotReset0, SlotReset1
  <2>2. SlotOf(microcode) # SlotReset0
    BY <2>1 DEF SlotOf, MicrocodePerSlot, SlotReset0, SlotReset1
  <2>. QED
    BY <2>1, <2>2 DEF ResetCycle, AtStart
<1>3. Waiting' \/ Starting'
  BY <1>1, <1>2, WaitingTick, StartingTick DEF ResetCycle
<1>4. interrupts' = {} /\ ~hijack'
  <2>1. OpAt(microcode) \in ResetOps
    <3>1. CASE Waiting
      <4>1. microcode \in Cursors
        BY <3>1 DEF Waiting, Cursors, Index, MicrocodePerSlot, SlotInternalReset, SlotIrq
      <4>. QED
        BY <3>1, <4>1, ResetSequenceAssumption DEF ResetSequence, Waiting, ResetOps
    <3>2. CASE ~Waiting
      <4>1. spent - 8 \in 0 .. 8 /\ microcode = Index(SlotReset0, spent - 8)
        BY <1>1, <1>2, <3>2 DEF Starting, Index, SlotReset0, MicrocodePerSlot
      <4>2. spent - 8 \in {0, 2, 3, 4, 5, 6, 7} \/ spent - 8 = 1 \/ spent - 8 = 8
        BY <4>1
      <4>. QED
        BY <4>1, <4>2, ResetSequenceAssumption DEF ResetSequence, ResetOps
    <3>. QED
      BY <3>1, <3>2
  <2>. QED
    BY <1>1, <2>1, QuietTick DEF ResetCycle
<1>5. spent' \in 0 .. MaxResetCycles
  BY <1>3 DEF Waiting, Starting, MaxResetCycles
<1>. QED
  BY <1>1, <1>3, <1>4, <1>5 DEF BoundaryInv, ResettingInv, Phases

(* reset() returns before the first opcode, or, if the reset vector holds  *)
(* the address shown by the fetch in the middle of the sequence, there.    *)
LEMMA ResetReturnsAtBoundary ==
  ASSUME BoundaryInv, ResetReturns
  PROVE  /\ BoundaryInv'
         /\ ~ShamFetchAtStart => microcode' = Index(SlotReset1, 1)
<1>1. /\ Waiting \/ Starting
      /\ phase' = "idle" /\ spent' = 0
      /\ microcode' = microcode /\ tick' = tick
      /\ AtStart \/ spent = MaxResetCycles
  BY DEF ResetReturns, BoundaryInv, ResettingInv, vars
<1>2. Starting /\ tick = "fetch" /\ AtStart
  BY <1>1 DEF Waiting, Starting, AtStart, MaxResetCycles
<1>3. spent \in {10, 17}
  BY <1>2 DEF Starting
<1>4. /\ spent = 10 => SlotOf(microcode) = SlotReset0
      /\ spent = 17 => microcode = Index(SlotReset1, 1)
  BY <1>2 DEF Starting, SlotOf, Index, MicrocodePerSlot, SlotReset0, SlotReset1
<1>5. OpAt(microcode) # "internal_reset"
  <2>1. microcode \in Cursors /\ microcode # Index(SlotInternalReset, 0)
    BY <1>2, <1>3
    DEF Starting, Cursors, Index, MicrocodePerSlot, SlotReset0, SlotIrq, SlotInternalReset
  <2>. QED
    BY <2>1, ResetSequenceAssumption DEF ResetSequence
<1>6. BoundaryInv'
  BY <1>1, <1>2, <1>5 DEF BoundaryInv, Between, AtBoundary, Phases, MaxResetCycles
<1>. QED
  BY <1>1, <1>2, <1>3, <1>4, <1>6 DEF AtStart

(* A cycle of the loop comes nearer to the boundary than it spends.        *)
LEMMA LoopCycleKeepsBoundary ==
  ASSUME TypeOK, BoundaryInv, LoopCycle
  PROVE  BoundaryInv'
<1>1. /\ phase = "trail" /\ phase' = "trail"
      /\ Approaching /\ OpAt(microcode) # "internal_reset"
      /\ spent' = spent + 1 /\ spent \in Nat
      /\ Tick
  BY DEF LoopCycle, LoopEnds, BoundaryInv, Between, Approaching
<1>2. /\ OpAt(microcode') # "internal_reset"
      /\ \/ AtBoundary'
         \/ Running(microcode') /\ CyclesToFetch(microcode') < CyclesToFetch(microcode)
  BY <1>1, TickApproaches DEF Approaching
<1>3. microcode \in Nat /\ microcode' \in Nat
  <2>1. TypeOK'
    BY <1>1, FastTickType, HijackedTickType DEF Tick, TypeOK, ExecutionTypeOK
  <2>. QED
    BY <2>1 DEF TypeOK, ExecutionTypeOK
<1>4. CyclesToFetch(microcode) \in 1 .. 16 /\ CyclesToFetch(microcode') \in 1 .. 16
  BY <1>3, CyclesBounded
<1>5. AtBoundary' \/ Approaching'
  BY <1>1, <1>2, <1>4 DEF Approaching, MaxCycles
<1>6. spent' \in 0 .. MaxResetCycles
  BY <1>1, <1>4 DEF Approaching, MaxCycles, MaxResetCycles
<1>. QED
  BY <1>1, <1>2, <1>5, <1>6 DEF BoundaryInv, Between, Phases

LEMMA ExecuteKeepsBoundary ==
  ASSUME TypeOK, BoundaryInv, Execute
  PROVE  BoundaryInv'
<1>1. /\ phase = "lead" /\ phase' = "trail"
      /\ OpAt(microcode) # "internal_reset"
      /\ spent' = 0
      /\ Tick
  BY DEF Execute, BoundaryInv, Between
<1>2. /\ OpAt(microcode') # "internal_reset"
      /\ AtBoundary' \/ (Running(microcode') /\ CyclesToFetch(microcode') < 16)
  BY <1>1, TickApproaches
<1>3. microcode' \in Nat
  <2>1. TypeOK'
    BY <1>1, FastTickType, HijackedTickType DEF Tick, TypeOK, ExecutionTypeOK
  <2>. QED
    BY <2>1 DEF TypeOK, ExecutionTypeOK
<1>4. CyclesToFetch(microcode') \in 1 .. 16
  BY <1>3, CyclesBounded
<1>5. AtBoundary' \/ Approaching'
  BY <1>1, <1>2, <1>4 DEF Approaching, MaxCycles
<1>. QED
  BY <1>1, <1>2, <1>5 DEF BoundaryInv, Between, Phases, MaxResetCycles

(* The steps that start or end a call, and those that move a line, leave   *)
(* the core where it is.                                                   *)
LEMMA CallsKeepBoundary ==
  ASSUME TypeOK, BoundaryInv,
         \/ StepInstruction \/ Complete \/ ReleaseIrq \/ ReleaseNmi
         \/ \E line \in Lines : \E n \in Counts : AssertFor(line, n)
  PROVE  BoundaryInv' /\ phase # "reset" /\ UNCHANGED <<microcode, tick>>
<1>1. UNCHANGED <<microcode, tick>>
  BY DEF StepInstruction, Complete, ReleaseIrq, ReleaseNmi, Release, AssertFor, SetLine,
         IrqAssert, NmiAssert, execution, vars
<1>2. phase # "reset" /\ phase' \in Phases \ {"reset", "trail"} /\ spent' = 0
  BY DEF StepInstruction, Complete, ReleaseIrq, ReleaseNmi, Release, AssertFor, Phases,
         BoundaryInv, Between
<1>3. AtBoundary
  <2>1. CASE Complete
    <3>1. SUFFICES ASSUME spent = MaxCycles, Approaching PROVE FALSE
      BY <2>1 DEF Complete, LoopEnds, BoundaryInv, Between
    <3>2. CyclesToFetch(microcode) \in 1 .. 16
      BY CyclesBounded DEF TypeOK, ExecutionTypeOK
    <3>. QED
      BY <3>1, <3>2 DEF Approaching, MaxCycles
  <2>2. CASE ~Complete
    BY <2>2 DEF BoundaryInv, Between, Approaching, StepInstruction,
       ReleaseIrq, ReleaseNmi, Release, AssertFor
  <2>. QED
    BY <2>1, <2>2
<1>. QED
  BY <1>1, <1>2, <1>3 DEF BoundaryInv, Between, AtBoundary, MaxResetCycles

LEMMA BoundaryInductive ==
  ASSUME TypeOK, BoundaryInv, [PromiseNext]_promiseVars
  PROVE  BoundaryInv'
<1>1. CASE Reset
  <2>1. /\ phase' = "reset" /\ spent' = 0
        /\ microcode' = Index(SlotInternalReset, 0) /\ latch_data' = 0
        /\ tick' = "internal_reset" /\ interrupts' = {} /\ ~hijack'
    BY <1>1 DEF Reset, Restart, Restarted
  <2>. QED
    BY <2>1 DEF BoundaryInv, ResettingInv, Waiting, Phases, MaxResetCycles
<1>2. CASE Passing
  <2>1. CASE StepInstruction
    BY <2>1, CallsKeepBoundary
  <2>. QED
    BY <1>2, <2>1, ResetCycleKeepsBoundary, ResetReturnsAtBoundary, LoopCycleKeepsBoundary,
       ExecuteKeepsBoundary DEF Passing
<1>3. CASE \/ Complete \/ ReleaseIrq \/ ReleaseNmi
           \/ \E line \in Lines : \E n \in Counts : AssertFor(line, n)
  BY <1>3, CallsKeepBoundary
<1>4. CASE UNCHANGED promiseVars
  BY <1>4
  DEF promiseVars, BoundaryInv, ResettingInv, Waiting, Starting, Between, Approaching, AtBoundary
<1>. QED
  BY <1>1, <1>2, <1>3, <1>4, PromiseStepIsAdapterStep

LEMMA BoundaryInvHolds == PromiseSpec => []BoundaryInv
<1>1. PromiseInit => BoundaryInv
  BY DEF PromiseInit, AdapterInit, Init, Restarted, BoundaryInv, ResettingInv, Waiting, Phases,
         MaxResetCycles
<1>. QED
  BY <1>1, BoundaryInductive, CoreRuns, TypeCorrect, PTL DEF PromiseSpec

(* The budgets are never exceeded, and the schedule is well formed.        *)
THEOREM AdapterTypeCorrect == PromiseSpec => []AdapterTypeOK
<1>1. ScheduleInv /\ BoundaryInv => AdapterTypeOK
  BY DEF ScheduleInv, BoundaryInv, AdapterTypeOK
<1>. QED
  BY <1>1, ScheduleInvHolds, BoundaryInvHolds, PTL

-----------------------------------------------------------------------------
(* Before the first call the core is before the program's first opcode; a  *)
(* call has finished before a line's release is looked at.                 *)
FirstCall ==
  instruction_count = 0 =>
    /\ phase = "idle" => microcode = Index(SlotReset1, 1)
    /\ phase \notin {"release_irq", "release_nmi"}

LEMMA FirstCallInductive ==
  ASSUME ~ShamFetchAtStart, TypeOK, ScheduleInv, BoundaryInv, FirstCall,
         [PromiseNext]_promiseVars
  PROVE  FirstCall'
<1>1. instruction_count \in Nat
  BY DEF ScheduleInv, ScheduleTypeOK
<1>2. CASE Reset \/ ResetCycle \/ StepInstruction \/ LoopCycle \/ Execute \/ Complete
  BY <1>1, <1>2
  DEF Reset, ResetCycle, StepInstruction, LoopCycle, Execute, Complete, FirstCall
<1>3. CASE ResetReturns
  <2>1. microcode' = Index(SlotReset1, 1) /\ phase' = "idle"
    BY <1>3, ResetReturnsAtBoundary DEF ResetReturns
  <2>. QED
    BY <2>1 DEF FirstCall
<1>4. CASE ReleaseIrq \/ ReleaseNmi
  BY <1>4 DEF ReleaseIrq, ReleaseNmi, Release, FirstCall
<1>5. ASSUME NEW line \in Lines, NEW n \in Counts, AssertFor(line, n) PROVE FirstCall'
  <2>1. UNCHANGED <<microcode, tick>>
    BY <1>5, CallsKeepBoundary
  <2>. QED
    BY <1>5, <2>1 DEF AssertFor, FirstCall
<1>6. CASE UNCHANGED promiseVars
  BY <1>6 DEF promiseVars, FirstCall
<1>. QED
  BY <1>2, <1>3, <1>4, <1>5, <1>6, PromiseStepIsAdapterStep DEF Passing

(* Every call finds the core before an opcode, or jammed: no instruction   *)
(* and no interrupt sequence takes longer than the loops wait, and reset() *)
(* does not take the fetch in the middle of its sequence for the last one, *)
(* unless the program starts at the address which that fetch shows.        *)
THEOREM CallsEndAtBoundary ==
  ASSUME ~ShamFetchAtStart
  PROVE  PromiseSpec => []ReturnsAtBoundary
<1>1. PromiseInit => FirstCall
  BY DEF PromiseInit, AdapterInit, FirstCall
<1>2. TypeOK /\ ScheduleInv /\ BoundaryInv /\ FirstCall /\ [PromiseNext]_promiseVars
        => FirstCall'
  BY FirstCallInductive
<1>3. BoundaryInv /\ FirstCall => ReturnsAtBoundary
  BY DEF BoundaryInv, Between, Approaching, FirstCall, ReturnsAtBoundary
<1>. QED
  BY <1>1, <1>2, <1>3, ScheduleInvHolds, BoundaryInvHolds, CoreRuns, TypeCorrect, PTL
  DEF PromiseSpec

-----------------------------------------------------------------------------
(* The edge detector.                                                      *)

(* It is off only while an NMOS core reads a vector: not before an opcode. *)
DeafInv ==
  "sampling_off" \in interrupts =>
    /\ DeafCycle(microcode)
    /\ Model \in {"nmos", "nes"}
    /\ ~AtBoundary

(* The handlers of the vector's high byte switch the detector on.          *)
LEMMA VectorHandlersHear ==
  ASSUME NEW op \in {"nmi_vec_hi", "irq_vec_hi", "brk_vec_hi"},
         NEW ints, NEW flags, NEW choice
  PROVE  "sampling_off" \notin InterruptsAfter(op, ints, flags, choice)
<1>1. ~Samples(op, flags, choice)
  BY DEF Samples, PrefetchOps, BinaryPrefetchOps
<1>2. InterruptsAfter(op, ints, flags, choice) \in {NmosVectorHigh(ints), NmosNmiVectorHigh(ints)}
  BY <1>1 DEF InterruptsAfter
<1>. QED
  BY <1>2 DEF NmosVectorHigh, NmosNmiVectorHigh, UpdateNmiLastSampled

LEMMA TickKeepsDeafInv ==
  ASSUME TypeOK, DeafInv, Tick
  PROVE  DeafInv'
<1>. SUFFICES ASSUME "sampling_off" \in interrupts'
              PROVE  /\ DeafCycle(microcode')
                     /\ Model \in {"nmos", "nes"}
                     /\ tick' \notin {"fetch", "jammed"}
  BY DEF DeafInv, AtBoundary
<1>1. PICK e \in Entries(microcode) : \E choice \in Choices(OpAt(e.at)) :
        TickOf(e, choice) /\ e.at \in Nat /\ e.at \in Cursors /\ Running(e.at)
  BY TickShape
<1>2. PICK choice \in Choices(OpAt(e.at)) : TickOf(e, choice)
  BY <1>1
<1> DEFINE op == OpAt(e.at)
<1>3. PICK ints : Sensing(ints) /\ "sampling_off" \in InterruptsAfter(op, ints, P, choice)
  BY <1>2 DEF TickOf
<1>4. P \in SUBSET Flags
  BY DEF TypeOK, ExecutionTypeOK
<1>5. \A quiet \in {"push_status_b", "irq_push_p", "nmi_push_p", "nmi_vec_lo", "irq_vec_lo", "read_fffe"} :
        op = quiet => tick' \notin {"fetch", "jammed"}
  BY <1>2 DEF TickOf, Handler, Request, FetchOps
<1>6. CASE op \in DeafeningOps
  <2>1. tick' \notin {"fetch", "jammed"}
    BY <1>5, <1>6 DEF DeafeningOps
  <2>2. microcode' \in Successors(e.at, P, choice)
    BY <1>2, <2>1 DEF TickOf
  <2>. QED
    BY <1>1, <1>4, <1>6, <2>1, <2>2, DeafUntilVectorAssumption DEF DeafUntilVector
<1>7. CASE op \notin DeafeningOps
  <2>1. "sampling_off" \in interrupts
    BY <1>3, <1>7, HandlersDoNotDeafen, SensingDoesNotDeafen DEF Sensing
  <2>2. DeafCycle(microcode) /\ Model \in {"nmos", "nes"}
    BY <2>1 DEF DeafInv
  <2>3. e.at = microcode
    BY <2>2 DEF Entries, DeafCycle
  <2>4. op \notin {"nmi_vec_hi", "irq_vec_hi", "brk_vec_hi"}
    BY <1>3, VectorHandlersHear
  <2>5. op \in {"nmi_vec_lo", "irq_vec_lo", "read_fffe"}
    BY <2>2, <2>3, <2>4 DEF DeafCycle
  <2>6. tick' \notin {"fetch", "jammed"}
    BY <1>5, <2>5
  <2>7. microcode' = e.at + 1
    <3>1. PICK winner, count : microcode' = NextMicrocode(e.at, P, choice, winner, count)
      BY <1>2, <2>6 DEF TickOf, Successors
    <3>2. ~LoopsHere(op, count) /\ Ahead(op, P, choice) = 0
      BY <2>5 DEF LoopsHere, Ahead, ProbeOps
    <3>. QED
      BY <1>1, <2>5, <3>1, <3>2 DEF NextMicrocode
  <2>8. OpAt(e.at + 1) \in {"nmi_vec_hi", "irq_vec_hi", "brk_vec_hi"}
    BY <1>1, <2>2, <2>3, <2>5, DeafUntilVectorAssumption DEF DeafUntilVector
  <2>. QED
    BY <2>2, <2>6, <2>7, <2>8 DEF DeafCycle
<1>. QED
  BY <1>6, <1>7

(* Lines are moved at a boundary only, and there the detector is on.       *)
LEMMA LinesMoveAtBoundary ==
  ASSUME TypeOK, BoundaryInv, DeafInv,
         \/ ReleaseIrq \/ ReleaseNmi
         \/ \E line \in Lines : \E n \in Counts : AssertFor(line, n)
  PROVE  /\ "sampling_off" \notin interrupts
         /\ UNCHANGED vars \/ (\E line \in Lines : \E level \in BOOLEAN : SetLine(line, level))
<1>1. phase \notin {"reset", "trail"}
  BY DEF ReleaseIrq, ReleaseNmi, Release, AssertFor
<1>2. AtBoundary
  BY <1>1 DEF BoundaryInv, Between, Approaching
<1>3. \A n \in Counts : (n > 0) \in BOOLEAN
  OBVIOUS
<1>4. UNCHANGED vars \/ (\E line \in Lines : \E level \in BOOLEAN : SetLine(line, level))
  BY <1>3 DEF ReleaseIrq, ReleaseNmi, Release, AssertFor, Lines
<1>. QED
  BY <1>2, <1>4 DEF DeafInv

LEMMA SetLineKeepsDeafInv ==
  ASSUME DeafInv, NEW line \in Lines, NEW level \in BOOLEAN, SetLine(line, level)
  PROVE  DeafInv' /\ LineChange
<1>1. /\ "sampling_off" \in interrupts' => "sampling_off" \in interrupts
      /\ UNCHANGED <<microcode, tick>>
      /\ LineChange
  BY DEF SetLine, NmiAssert, IrqAssert, execution, LineChange
<1>. QED
  BY <1>1 DEF DeafInv, AtBoundary

LEMMA PatientStep ==
  ASSUME TypeOK, BoundaryInv, DeafInv, [PromiseNext]_promiseVars
  PROVE  DeafInv' /\ [PatientNext]_vars
<1>1. CASE UNCHANGED vars
  BY <1>1 DEF vars, DeafInv, AtBoundary
<1>2. CASE Tick
  BY <1>2, TickKeepsDeafInv DEF PatientNext
<1>3. CASE Restart
  BY <1>3 DEF Restart, DeafInv, PatientNext
<1>4. CASE \/ ReleaseIrq \/ ReleaseNmi
           \/ \E line \in Lines : \E n \in Counts : AssertFor(line, n)
  <2>1. CASE UNCHANGED vars
    BY <1>1, <2>1
  <2>2. CASE ~UNCHANGED vars
    <3>1. "sampling_off" \notin interrupts
      BY <1>4, LinesMoveAtBoundary
    <3>2. PICK line \in Lines, level \in BOOLEAN : SetLine(line, level)
      BY <1>4, <2>2, LinesMoveAtBoundary
    <3>3. DeafInv' /\ LineChange
      BY <3>2, SetLineKeepsDeafInv
    <3>4. ~ReleasesNmiWhileDeaf
      BY <3>1 DEF ReleasesNmiWhileDeaf
    <3>. QED
      BY <3>3, <3>4 DEF PatientNext
  <2>. QED
    BY <2>1, <2>2
<1>5. Reset => Restart
  BY DEF Reset
<1>6. Passing \/ Complete => Tick \/ UNCHANGED vars
  BY DEF Passing, ResetCycle, ResetReturns, StepInstruction, LoopCycle, Execute, Complete
<1>7. UNCHANGED promiseVars => UNCHANGED vars
  BY DEF promiseVars, vars
<1>. QED
  BY <1>1, <1>2, <1>3, <1>4, <1>5, <1>6, <1>7, PromiseStepIsAdapterStep

LEMMA DeafInvHolds == PromiseSpec => []DeafInv
<1>1. PromiseInit => DeafInv
  BY DEF PromiseInit, AdapterInit, Init, DeafInv
<1>. QED
  BY <1>1, PatientStep, BoundaryInvHolds, CoreRuns, TypeCorrect, PTL DEF PromiseSpec

(* The adapter never releases NMI while the edge detector is off, so that  *)
(* the case in which the NMOS core loses an edge does not arise.           *)
THEOREM AdapterPatience == PromiseSpec => AdapterIsPatient
BY PatientStep, DeafInvHolds, BoundaryInvHolds, CoreRuns, TypeCorrect, PTL
DEF PromiseSpec, AdapterIsPatient

(* So below the adapter every model of the core is one that looks at both  *)
(* lines in every cycle.                                                   *)
THEOREM AdapterRunsPolledCore == PromiseSpec => ImplementsPolledCore
<1>1. PromiseInit => Init
  BY DEF PromiseInit, AdapterInit
<1>2. PromiseSpec => PatientSpec
  BY <1>1, AdapterPatience, PTL DEF PromiseSpec, PatientSpec, AdapterIsPatient
<1>. QED
  BY <1>2, PatientRefinement

-----------------------------------------------------------------------------
(* From here on: which call an interrupt is entered after.                 *)

(* Driven by the adapter, the resolver is hooked in whenever it has to be. *)
LEMMA AdapterKeepsHook == PromiseSpec => []RefinementInv
<1>1. PromiseInit => Init
  BY DEF PromiseInit, AdapterInit
<1>2. PromiseSpec => PatientSpec
  BY <1>1, AdapterPatience, PTL DEF PromiseSpec, PatientSpec, AdapterIsPatient
<1>3. Init => RefinementInv
  BY DEF Init, RefinementInv, PendingHijacks, NoStaleSampling, NmiLevelKnown, Pending,
         TakenBits
<1>4. RefinementInv /\ [PatientNext]_vars => RefinementInv'
  BY RefinementInvInductive
<1>. QED
  BY <1>2, <1>3, <1>4, PTL DEF PatientSpec

LEMMA TickRuns ==
  ASSUME TypeOK, RefinementInv, Tick
  PROVE  \E e \in Entries(microcode) : \E choice \in Choices(OpAt(e.at)) :
           CycleOf(e, choice) /\ e.at \in Nat /\ e.at \in Cursors /\ Running(e.at)
<1>1. microcode \in Nat
  BY DEF TypeOK, ExecutionTypeOK
<1>2. PICK e \in Entries(microcode) : \E choice \in Choices(OpAt(e.at)) : CycleOf(e, choice)
  BY TickIsCycle DEF Tick
<1>. QED
  BY <1>1, <1>2, EntriesRun

(* Of the word, CycleOf does not mention the bit that asks for a poll.     *)
LEMMA WordBits ==
  \A bit : bit # "sampling" =>
    /\ bit \in Word <=> bit \in interrupts
    /\ bit \in Word' <=> bit \in interrupts'
BY DEF Word

(* Outside the reset the core asks for an opcode and is then at a dispatch, *)
(* or before an interrupt sequence; jammed, it stays where it is.          *)
FetchStart ==
  phase # "reset" =>
    /\ SlotOf(microcode) \notin ResetSlots
    /\ tick = "jammed" => OpAt(microcode) = "kil_jam"
    /\ tick = "fetch" =>
         OpAt(microcode) = "dispatch" \/ microcode \in {Index(SlotNmi, 0), Index(SlotIrq, 0)}

LEMMA EntriesOutsideReset ==
  ASSUME SlotOf(microcode) \notin ResetSlots, NEW e \in Entries(microcode)
  PROVE  SlotOf(e.at) \notin ResetSlots
<1>1. CASE OpAt(microcode) = "dispatch"
  <2>1. PICK opcode \in OpcodeSlots : e.at = Index(opcode, 0)
    BY <1>1, OpcodesAssumption DEF Entries
  <2>2. SlotOf(e.at) = opcode
    BY <2>1, SlotStarts DEF OpcodeSlots
  <2>. QED
    BY <2>2 DEF OpcodeSlots, ResetSlots, SlotInternalReset, SlotReset0
<1>2. CASE OpAt(microcode) # "dispatch"
  BY <1>2 DEF Entries
<1>. QED
  BY <1>1, <1>2

LEMMA TickKeepsFetchStart ==
  ASSUME TypeOK, RefinementInv, Tick, phase # "reset", FetchStart
  PROVE  FetchStart'
<1>1. PICK e \in Entries(microcode) : \E choice \in Choices(OpAt(e.at)) :
        CycleOf(e, choice) /\ e.at \in Nat /\ e.at \in Cursors /\ Running(e.at)
  BY TickRuns
<1>2. PICK choice \in Choices(OpAt(e.at)) : CycleOf(e, choice)
  BY <1>1
<1>3. SlotOf(e.at) \notin ResetSlots
  BY EntriesOutsideReset DEF FetchStart
<1>4. ASSUME NEW slot \in {SlotNmi, SlotIrq}, Entering(e, choice, slot) PROVE FetchStart'
  <2>1. slot \in Nat /\ slot \notin ResetSlots
    BY DEF SlotNmi, SlotIrq, ResetSlots, SlotInternalReset, SlotReset0
  <2>2. microcode' = Index(slot, 0) /\ SlotOf(microcode') = slot
    BY <1>4, <2>1, SlotStarts DEF Entering
  <2>3. tick' = "fetch"
    BY <1>4 DEF Entering
  <2>. QED
    BY <2>1, <2>2, <2>3 DEF FetchStart
<1>5. CASE Polling(e, choice) \/ GoingOn(e, choice)
  <2>1. microcode' \in Successors(e.at, P, choice) /\ P \in SUBSET Flags
    BY <1>5, NextOfContinue DEF TypeOK, ExecutionTypeOK
  <2>2. /\ tick' = "fetch" => OpAt(microcode') = "dispatch"
        /\ SlotOf(microcode') \notin ResetSlots
    BY <1>1, <1>2, <1>3, <2>1, FetchesByHandler, FetchThenDispatchAssumption
    DEF FetchThenDispatch, ResetSlots
  <2>3. ASSUME tick' = "jammed" PROVE OpAt(microcode') = "kil_jam"
    <3>1. OpAt(e.at) = "kil_jam"
      BY <1>2, <2>3 DEF CycleOf, Handler, Request
    <3>2. PICK winner, count : microcode' = NextMicrocode(e.at, P, choice, winner, count)
      BY <2>1 DEF Successors
    <3>3. microcode' = e.at
      BY <3>1, <3>2 DEF NextMicrocode, LoopsHere
    <3>. QED
      BY <3>1, <3>3
  <2>. QED
    BY <2>2, <2>3 DEF FetchStart
<1>. QED
  BY <1>2, <1>4, <1>5 DEF CycleOf

(* And an interrupt that has been won waits for the next fetch only.       *)
CallStart == FetchStart /\ WonIsAwaited

LEMMA TickKeepsCallStart ==
  ASSUME TypeOK, RefinementInv, Tick, phase # "reset", CallStart
  PROVE  CallStart'
<1>1. PICK e \in Entries(microcode) : \E choice \in Choices(OpAt(e.at)) :
        CycleOf(e, choice) /\ e.at \in Nat /\ e.at \in Cursors /\ Running(e.at)
  BY TickRuns
<1>2. PICK choice \in Choices(OpAt(e.at)) : CycleOf(e, choice)
  BY <1>1
<1>3. interrupts \cap TakenBits # {} => Awaited(OpAt(e.at), P)
  <2>1. Awaited(OpAt(microcode), P) => e.at = microcode
    BY DEF Awaited, Entries
  <2>. QED
    BY <2>1 DEF CallStart, WonIsAwaited
<1>. QED
  BY <1>1, <1>2, <1>3, WonAfterTick, TickKeepsFetchStart DEF CallStart

(* The steps that do not run a cycle.                                      *)
LEMMA OthersKeepCallStart ==
  ASSUME TypeOK, BoundaryInv, CallStart, phase # "reset",
         \/ StepInstruction \/ Complete \/ ReleaseIrq \/ ReleaseNmi
         \/ \E line \in Lines : \E n \in Counts : AssertFor(line, n)
  PROVE  CallStart'
<1>1. UNCHANGED <<microcode, tick>> /\ phase # "reset"
  BY CallsKeepBoundary
<1>2. \A line \in Lines, level \in BOOLEAN : SetLine(line, level) =>
        interrupts' \cap TakenBits = interrupts \cap TakenBits /\ P' = P
  BY DEF SetLine, NmiAssert, IrqAssert, execution, TakenBits
<1>3. \A n \in Counts : (n > 0) \in BOOLEAN
  OBVIOUS
<1>4. interrupts' \cap TakenBits = interrupts \cap TakenBits /\ P' = P
  BY <1>2, <1>3 DEF StepInstruction, Complete, ReleaseIrq, ReleaseNmi, Release, AssertFor, vars,
     Lines
<1>. QED
  BY <1>1, <1>4 DEF CallStart, FetchStart, WonIsAwaited

LEMMA CallStartInductive ==
  ASSUME ~ShamFetchAtStart, TypeOK, RefinementInv, BoundaryInv, BoundaryInv', CallStart,
         [PromiseNext]_promiseVars
  PROVE  CallStart'
<1>1. CASE phase' = "reset"
  <2>1. interrupts' = {}
    BY <1>1 DEF BoundaryInv, ResettingInv
  <2>. QED
    BY <1>1, <2>1 DEF CallStart, FetchStart, WonIsAwaited
<1>2. CASE ResetReturns
  <2>1. /\ microcode' = Index(SlotReset1, 1) /\ interrupts' = {}
    BY <1>2, ResetReturnsAtBoundary
    DEF ResetReturns, BoundaryInv, ResettingInv, vars
  <2>2. SlotOf(microcode') = SlotReset1 /\ OpAt(microcode') = "dispatch"
    BY <2>1, FetchThenDispatchAssumption
    DEF FetchThenDispatch, SlotOf, Index, SlotReset1, MicrocodePerSlot
  <2>3. tick' # "jammed"
    BY <1>2 DEF ResetReturns, BoundaryInv, ResettingInv, Waiting, Starting, vars
  <2>. QED
    BY <2>1, <2>2, <2>3
    DEF CallStart, FetchStart, WonIsAwaited, ResetSlots, SlotInternalReset, SlotReset0, SlotReset1
<1>3. CASE LoopCycle \/ Execute
  BY <1>3, TickKeepsCallStart DEF LoopCycle, Execute
<1>4. CASE phase # "reset" /\
        ( \/ StepInstruction \/ Complete \/ ReleaseIrq \/ ReleaseNmi
          \/ \E line \in Lines : \E n \in Counts : AssertFor(line, n) )
  BY <1>4, OthersKeepCallStart
<1>5. CASE UNCHANGED promiseVars
  BY <1>5 DEF promiseVars, CallStart, FetchStart, WonIsAwaited
<1>6. Reset \/ ResetCycle => phase' = "reset"
  BY DEF Reset, ResetCycle
<1>7. StepInstruction \/ Complete \/ ReleaseIrq \/ ReleaseNmi
        \/ (\E line \in Lines : \E n \in Counts : AssertFor(line, n)) => phase # "reset"
  BY DEF StepInstruction, Complete, ReleaseIrq, ReleaseNmi, Release, AssertFor
<1>. QED
  BY <1>1, <1>2, <1>3, <1>4, <1>5, <1>6, <1>7, PromiseStepIsAdapterStep DEF Passing

LEMMA CallStartHolds ==
  ASSUME ~ShamFetchAtStart
  PROVE  PromiseSpec => []CallStart
<1>1. PromiseInit => CallStart
  BY DEF PromiseInit, AdapterInit, Init, CallStart, FetchStart, WonIsAwaited
<1>2. TypeOK /\ RefinementInv /\ BoundaryInv /\ BoundaryInv' /\ CallStart
        /\ [PromiseNext]_promiseVars => CallStart'
  BY CallStartInductive
<1>. QED
  BY <1>1, <1>2, AdapterKeepsHook, BoundaryInvHolds, CoreRuns, TypeCorrect, PTL DEF PromiseSpec

(* The first handler of a call.                                            *)
LEMMA CallEntry ==
  ASSUME CallStart, phase # "reset", tick = "fetch", NEW e \in Entries(microcode)
  PROVE  e.at \in FirstCycles
<1>1. CASE OpAt(microcode) = "dispatch"
  BY <1>1, OpcodesAssumption DEF Entries, FirstCycles
<1>2. CASE OpAt(microcode) # "dispatch"
  <2>1. microcode \in {Index(SlotNmi, 0), Index(SlotIrq, 0)}
    BY <1>2 DEF CallStart, FetchStart
  <2>2. e.at = microcode
    BY <1>2 DEF Entries
  <2>. QED
    BY <2>1, <2>2 DEF FirstCycles
<1>. QED
  BY <1>1, <1>2

-----------------------------------------------------------------------------
(* NMI.                                                                    *)

(* The instruction running has an edge of NMI to answer: it is latched, or *)
(* has been won, and there is still a cycle to come that polls.            *)
Owing(at, flags, ints) ==
  /\ ~Unpolled(at)
  /\ SlotOf(at) # SlotNmi
  /\ IF Awaited(OpAt(at), flags) THEN "nmi_taken" \in ints ELSE "nmi_edge" \in ints

(* An edge is latched, outside the sequences that read a vector: the       *)
(* handlers keep it, or give it to the sequence that they go on in.        *)
LEMMA EdgeKept ==
  ASSUME Model \in {"nmos", "nes"}, NEW e, e.at \in Cursors, e.at \in Nat, NEW choice,
         CycleOf(e, choice), GoingOn(e, choice), "nmi_edge" \in Sensed, ~Unpolled(e.at),
         SlotOf(e.at) # SlotNmi
  PROVE  \/ SlotOf(microcode') = SlotNmi
         \/ OpAt(e.at) \notin DeafeningOps /\ "nmi_edge" \in interrupts'
<1> DEFINE op   == OpAt(e.at)
           left == Left(e, choice)
<1>1. Word' = left /\ microcode' = Continue(e, Sensed, choice)
  BY DEF GoingOn
<1>2. op \notin NmiOps /\ op # "cmos_irq_vec_hi"
  BY SequencesApartAssumption DEF SequencesApart, InService
<1>3. CASE op \in DeafeningOps
  <2>1. op \in {"push_status_b", "irq_push_p"}
    BY <1>2, <1>3 DEF DeafeningOps, NmiOps
  <2>2. Winner(FindActiveInterrupt(Sensed, P)) = "nmi"
    BY DEF Winner, FindActiveInterrupt
  <2>3. microcode' = MiddleOf(SlotNmi)
    BY <1>1, <2>1, <2>2 DEF Continue, NextMicrocode, LoopsHere
  <2>. QED
    BY <2>3 DEF MiddleOf, Index, SlotOf, MicrocodePerSlot, SlotNmi
<1>4. CASE op \in WritingOps \ DeafeningOps
  <2>1. op = "cmos_irq_push_p"
    BY <1>2, <1>4 DEF WritingOps, VectorHighOps, Unpolled, DeafCycle, NmiOps, NmiVectorHighOps
  <2>2. left = Sensed \ {"irq_taken"}
    BY <2>1, OtherWritesLeave
  <2>. QED
    BY <1>1, <1>4, <2>2, WordBits
<1>5. CASE op \notin WritingOps
  <2>1. left = Sensed
    BY <1>5, PlainHandlersLeaveAll
  <2>. QED
    BY <1>1, <1>5, <2>1, WordBits DEF WritingOps
<1>. QED
  BY <1>3, <1>4, <1>5

(* A cycle brings an edge nearer to the fetch that its sequence takes.     *)
LEMMA OwingTick ==
  ASSUME Model \in {"nmos", "nes"}, TypeOK,
         NEW e, e.at \in Cursors, e.at \in Nat, Running(e.at),
         SlotOf(e.at) \notin ResetSlots,
         NEW choice \in Choices(OpAt(e.at)), CycleOf(e, choice),
         Owing(e.at, P, Sensed)
  PROVE  \/ SlotOf(microcode') = SlotNmi
         \/ LostToIrq
         \/ tick' # "fetch" /\ Owing(microcode', P', interrupts')
<1> DEFINE op   == OpAt(e.at)
           left == Left(e, choice)
<1>1. P' = FlagsAfter(op, P, choice) /\ P \in SUBSET Flags
  BY DEF CycleOf, Handler, TypeOK, ExecutionTypeOK
<1>2. ASSUME Polling(e, choice) \/ GoingOn(e, choice)
      PROVE  /\ Awaited(OpAt(microcode'), P') => Samples(op, P, choice) \/ Awaited(op, P)
             /\ Unpolled(microcode') => op \in DeafeningOps
             /\ Samples(op, P, choice) \/ (Awaited(op, P) /\ Request(op, P, 0) # "fetch")
                  => Awaited(OpAt(microcode'), P')
  <2>1. microcode' \in Successors(e.at, P, choice)
    BY <1>2, NextOfContinue
  <2>2. ~Unpolled(e.at)
    BY DEF Owing
  <2>3. Awaited(OpAt(microcode'), P') => Samples(op, P, choice) \/ op = "branch_apply"
    BY <1>1, <2>1, PolledJustBeforeAssumption DEF PolledJustBefore
  <2>4. op = "branch_apply" => Awaited(op, P)
    BY DEF Awaited
  <2>. QED
    BY <1>1, <2>1, <2>2, <2>3, <2>4, PolledBeforeFetchAssumption, PollsBeforeFetchAssumption
    DEF PolledBeforeFetch, PollsBeforeFetch, NmosFamily
<1>3. tick' = "fetch" <=> Request(op, P, 0) = "fetch"
  BY FetchesByHandler
<1>4. CASE Polling(e, choice)
  <2>1. Samples(op, P, choice)
    BY <1>4 DEF Polling
  <2>2. tick' # "fetch"
    BY <1>3, <2>1, FetchersLeaveAll
  <2>3. op \notin WritingOps
    BY <2>1 DEF Samples, PrefetchOps, BinaryPrefetchOps, WritingOps, DeafeningOps, VectorHighOps
  <2>4. Word' = FindActiveInterrupt(Sensed, P)
    BY <1>4, <2>3, PlainHandlersLeaveAll DEF Polling
  <2>5. /\ "nmi_taken" \in interrupts' <=> "nmi_taken" \in FindActiveInterrupt(Sensed, P)
        /\ "irq_taken" \in interrupts' <=> "irq_taken" \in FindActiveInterrupt(Sensed, P)
    BY <2>4, WordBits
  <2>6. "nmi_taken" \in interrupts' \/ LostToIrq
    <3>1. "nmi_edge" \in Sensed \/ "nmi_taken" \in Sensed
      BY DEF Owing
    <3>2. "nmi_taken" \in Sensed => "nmi_taken" \in interrupts
      BY SensedWord DEF TakenBits
    <3>. QED
      BY <2>5, <3>1, <3>2 DEF FindActiveInterrupt, LostToIrq
  <2>7. Awaited(OpAt(microcode'), P') /\ ~Unpolled(microcode')
    BY <1>2, <1>4, <2>1, <2>3 DEF WritingOps
  <2>. QED
    BY <2>2, <2>6, <2>7 DEF Owing
<1>5. CASE Awaited(op, P) /\ ~Polling(e, choice)
  <2>1. "nmi_taken" \in Sensed
    BY <1>5 DEF Owing
  <2>2. op \notin WritingOps
    BY <1>5 DEF Awaited, WritingOps, DeafeningOps, VectorHighOps
  <2>3. left = Sensed /\ Winner(left) = "nmi"
    BY <2>1, <2>2, PlainHandlersLeaveAll DEF Winner
  <2>4. CASE Entering(e, choice, SlotNmi)
    BY <2>4, SlotStarts DEF Entering, SlotNmi
  <2>5. CASE GoingOn(e, choice)
    <3>1. "nmi_taken" \in interrupts' /\ tick' # "fetch"
      BY <2>1, <2>3, <2>5, WordBits DEF GoingOn, TakenBits
    <3>2. Awaited(OpAt(microcode'), P') /\ ~Unpolled(microcode')
      BY <1>2, <1>3, <1>5, <2>2, <2>5, <3>1 DEF WritingOps
    <3>. QED
      BY <3>1, <3>2 DEF Owing
  <2>. QED
    BY <1>5, <2>3, <2>4, <2>5 DEF CycleOf
<1>6. CASE ~Awaited(op, P) /\ ~Polling(e, choice)
  <2>1. "nmi_edge" \in Sensed /\ ~Unpolled(e.at) /\ SlotOf(e.at) # SlotNmi
    BY <1>6 DEF Owing
  <2>2. tick' # "fetch"
    <3>1. op # "fake_fetch" /\ op # "vector_fetch"
      BY <2>1, FetchThenDispatchAssumption DEF FetchThenDispatch, ResetSlots, Unpolled
    <3>. QED
      BY <1>3, <1>6, <3>1 DEF Request, FetchOps, Awaited
  <2>3. GoingOn(e, choice)
    BY <1>6, <2>2 DEF CycleOf, Entering
  <2>4. \/ SlotOf(microcode') = SlotNmi
        \/ op \notin DeafeningOps /\ "nmi_edge" \in interrupts'
    BY <2>1, <2>3, EdgeKept
  <2>5. ~Samples(op, P, choice)
    BY <2>3 DEF GoingOn
  <2>. QED
    BY <1>2, <1>6, <2>2, <2>3, <2>4, <2>5 DEF Owing
<1>. QED
  BY <1>4, <1>5, <1>6

(* A cycle in which the edge detector is on sees a released line.          *)
LEMMA TickSeesLow ==
  ASSUME TypeOK, RefinementInv, Tick, "nmi_last" \in interrupts'
  PROVE  \/ "nmi_pin" \in interrupts
         \/ "sampling_off" \in interrupts /\ "nmi_last" \in interrupts
<1>1. PICK e \in Entries(microcode) : \E choice \in Choices(OpAt(e.at)) : CycleOf(e, choice)
  BY TickRuns
<1>2. PICK choice \in Choices(OpAt(e.at)) : CycleOf(e, choice)
  BY <1>1
<1> DEFINE left == Left(e, choice)
<1>3. "nmi_last" \in left
  <2>1. Word' \in {FindActiveInterrupt(left, P), left \ TakenBits, left}
    BY <1>2 DEF CycleOf, Polling, Entering, GoingOn
  <2>2. "nmi_last" \in Word' => "nmi_last" \in left
    BY <2>1 DEF FindActiveInterrupt, TakenBits
  <2>. QED
    BY <2>2, WordBits
<1>4. "nmi_last" \in Sensed \/ "nmi_pin" \in Sensed
  <2>1. CASE OpAt(e.at) \in DeafeningOps
    BY <1>3, <2>1, PushesLeave
  <2>2. CASE OpAt(e.at) \in WritingOps \ DeafeningOps
    BY <1>3, <2>2, OtherWritesLeave DEF WritingOps, VectorHighOps, UpdateNmiLastSampled
  <2>3. CASE OpAt(e.at) \notin WritingOps
    BY <1>3, <2>3, PlainHandlersLeaveAll
  <2>. QED
    BY <2>1, <2>2, <2>3
<1>. QED
  BY <1>4, SensedWord

(* What low_seen says of the edge detector: a line that rises after it has *)
(* been seen released is an edge.                                          *)
LevelSeen ==
  IF phase = "trail"
  THEN /\ low_seen <=> "nmi_pin" \notin interrupts
       /\ "nmi_last" \in interrupts => "nmi_pin" \in interrupts
  ELSE low_seen => "nmi_last" \notin interrupts

LEMMA LevelSeenInductive ==
  ASSUME TypeOK, RefinementInv, BoundaryInv, BoundaryInv', DeafInv, LevelSeen,
         [PromiseNext]_promiseVars
  PROVE  LevelSeen'
<1>1. CASE phase' = "reset"
  BY <1>1 DEF BoundaryInv, ResettingInv, LevelSeen
<1>2. CASE ResetReturns
  BY <1>2 DEF ResetReturns, BoundaryInv, ResettingInv, vars, LevelSeen
<1>3. CASE (LoopCycle \/ Execute) /\ Watch
  <2>1. Tick /\ phase' = "trail"
    BY <1>3 DEF LoopCycle, LoopEnds, Execute, BoundaryInv, Between, Approaching
  <2>2. low_seen' <=> "nmi_pin" \notin interrupts
    BY <1>3, <2>1 DEF Watch
  <2>3. "nmi_pin" \in interrupts' <=> "nmi_pin" \in interrupts
    BY <2>1, TickKeepsPins DEF Pins
  <2>4. "sampling_off" \in interrupts /\ "nmi_last" \in interrupts => "nmi_pin" \in interrupts
    <3>1. CASE phase = "trail"
      BY <3>1 DEF LevelSeen
    <3>2. CASE phase # "trail"
      BY <1>3, <3>2 DEF LoopCycle, Execute, BoundaryInv, Between, Approaching, DeafInv
    <3>. QED
      BY <3>1, <3>2
  <2>5. "nmi_last" \in interrupts' => "nmi_pin" \in interrupts'
    BY <2>1, <2>3, <2>4, TickSeesLow
  <2>. QED
    BY <2>1, <2>2, <2>3, <2>5 DEF LevelSeen
<1>4. CASE StepInstruction /\ Watch
  BY <1>4 DEF StepInstruction, Watch, LevelSeen, vars
<1>5. CASE Complete /\ Watch
  BY <1>5 DEF Complete, Watch, LevelSeen, vars
<1>6. CASE /\ ReleaseIrq \/ ReleaseNmi \/ \E line \in Lines : \E n \in Counts : AssertFor(line, n)
           /\ Watch
  <2>1. phase # "trail" /\ phase' # "trail" /\ spent' = spent
    BY <1>6 DEF ReleaseIrq, ReleaseNmi, Release, AssertFor
  <2>2. \A line \in Lines, level \in BOOLEAN : SetLine(line, level) =>
          ("nmi_last" \in interrupts' <=> "nmi_last" \in interrupts)
    BY DEF SetLine, NmiAssert, IrqAssert
  <2>3. \A n \in Counts : (n > 0) \in BOOLEAN
    OBVIOUS
  <2>4. "nmi_last" \in interrupts' <=> "nmi_last" \in interrupts
    BY <1>6, <2>2, <2>3 DEF ReleaseIrq, ReleaseNmi, Release, AssertFor, vars, Lines
  <2>. QED
    BY <1>6, <2>1, <2>4 DEF Watch, LevelSeen
<1>7. CASE UNCHANGED promiseVars
  BY <1>7 DEF promiseVars, LevelSeen
<1>8. Reset \/ ResetCycle => phase' = "reset"
  BY DEF Reset, ResetCycle
<1>. QED
  BY <1>1, <1>2, <1>3, <1>4, <1>5, <1>6, <1>7, <1>8 DEF PromiseNext

LEMMA LevelSeenHolds == PromiseSpec => []LevelSeen
<1>1. PromiseInit => LevelSeen
  BY DEF PromiseInit, AdapterInit, Init, LevelSeen
<1>2. TypeOK /\ RefinementInv /\ BoundaryInv /\ BoundaryInv' /\ DeafInv /\ LevelSeen
        /\ [PromiseNext]_promiseVars => LevelSeen'
  BY LevelSeenInductive
<1>. QED
  BY <1>1, <1>2, AdapterKeepsHook, BoundaryInvHolds, DeafInvHolds, CoreRuns, TypeCorrect, PTL
  DEF PromiseSpec

(* Until an NMI that has risen is entered no call finishes: between calls  *)
(* the edge has still to be seen, and within one it is owed.               *)
UnservedInv ==
  unserved # NotRaised =>
    /\ unserved = 0
    /\ IF phase = "trail"
       THEN ~AtBoundary /\ Owing(microcode, P, interrupts)
       ELSE /\ phase \in {"idle", "lead"}
            /\ tick = "fetch"
            /\ SlotOf(microcode) # SlotNmi
            /\ "nmi_pin" \in interrupts /\ "nmi_last" \notin interrupts

(* The first cycle of a call sees the edge.                                *)
LEMMA EdgeSeen ==
  ASSUME Model \in {"nmos", "nes"}, TypeOK, CallStart, DeafInv, phase = "lead", tick = "fetch",
         "nmi_pin" \in interrupts, "nmi_last" \notin interrupts, SlotOf(microcode) # SlotNmi,
         NEW e \in Entries(microcode)
  PROVE  Owing(e.at, P, Sensed)
<1>1. e.at \in FirstCycles
  BY CallEntry
<1>2. P \in SUBSET Flags
  BY DEF TypeOK, ExecutionTypeOK
<1>3. ~Unpolled(e.at) /\ ~Awaited(OpAt(e.at), P)
  BY <1>1, <1>2, PolledBeforeFetchAssumption DEF PolledBeforeFetch, NmosFamily
<1>4. "nmi_edge" \in Sensed
  BY SensedWord DEF DeafInv, AtBoundary
<1>5. SlotOf(e.at) # SlotNmi
  <2>1. CASE OpAt(microcode) = "dispatch"
    <3>1. PICK opcode \in OpcodeSlots : e.at = Index(opcode, 0)
      BY <2>1, OpcodesAssumption DEF Entries
    <3>2. SlotOf(e.at) = opcode
      BY <3>1, SlotStarts DEF OpcodeSlots
    <3>. QED
      BY <3>2 DEF OpcodeSlots, SlotNmi
  <2>2. CASE OpAt(microcode) # "dispatch"
    BY <2>2 DEF Entries
  <2>. QED
    BY <2>1, <2>2
<1>. QED
  BY <1>3, <1>4, <1>5 DEF Owing

(* A cycle of a call does not lose it.                                     *)
LEMMA CallTickServes ==
  ASSUME Model \in {"nmos", "nes"}, TypeOK, RefinementInv, BoundaryInv, DeafInv, CallStart,
         UnservedInv, unserved # NotRaised, LoopCycle \/ Execute
  PROVE  \/ SlotOf(microcode') = SlotNmi
         \/ LostToIrq
         \/ tick' # "fetch" /\ Owing(microcode', P', interrupts')
<1>1. phase # "reset" /\ Tick
  BY DEF LoopCycle, Execute
<1>2. PICK e \in Entries(microcode) : \E choice \in Choices(OpAt(e.at)) :
        CycleOf(e, choice) /\ e.at \in Nat /\ e.at \in Cursors /\ Running(e.at)
  BY <1>1, TickRuns
<1>3. PICK choice \in Choices(OpAt(e.at)) : CycleOf(e, choice)
  BY <1>2
<1>4. SlotOf(e.at) \notin ResetSlots
  BY <1>1, EntriesOutsideReset DEF CallStart, FetchStart
<1>5. Owing(e.at, P, Sensed)
  <2>1. CASE phase = "trail"
    <3>1. Owing(microcode, P, interrupts) /\ ~AtBoundary
      BY <2>1 DEF UnservedInv
    <3>2. e.at = microcode
      BY <1>1, <3>1 DEF BoundaryInv, Between, Approaching, Running, Entries
    <3>. QED
      BY <3>1, <3>2, SensedWord DEF Owing, TakenBits
  <2>2. CASE phase # "trail"
    BY <2>2, EdgeSeen DEF UnservedInv, LoopCycle, Execute
  <2>. QED
    BY <2>1, <2>2
<1>. QED
  BY <1>2, <1>3, <1>4, <1>5, OwingTick

(* When the observer goes on waiting, nothing has served or withdrawn the  *)
(* edge in this step.                                                      *)
LEMMA StillWaiting ==
  ASSUME Watch, unserved' # NotRaised
  PROVE  /\ ~Falls /\ SlotOf(microcode') # SlotNmi /\ ~LostToIrq /\ tick' # "jammed"
         /\ \/ Rises /\ unserved' = 0
            \/ /\ ~Rises /\ unserved # NotRaised
               /\ unserved' = unserved + (instruction_count' - instruction_count)
BY DEF Watch

LEMMA UnservedInductive ==
  ASSUME Model \in {"nmos", "nes"}, TypeOK, ScheduleInv, RefinementInv, BoundaryInv,
         BoundaryInv', DeafInv, CallStart, LevelSeen, UnservedInv, [PromiseNext]_promiseVars
  PROVE  UnservedInv'
<1>. SUFFICES ASSUME unserved' # NotRaised, Watch PROVE UnservedInv'
  <2>1. UNCHANGED promiseVars => UnservedInv'
    BY DEF promiseVars, UnservedInv, AtBoundary
  <2>. QED
    BY <2>1 DEF PromiseNext, UnservedInv
<1>1. instruction_count \in Nat
  BY DEF ScheduleInv, ScheduleTypeOK
<1>2. UNCHANGED vars => ~Rises
  BY DEF vars, Rises
<1>3. CASE Reset
  <2>1. Falls
    BY <1>3 DEF Reset, Restart, Falls
  <2>. QED
    BY <2>1, StillWaiting
<1>4. CASE ResetCycle \/ ResetReturns
  <2>1. "nmi_pin" \notin interrupts' /\ unserved = NotRaised
    BY <1>4 DEF ResetCycle, ResetReturns, BoundaryInv, ResettingInv, vars, UnservedInv
  <2>. QED
    BY <2>1, StillWaiting DEF Rises
<1>5. CASE StepInstruction
  <2>1. unserved # NotRaised /\ unserved' = unserved + (instruction_count - instruction_count)
    BY <1>2, <1>5, StillWaiting DEF StepInstruction
  <2>2. unserved = 0 /\ unserved' = 0
    BY <1>1, <2>1 DEF UnservedInv
  <2>. QED
    BY <1>5, <2>1, <2>2 DEF StepInstruction, UnservedInv, vars
<1>6. CASE LoopCycle \/ Execute
  <2>1. Tick /\ phase' = "trail" /\ instruction_count' = instruction_count
    BY <1>6 DEF LoopCycle, LoopEnds, Execute, BoundaryInv, Between, Approaching
  <2>2. ~Rises
    BY <2>1, TickKeepsPins DEF Rises, Pins
  <2>3. unserved # NotRaised /\ unserved' = unserved + (instruction_count - instruction_count)
    BY <2>1, <2>2, StillWaiting
  <2>4. unserved' = 0
    BY <1>1, <2>3 DEF UnservedInv
  <2>5. tick' \notin {"fetch", "jammed"} /\ Owing(microcode', P', interrupts')
    BY <1>6, <2>3, CallTickServes, StillWaiting
  <2>. QED
    BY <2>1, <2>4, <2>5 DEF UnservedInv, AtBoundary
<1>7. CASE Complete
  <2>1. AtBoundary /\ phase = "trail"
    <3>1. phase' = "release_irq" /\ phase = "trail" /\ tick' = tick
      BY <1>7 DEF Complete, vars
    <3>2. AtBoundary'
      BY <3>1 DEF BoundaryInv, Between, Approaching
    <3>. QED
      BY <3>1, <3>2 DEF AtBoundary
  <2>2. ~Rises
    BY <1>2, <1>7 DEF Complete
  <2>. QED
    BY <2>1, <2>2, StillWaiting DEF UnservedInv
<1>8. CASE ReleaseIrq \/ ReleaseNmi
  <2>1. unserved = NotRaised
    BY <1>8 DEF ReleaseIrq, ReleaseNmi, Release, UnservedInv
  <2>2. \A line \in Lines : SetLine(line, FALSE) => ~Rises
    BY DEF SetLine, NmiAssert, IrqAssert, Rises
  <2>3. ~Rises
    BY <1>2, <1>8, <2>2 DEF ReleaseIrq, ReleaseNmi, Release, Lines
  <2>. QED
    BY <2>1, <2>3, StillWaiting
<1>9. ASSUME NEW line \in Lines, NEW n \in Counts, AssertFor(line, n)
      PROVE  UnservedInv'
  <2>1. /\ phase = "idle" /\ phase' = "idle" /\ instruction_count' = instruction_count
        /\ SetLine(line, n > 0) /\ (n > 0) \in BOOLEAN
    BY <1>9 DEF AssertFor
  <2>2. /\ UNCHANGED <<microcode, tick>>
        /\ "nmi_last" \in interrupts' <=> "nmi_last" \in interrupts
    BY <2>1 DEF SetLine, NmiAssert, IrqAssert, execution
  <2>3. "nmi_pin" \in interrupts'
    BY <2>1, StillWaiting DEF Falls
  <2>4. unserved' = 0
    <3>1. CASE Rises
      BY <3>1, StillWaiting
    <3>2. CASE ~Rises
      <4>1. unserved = 0 /\ unserved' = unserved + (instruction_count - instruction_count)
        BY <2>1, <3>2, StillWaiting DEF UnservedInv
      <4>. QED
        BY <1>1, <4>1
    <3>. QED
      BY <3>1, <3>2
  <2>5. tick' = "fetch"
    BY <2>1, <2>2, StillWaiting DEF BoundaryInv, Between, Approaching, AtBoundary
  <2>6. "nmi_last" \notin interrupts
    <3>1. CASE Rises
      BY <2>1, <3>1 DEF Rises, LevelSeen
    <3>2. CASE ~Rises
      BY <2>1, <3>2, StillWaiting DEF UnservedInv
    <3>. QED
      BY <3>1, <3>2
  <2>. QED
    BY <2>1, <2>2, <2>3, <2>4, <2>5, <2>6, StillWaiting DEF UnservedInv
<1>10. CASE UNCHANGED promiseVars
  BY <1>10 DEF promiseVars, UnservedInv, AtBoundary
<1>. QED
  BY <1>3, <1>4, <1>5, <1>6, <1>7, <1>8, <1>9, <1>10, PromiseStepIsAdapterStep DEF Passing

(* On NMOS an NMI that rises between two calls is entered by the end of    *)
(* the next one, whatever instruction, interrupt sequence or branch that   *)
(* call runs, and whatever the IRQ line and the releases of either line do *)
(* meanwhile; unless the core jams, or an IRQ takes the second poll of a   *)
(* branch.                                                                 *)
THEOREM NmiServed ==
  ASSUME Model \in {"nmos", "nes"}, ~ShamFetchAtStart
  PROVE  PromiseSpec => []NmiServedByNextCall
<1>1. PromiseInit => UnservedInv
  BY DEF PromiseInit, UnservedInv
<1>2. TypeOK /\ ScheduleInv /\ RefinementInv /\ BoundaryInv /\ BoundaryInv' /\ DeafInv
        /\ CallStart /\ LevelSeen /\ UnservedInv /\ [PromiseNext]_promiseVars => UnservedInv'
  BY UnservedInductive
<1>3. UnservedInv => NmiServedByNextCall
  BY DEF UnservedInv, NmiServedByNextCall, NotRaised
<1>. QED
  BY <1>1, <1>2, <1>3, ScheduleInvHolds, AdapterKeepsHook, BoundaryInvHolds, DeafInvHolds,
     CallStartHolds, LevelSeenHolds, CoreRuns, TypeCorrect, PTL DEF PromiseSpec

-----------------------------------------------------------------------------
(* IRQ.                                                                    *)

(* With IRQ asserted, an instruction that leaves I clear has polled by the *)
(* time it fetches, and one that has set I does not clear it again.        *)
IrqPending(at, flags, ints) ==
  IF "I" \in flags
  THEN ~MayClear(at)
  ELSE /\ OpAt(at) # "vector_fetch"
       /\ Awaited(OpAt(at), flags) => ints \cap TakenBits # {}

LEMMA CursorParts ==
  ASSUME NEW at \in Nat
  PROVE  at % 8 \in 0 .. 7 /\ Index(SlotOf(at), at % 8) = at
BY DEF Index, SlotOf, MicrocodePerSlot

LEMMA IrqPendingTick ==
  ASSUME Model \in {"nmos", "nes"}, TypeOK,
         NEW e, e.at \in Cursors, e.at \in Nat, Running(e.at), SlotOf(e.at) \notin ResetSlots,
         NEW choice \in Choices(OpAt(e.at)), CycleOf(e, choice),
         "irq_pin" \in interrupts, IrqPending(e.at, P, Sensed)
  PROVE  IF tick' = "fetch"
         THEN "I" \in P' \/ microcode' \in {Index(SlotIrq, 0), Index(SlotNmi, 0)}
         ELSE IrqPending(microcode', P', interrupts')
<1> DEFINE op   == OpAt(e.at)
           left == Left(e, choice)
<1>1. P' = FlagsAfter(op, P, choice) /\ P \in SUBSET Flags
  BY DEF CycleOf, Handler, TypeOK, ExecutionTypeOK
<1>2. CASE Entering(e, choice, SlotNmi) \/ Entering(e, choice, SlotIrq)
  BY <1>2 DEF Entering
<1>3. CASE Polling(e, choice) \/ GoingOn(e, choice)
  <2>1. microcode' \in Successors(e.at, P, choice)
    BY <1>3, NextOfContinue
  <2>2. /\ MayClear(microcode') => MayClear(e.at)
        /\ "I" \in P' \ P => ~MayClear(microcode')
        /\ OpAt(microcode') = "vector_fetch" => "I" \in P'
    BY <1>1, <2>1, FlagBeforeFetchAssumption DEF FlagBeforeFetch, NmosFamily
  <2>3. CASE "I" \in P
    <3>1. ~MayClear(e.at)
      BY <2>3 DEF IrqPending
    <3>2. op \notin ClearingOps
      <4>1. e.at % 8 \in 0 .. 7 /\ Index(SlotOf(e.at), e.at % 8) = e.at
        BY CursorParts
      <4>2. 0 .. MicrocodePerSlot - 1 = 0 .. 7 /\ e.at % MicrocodePerSlot <= e.at % 8
        BY <4>1 DEF MicrocodePerSlot
      <4>. QED
        BY <3>1, <4>1, <4>2 DEF MayClear
    <3>3. "I" \in P'
      BY <1>1, <2>3, <3>2 DEF FlagsAfter, ClearingOps
    <3>. QED
      BY <2>2, <3>1, <3>3 DEF IrqPending
  <2>4. CASE "I" \notin P /\ "I" \in P'
    BY <2>2, <2>4 DEF IrqPending
  <2>5. CASE "I" \notin P /\ "I" \notin P'
    <3>1. tick' # "fetch"
      <4>. SUFFICES ASSUME tick' = "fetch" PROVE FALSE
        OBVIOUS
      <4>1. Request(op, P, 0) = "fetch"
        BY FetchesByHandler
      <4>2. ~Samples(op, P, choice) /\ left = Sensed
        BY <4>1, FetchersLeaveAll
      <4>3. left \cap TakenBits = {}
        BY <1>3, <4>2 DEF Polling, GoingOn
      <4>4. ~Awaited(op, P) /\ op # "vector_fetch"
        BY <2>5, <4>2, <4>3 DEF IrqPending
      <4>5. op # "fake_fetch"
        BY FetchThenDispatchAssumption DEF FetchThenDispatch, ResetSlots
      <4>. QED
        BY <4>1, <4>4, <4>5 DEF Request, FetchOps, Awaited
    <3>2. ASSUME Awaited(OpAt(microcode'), P') PROVE interrupts' \cap TakenBits # {}
      <4>1. Samples(op, P, choice) \/ op = "branch_apply"
        BY <1>1, <2>1, <3>2, PolledJustBeforeAssumption DEF PolledJustBefore
      <4>2. op \notin WritingOps
        BY <4>1 DEF Awaited, Samples, PrefetchOps, BinaryPrefetchOps, WritingOps, DeafeningOps,
           VectorHighOps
      <4>3. left = Sensed
        BY <4>2, PlainHandlersLeaveAll
      <4>4. interrupts' \cap TakenBits = Word' \cap TakenBits
        BY DEF Word, TakenBits
      <4>5. CASE Polling(e, choice)
        <5>1. Word' = FindActiveInterrupt(Sensed, P) /\ "irq_pin" \in Sensed
          BY <4>3, <4>5, SensedWord DEF Polling
        <5>. QED
          BY <2>5, <4>4, <5>1 DEF FindActiveInterrupt, TakenBits
      <4>6. CASE GoingOn(e, choice)
        BY <2>5, <4>1, <4>3, <4>4, <4>6 DEF GoingOn, IrqPending, Awaited
      <4>. QED
        BY <1>3, <4>5, <4>6
    <3>. QED
      BY <2>2, <2>5, <3>1, <3>2 DEF IrqPending
  <2>. QED
    BY <2>3, <2>4, <2>5
<1>. QED
  BY <1>2, <1>3 DEF CycleOf

(* Where an IRQ that takes a fetch comes from, and what becomes of I.      *)
LEMMA IrqTick ==
  ASSUME Model \in {"nmos", "nes"}, TypeOK,
         NEW e, e.at \in Cursors, Running(e.at), SlotOf(e.at) \notin ResetSlots,
         NEW choice \in Choices(OpAt(e.at)), CycleOf(e, choice)
  PROVE  /\ "irq_taken" \in interrupts' =>
              \/ "irq_taken" \in interrupts
              \/ "irq_pin" \in interrupts /\ "I" \notin P /\ OpAt(e.at) \notin FetchOps
         /\ tick' = "fetch" /\ microcode' = Index(SlotIrq, 0) => "irq_taken" \in interrupts
         /\ "I" \in P \/ OpAt(e.at) \in FetchOps =>
              \/ tick' = "fetch" \/ "I" \in P'
              \/ SlotOf(microcode') = SlotRti \/ OpAt(microcode') \in FetchOps
         /\ tick' # "fetch" /\ SlotOf(microcode') = SlotRti => SlotOf(e.at) = SlotRti
<1> DEFINE op   == OpAt(e.at)
           left == Left(e, choice)
<1>1. P' = FlagsAfter(op, P, choice) /\ P \in SUBSET Flags
  BY DEF CycleOf, Handler, TypeOK, ExecutionTypeOK
<1>2. op \in FetchOps => tick' = "fetch" /\ ~Samples(op, P, choice)
  <2>1. op \in FetchOps => Request(op, P, 0) = "fetch"
    BY DEF Request, FetchOps
  <2>. QED
    BY <2>1, FetchesByHandler, FetchersLeaveAll
<1>3. tick' = "fetch" => left = Sensed
  BY FetchesByHandler, FetchersLeaveAll
<1>4. "irq_taken" \in Sensed <=> "irq_taken" \in interrupts
  BY SensedWord DEF TakenBits
<1>5. "irq_taken" \in left => "irq_taken" \in Sensed
  <2>1. CASE op \in DeafeningOps
    BY <2>1, PushesLeave DEF TakenBits
  <2>2. CASE op \in WritingOps \ DeafeningOps
    BY <2>2, OtherWritesLeave DEF WritingOps, VectorHighOps, UpdateNmiLastSampled
  <2>3. CASE op \notin WritingOps
    BY <2>3, PlainHandlersLeaveAll
  <2>. QED
    BY <2>1, <2>2, <2>3
<1>6. ASSUME "irq_taken" \in interrupts', "irq_taken" \notin interrupts
      PROVE  "irq_pin" \in interrupts /\ "I" \notin P /\ op \notin FetchOps
  <2>1. "irq_taken" \in Word' /\ "irq_taken" \notin left
    BY <1>4, <1>5, <1>6, WordBits
  <2>2. Polling(e, choice)
    BY <2>1 DEF CycleOf, Entering, GoingOn
  <2>3. "irq_pin" \in left /\ "I" \notin P
    BY <2>1, <2>2 DEF Polling, FindActiveInterrupt
  <2>4. op \notin WritingOps
    BY <2>2
    DEF Polling, Samples, PrefetchOps, BinaryPrefetchOps, WritingOps, DeafeningOps, VectorHighOps
  <2>5. "irq_pin" \in interrupts
    BY <2>3, <2>4, PlainHandlersLeaveAll, SensedWord
  <2>. QED
    BY <1>2, <2>2, <2>3, <2>5 DEF Polling
<1>7. ASSUME tick' = "fetch", microcode' = Index(SlotIrq, 0) PROVE "irq_taken" \in interrupts
  <2>1. CASE Polling(e, choice) \/ GoingOn(e, choice)
    <3>1. microcode' \in Successors(e.at, P, choice) /\ Request(op, P, 0) = "fetch"
      BY <1>7, <2>1, NextOfContinue, FetchesByHandler
    <3>2. OpAt(microcode') = "dispatch"
      BY <1>1, <3>1, FetchThenDispatchAssumption DEF FetchThenDispatch, ResetSlots
    <3>. QED
      BY <1>7, <3>2, ClosedAssumption DEF Closed, Running
  <2>2. CASE Winner(left) = "irq"
    BY <1>3, <1>4, <1>7, <2>2 DEF Winner
  <2>3. CASE Entering(e, choice, SlotNmi)
    BY <1>7, <2>3 DEF Entering, Index, MicrocodePerSlot, SlotNmi, SlotIrq
  <2>. QED
    BY <2>1, <2>2, <2>3 DEF CycleOf
<1>8. ASSUME tick' # "fetch"
      PROVE  /\ "I" \in P \ P' => SlotOf(microcode') = SlotRti \/ OpAt(microcode') \in FetchOps
             /\ SlotOf(microcode') = SlotRti => SlotOf(e.at) = SlotRti
  <2>1. Polling(e, choice) \/ GoingOn(e, choice)
    BY <1>8 DEF CycleOf, Entering
  <2>2. microcode' \in Successors(e.at, P, choice)
    BY <2>1, NextOfContinue
  <2>3. Request(op, P, 0) # "fetch"
    BY <1>8, FetchesByHandler
  <2>. QED
    BY <1>1, <2>2, <2>3, FlagBeforeFetchAssumption DEF FlagBeforeFetch, NmosFamily
<1>. QED
  BY <1>2, <1>6, <1>7, <1>8

(* What the fetch at the end of a call may have become.                    *)
Follows ==
  tick = "fetch" =>
    /\ began.irq /\ ~began.masked /\ "I" \notin P
         => microcode \in {Index(SlotIrq, 0), Index(SlotNmi, 0)}
    /\ microcode = Index(SlotIrq, 0)
         => began.irq /\ (began.masked => began.slot = SlotRti)

(* On the way there: an asserted, unmasked IRQ is still pending; only one  *)
(* that was not masked by the time of the poll has been won; and a mask is *)
(* not lifted before the last cycle, unless by RTI.                        *)
OnTheWay ==
  /\ began.irq /\ ~began.masked => IrqPending(microcode, P, interrupts)
  /\ "irq_taken" \in interrupts => began.irq /\ (began.masked => began.slot = SlotRti)
  /\ began.masked /\ began.slot # SlotRti => "I" \in P \/ OpAt(microcode) \in FetchOps
  /\ SlotOf(microcode) = SlotRti => began.slot = SlotRti

BeganInv ==
  /\ phase = "trail" => /\ began.irq <=> "irq_pin" \in interrupts
                        /\ Follows
                        /\ AtBoundary \/ OnTheWay
  /\ phase = "release_irq" => Follows

(* The first cycle of a call.                                              *)
LEMMA ExecuteBegins ==
  ASSUME Model \in {"nmos", "nes"}, TypeOK, RefinementInv, BoundaryInv, CallStart, Execute, Watch
  PROVE  BeganInv'
<1>1. /\ phase = "lead" /\ phase' = "trail" /\ Tick /\ AtBoundary
      /\ began' = [ irq |-> "irq_pin" \in interrupts, masked |-> "I" \in P,
                    slot |-> SlotOf(microcode') ]
  BY DEF Execute, Watch, BoundaryInv, Between, Approaching
<1>2. PICK e \in Entries(microcode) : \E choice \in Choices(OpAt(e.at)) :
        CycleOf(e, choice) /\ e.at \in Nat /\ e.at \in Cursors /\ Running(e.at)
  BY <1>1, TickRuns
<1>3. PICK choice \in Choices(OpAt(e.at)) : CycleOf(e, choice)
  BY <1>2
<1>4. SlotOf(e.at) \notin ResetSlots
  BY <1>1, EntriesOutsideReset DEF CallStart, FetchStart
<1>5. began'.irq <=> "irq_pin" \in interrupts'
  BY <1>1, TickKeepsPins DEF Pins
<1>6. CASE tick = "jammed"
  <2>1. OpAt(e.at) = "kil_jam"
    BY <1>1, <1>6 DEF CallStart, FetchStart, Entries
  <2>2. tick' = "jammed"
    BY <1>3, <2>1 DEF CycleOf, Handler, Request, FetchOps
  <2>. QED
    BY <1>1, <1>5, <2>2 DEF BeganInv, Follows, AtBoundary
<1>7. CASE tick = "fetch"
  <2>1. e.at \in FirstCycles /\ P \in SUBSET Flags
    BY <1>1, <1>7, CallEntry DEF TypeOK, ExecutionTypeOK
  <2>2. ~Awaited(OpAt(e.at), P) /\ OpAt(e.at) # "vector_fetch"
    BY <2>1, PolledBeforeFetchAssumption DEF PolledBeforeFetch, NmosFamily, Unpolled
  <2>3. "irq_taken" \notin interrupts
    <3>1. Awaited(OpAt(microcode), P) => e.at = microcode
      BY DEF Awaited, Entries
    <3>. QED
      BY <2>2, <3>1 DEF CallStart, WonIsAwaited, TakenBits
  <2>4. began'.irq /\ ~began'.masked => IrqPending(e.at, P, Sensed) /\ "irq_pin" \in interrupts
    BY <1>1, <2>2 DEF IrqPending
  <2>5. /\ "irq_taken" \in interrupts' =>
             \/ "irq_taken" \in interrupts
             \/ "irq_pin" \in interrupts /\ "I" \notin P /\ OpAt(e.at) \notin FetchOps
        /\ tick' = "fetch" /\ microcode' = Index(SlotIrq, 0) => "irq_taken" \in interrupts
        /\ "I" \in P \/ OpAt(e.at) \in FetchOps =>
             \/ tick' = "fetch" \/ "I" \in P'
             \/ SlotOf(microcode') = SlotRti \/ OpAt(microcode') \in FetchOps
    BY <1>2, <1>3, <1>4, IrqTick
  <2>6. began'.irq /\ ~began'.masked =>
          IF tick' = "fetch"
          THEN "I" \in P' \/ microcode' \in {Index(SlotIrq, 0), Index(SlotNmi, 0)}
          ELSE IrqPending(microcode', P', interrupts')
    BY <1>2, <1>3, <1>4, <2>4, IrqPendingTick
  <2>7. Follows'
    BY <2>3, <2>5, <2>6 DEF Follows
  <2>8. tick' # "fetch" => OnTheWay'
    BY <1>1, <2>3, <2>5, <2>6 DEF OnTheWay
  <2>. QED
    BY <1>1, <1>5, <2>7, <2>8 DEF BeganInv, AtBoundary
<1>. QED
  BY <1>1, <1>6, <1>7 DEF AtBoundary

(* Any other cycle of a call.                                              *)
LEMMA LoopCycleContinues ==
  ASSUME Model \in {"nmos", "nes"}, TypeOK, RefinementInv, BoundaryInv, CallStart, BeganInv,
         LoopCycle, Watch
  PROVE  BeganInv'
<1>1. /\ phase = "trail" /\ phase' = "trail" /\ Tick /\ ~AtBoundary
      /\ began' = began
  BY DEF LoopCycle, LoopEnds, Watch, BoundaryInv, Between, Approaching
<1>2. PICK e \in Entries(microcode) : \E choice \in Choices(OpAt(e.at)) :
        CycleOf(e, choice) /\ e.at \in Nat /\ e.at \in Cursors /\ Running(e.at)
  BY <1>1, TickRuns
<1>3. PICK choice \in Choices(OpAt(e.at)) : CycleOf(e, choice)
  BY <1>2
<1>4. SlotOf(e.at) \notin ResetSlots
  BY <1>1, EntriesOutsideReset DEF CallStart, FetchStart
<1>5. e.at = microcode
  BY <1>1 DEF BoundaryInv, Between, Approaching, Running, Entries
<1>6. /\ began'.irq <=> "irq_pin" \in interrupts'
      /\ began.irq <=> "irq_pin" \in interrupts
  BY <1>1, TickKeepsPins DEF Pins, BeganInv
<1>7. OnTheWay
  BY <1>1 DEF BeganInv
<1>8. /\ "irq_taken" \in interrupts' =>
           \/ "irq_taken" \in interrupts
           \/ "irq_pin" \in interrupts /\ "I" \notin P /\ OpAt(microcode) \notin FetchOps
      /\ tick' = "fetch" /\ microcode' = Index(SlotIrq, 0) => "irq_taken" \in interrupts
      /\ "I" \in P \/ OpAt(microcode) \in FetchOps =>
           \/ tick' = "fetch" \/ "I" \in P'
           \/ SlotOf(microcode') = SlotRti \/ OpAt(microcode') \in FetchOps
      /\ tick' # "fetch" /\ SlotOf(microcode') = SlotRti => SlotOf(microcode) = SlotRti
  BY <1>2, <1>3, <1>4, <1>5, IrqTick
<1>9. began.irq /\ ~began.masked =>
        IF tick' = "fetch"
        THEN "I" \in P' \/ microcode' \in {Index(SlotIrq, 0), Index(SlotNmi, 0)}
        ELSE IrqPending(microcode', P', interrupts')
  <2>. SUFFICES ASSUME began.irq, ~began.masked PROVE IrqPending(e.at, P, Sensed)
    BY <1>2, <1>3, <1>4, <1>6, IrqPendingTick
  <2>. QED
    BY <1>5, <1>7, SensedWord DEF OnTheWay, IrqPending
<1>10. Follows'
  BY <1>1, <1>7, <1>8, <1>9 DEF Follows, OnTheWay
<1>11. tick' # "fetch" => OnTheWay'
  BY <1>1, <1>6, <1>7, <1>8, <1>9 DEF OnTheWay
<1>. QED
  BY <1>1, <1>6, <1>10, <1>11 DEF BeganInv, AtBoundary

LEMMA BeganInductive ==
  ASSUME Model \in {"nmos", "nes"}, TypeOK, RefinementInv, BoundaryInv, CallStart, BeganInv,
         [PromiseNext]_promiseVars
  PROVE  BeganInv'
<1>1. CASE Execute /\ Watch
  BY <1>1, ExecuteBegins
<1>2. CASE LoopCycle /\ Watch
  BY <1>2, LoopCycleContinues
<1>3. CASE Complete /\ Watch
  BY <1>3 DEF Complete, Watch, vars, BeganInv, Follows
<1>4. CASE UNCHANGED promiseVars
  BY <1>4 DEF promiseVars, BeganInv, Follows, OnTheWay, AtBoundary
<1>5. CASE \/ Reset \/ ResetCycle \/ ResetReturns \/ StepInstruction \/ ReleaseIrq
           \/ ReleaseNmi
           \/ \E line \in Lines : \E n \in Counts : AssertFor(line, n)
  BY <1>5 DEF Reset, ResetCycle, ResetReturns, StepInstruction, ReleaseIrq, ReleaseNmi, Release,
     AssertFor, BeganInv
<1>. QED
  BY <1>1, <1>2, <1>3, <1>4, <1>5 DEF PromiseNext

(* On NMOS a call that begins with IRQ asserted and I clear, and leaves I  *)
(* clear, is followed by an interrupt; one that begins with IRQ released   *)
(* or masked is not, but for an RTI that clears I: for every instruction,  *)
(* every data-dependent path through it, and either interrupt sequence.    *)
THEOREM IrqFollows ==
  ASSUME Model \in {"nmos", "nes"}, ~ShamFetchAtStart
  PROVE  PromiseSpec => []IrqFollowsCall
<1>1. PromiseInit => BeganInv
  BY DEF PromiseInit, AdapterInit, BeganInv
<1>2. TypeOK /\ RefinementInv /\ BoundaryInv /\ CallStart /\ BeganInv
        /\ [PromiseNext]_promiseVars => BeganInv'
  BY BeganInductive
<1>3. BeganInv => IrqFollowsCall
  BY DEF BeganInv, Follows, IrqFollowsCall, SlotRti
<1>. QED
  BY <1>1, <1>2, <1>3, AdapterKeepsHook, BoundaryInvHolds, CallStartHolds, CoreRuns, TypeCorrect,
     PTL DEF PromiseSpec
=============================================================================
