----------------------- MODULE InterruptLedger_proofs -----------------------
(***************************************************************************)
(* The core keeps the account of NMI edges that the observer keeps: no     *)
(* edge is forgotten, none is serviced that was not there.  Proved for     *)
(* every model and every set of opcodes, on NMOS for a host that does not  *)
(* release NMI while the edge detector is off.                             *)
(*                                                                         *)
(* The argument.  By the refinement every tick is one of PolledCore, so    *)
(* that it need not be told whether the resolver was hooked in.  Then what *)
(* the observer is owed is in one of three places (OwedIsHeld): the latch, *)
(* the arbitration won, or the NMI sequence under way.  A step moves it    *)
(* from one to the next, because of the order of the micro-operations in   *)
(* the store (Sequencing).                                                 *)
(***************************************************************************)
EXTENDS InterruptLedger, Qe6502_proofs, PollTiming

-----------------------------------------------------------------------------
(* The invariant.                                                          *)

(* The observer and the core saw NMI at the same level last.               *)
SeenIsLast == seen <=> "nmi_last" \in interrupts

(* Where an edge that is owed may be, once the cycle at `at' is next.      *)
Held(at, ints) == "nmi_edge" \in ints \/ "nmi_taken" \in ints \/ InService(at)

OwedIsHeld == owed <=> Held(microcode, interrupts)

(* While the NMOS core reads the NMI vector it neither looks at the line   *)
(* nor has an edge latched.                                                *)
VectorIsClean == NmosVectorCycle(microcode) => Clean(interrupts)

(* The detector is off only while an NMOS core reads a vector.             *)
DeafIsCycle == Deaf => DeafCycle(microcode) /\ Model \in {"nmos", "nes"}

LedgerInv ==
  /\ SeenIsLast
  /\ WonIsAwaited
  /\ OwedIsHeld
  /\ VectorIsClean
  /\ DeafIsCycle

-----------------------------------------------------------------------------
(* The cycle before it runs.                                               *)

(* LosesToSecondPoll and LosesToIrqEntry, told by the handler that runs.   *)
SecondPollLoses(op) ==
  /\ op = "branch_pgfix"
  /\ "nmi_taken" \in interrupts
  /\ "nmi_edge" \notin SenseNmi(interrupts)
  /\ "irq_pin" \in interrupts
  /\ "I" \notin P

(* What the invariant says of the entry whose handler runs: the one at the *)
(* cursor, the first of an opcode dispatched, or that of qe6502_goto().    *)
Before(at) ==
  /\ at \in Cursors /\ Running(at)
  /\ interrupts \cap TakenBits # {} => Awaited(OpAt(at), P)
  /\ owed <=> Held(at, interrupts)
  /\ NmosVectorCycle(at) => Clean(interrupts)
  /\ Deaf => DeafCycle(at) /\ Model \in {"nmos", "nes"}
  /\ LosesToSecondPoll <=> SecondPollLoses(OpAt(at))
  /\ LosesToIrqEntry <=> OpAt(at) = "cmos_irq_vec_hi"

LEMMA BeforeInStore ==
  ASSUME NEW at, Before(at)
  PROVE  at \in Nat /\ at \in Cursors /\ Running(at)
<1>1. at \in Cursors /\ Running(at)
  BY DEF Before
<1>. QED
  BY <1>1 DEF Cursors, Index, MicrocodePerSlot, SlotIrq

LEMMA VectorInService ==
  ASSUME NEW at \in Nat
  PROVE  /\ OpAt(at) \in NmiOps => InService(at)
         /\ NmosVectorCycle(at) => InService(at)
<1>1. OpAt(at) \in NmiOps => OpAt(at) # "empty"
  BY DEF NmiOps, NmiVectorHighOps
<1>2. NmosVectorCycle(at) => OpAt(at) \in NmiOps
  BY DEF NmosVectorCycle, NmiOps, NmiVectorHighOps
<1>. QED
  BY <1>1, <1>2, FilledIsCursor, SequencesApartAssumption DEF SequencesApart

(* The other slots hold nothing of an interrupt sequence.                  *)
LEMMA ElsewhereIsApart ==
  ASSUME NEW slot \in OpcodeSlots \cup {SlotInternalReset, SlotGoto}
  PROVE  LET at == Index(slot, 0)
         IN  /\ ~InService(at)
             /\ ~NmosVectorCycle(at)
             /\ OpAt(at) # "cmos_irq_vec_hi"
<1> DEFINE at == Index(slot, 0)
<1>1. slot \in Nat /\ slot # SlotNmi /\ slot # SlotIrq
  BY DEF OpcodeSlots, SlotInternalReset, SlotGoto, SlotNmi, SlotIrq
<1>2. at \in Nat /\ SlotOf(at) = slot
  BY <1>1, SlotStarts
<1>. HIDE DEF at
<1>3. ~InService(at)
  BY <1>1, <1>2 DEF InService
<1>4. OpAt(at) = "cmos_irq_vec_hi" => at \in Cursors
  BY <1>2, FilledIsCursor
<1>. QED
  BY <1>1, <1>2, <1>3, <1>4, VectorInService, SequencesApartAssumption
  DEF SequencesApart, at

LEMMA EntryBefore ==
  ASSUME TypeOK, LedgerInv,
         NEW from, from = microcode \/ (GotoPoint /\ from = Index(SlotGoto, 0)),
         NEW e \in Entries(from)
  PROVE  Before(e.at)
<1> DEFINE at == e.at
<1>1. microcode \in Nat /\ from \in Nat
  BY DEF TypeOK, ExecutionTypeOK, Index, MicrocodePerSlot, SlotGoto
<1>2. at \in Nat /\ at \in Cursors /\ Running(at)
  BY <1>1, EntriesRun
<1>3. CASE at = microcode
  <2>1. LosesToSecondPoll <=> SecondPollLoses(OpAt(at))
    BY <1>3 DEF LosesToSecondPoll, SecondPollLoses
  <2>2. LosesToIrqEntry <=> OpAt(at) = "cmos_irq_vec_hi"
    BY <1>2, <1>3, SequencesApartAssumption DEF LosesToIrqEntry, Cmos, SequencesApart
  <2>. QED
    BY <1>2, <1>3, <2>1, <2>2
    DEF Before, LedgerInv, WonIsAwaited, OwedIsHeld, VectorIsClean, DeafIsCycle
<1>4. CASE at # microcode
  <2>1. OpAt(microcode) \in {"dispatch", "kil_jam", "internal_reset"}
    BY <1>4 DEF GotoPoint, Entries
  <2>2. PICK slot \in OpcodeSlots \cup {SlotGoto} : at = Index(slot, 0)
    <3>1. CASE OpAt(from) = "dispatch"
      BY <3>1, OpcodesAssumption DEF Entries
    <3>2. CASE OpAt(from) # "dispatch"
      BY <1>4, <3>2 DEF Entries
    <3>. QED
      BY <3>1, <3>2
  <2>3. /\ ~InService(at)
        /\ ~NmosVectorCycle(at)
        /\ OpAt(at) # "cmos_irq_vec_hi"
    BY <2>2, ElsewhereIsApart
  <2>4. interrupts \cap TakenBits = {}
    BY <2>1 DEF LedgerInv, WonIsAwaited, Awaited
  <2>5. ~InService(microcode)
    <3>1. microcode \in Cursors
      BY <1>1, <2>1, FilledIsCursor
    <3>. QED
      BY <2>1, <3>1, NmiSequenceAssumption DEF NmiSequence, NmiOps, NmiVectorHighOps
  <2>6. ~Deaf
    BY <2>1 DEF LedgerInv, DeafIsCycle, DeafCycle
  <2>7. ~LosesToSecondPoll /\ ~SecondPollLoses(OpAt(at)) /\ ~LosesToIrqEntry
    BY <2>1, <2>4 DEF LosesToSecondPoll, SecondPollLoses, LosesToIrqEntry, TakenBits
  <2>8. owed <=> Held(at, interrupts)
    BY <2>3, <2>5 DEF LedgerInv, OwedIsHeld, Held
  <2>. QED
    BY <1>2, <2>3, <2>4, <2>6, <2>7, <2>8 DEF Before
<1>. QED
  BY <1>3, <1>4

-----------------------------------------------------------------------------
(* What sensing NMI and the handler do to the word.                        *)

LEMMA SensedBits ==
  /\ "sampling" \notin Sensed
  /\ Sensed \cap TakenBits = interrupts \cap TakenBits
  /\ "sampling_off" \in Sensed <=> Deaf
  /\ "nmi_pin" \in Sensed <=> "nmi_pin" \in interrupts
  /\ "irq_pin" \in Sensed <=> "irq_pin" \in interrupts
  /\ "nmi_last" \in Sensed
       <=> IF Deaf THEN "nmi_last" \in interrupts ELSE "nmi_pin" \in interrupts
  /\ "nmi_edge" \in Sensed <=> "nmi_edge" \in SenseNmi(interrupts)
  /\ "nmi_edge" \in Sensed
       <=> \/ "nmi_edge" \in interrupts
           \/ ~Deaf /\ "nmi_pin" \in interrupts /\ "nmi_last" \notin interrupts
BY SensedWord DEF Deaf

(* The account of the observer matches the core's own in mid-cycle.        *)
LEMMA OwedIsSensed ==
  ASSUME SeenIsLast, NEW at, Before(at)
  PROVE  Owed <=> Held(at, Sensed)
<1>1. "nmi_taken" \in Sensed <=> "nmi_taken" \in interrupts
  BY SensedBits DEF TakenBits
<1>. QED
  BY <1>1, SensedBits DEF Owed, Before, Held, SeenIsLast

(* The level seen last: the observer's and the core's.                     *)
LEMMA SeenAfterTick ==
  ASSUME SeenIsLast, NEW e, Before(e.at), NEW choice, CycleOf(e, choice), Observe
  PROVE  SeenIsLast'
<1> DEFINE op   == OpAt(e.at)
           left == Left(e, choice)
<1>1. "nmi_last" \in interrupts' <=> "nmi_last" \in left
  BY DEF CycleOf, Polling, Entering, GoingOn, Word, FindActiveInterrupt, TakenBits
<1>2. tick' = "fffb" <=> op \in NmiVectorHighOps
  BY DEF CycleOf, Handler, Request, NmiVectorHighOps, FetchOps
<1>3. seen' = IF Deaf /\ op \notin NmiVectorHighOps THEN seen
              ELSE "nmi_pin" \in interrupts
  BY <1>2 DEF Observe
<1>4. CASE op \in {"nmi_vec_hi", "cmos_nmi_push_p", "cmos_nmi_vec_hi", "cmos_irq_vec_hi"}
  <2>1. "nmi_last" \in left <=> "nmi_pin" \in interrupts
    BY <1>4, OtherWritesLeave, SensedBits DEF UpdateNmiLastSampled
  <2>2. op # "nmi_vec_hi" => ~Deaf
    BY <1>4 DEF Before, DeafCycle
  <2>3. op = "nmi_vec_hi" => op \in NmiVectorHighOps
    BY DEF NmiVectorHighOps
  <2>. QED
    BY <1>1, <1>3, <2>1, <2>2, <2>3 DEF SeenIsLast
<1>5. CASE op \notin {"nmi_vec_hi", "cmos_nmi_push_p", "cmos_nmi_vec_hi", "cmos_irq_vec_hi"}
  <2>1. "nmi_last" \in left <=> "nmi_last" \in Sensed
    BY <1>5, PlainHandlersLeaveAll, PushesLeave, OtherWritesLeave
    DEF WritingOps, VectorHighOps
  <2>2. op \notin NmiVectorHighOps
    BY <1>5 DEF NmiVectorHighOps
  <2>. QED
    BY <1>1, <1>3, <2>1, <2>2, SensedBits DEF SeenIsLast
<1>. QED
  BY <1>4, <1>5

-----------------------------------------------------------------------------
(* Where the cursor goes.                                                  *)

(* The detector is off in vector cycles only.                              *)
LEMMA DeafAfterTick ==
  ASSUME TypeOK, NEW e, Before(e.at), NEW choice \in Choices(OpAt(e.at)), CycleOf(e, choice)
  PROVE  DeafIsCycle'
<1> DEFINE op   == OpAt(e.at)
           left == Left(e, choice)
<1>. SUFFICES ASSUME "sampling_off" \in interrupts'
              PROVE  DeafCycle(microcode') /\ Model \in {"nmos", "nes"}
  BY DEF DeafIsCycle, Deaf
<1>1. e.at \in Nat /\ e.at \in Cursors /\ P \in SUBSET Flags
  BY BeforeInStore DEF TypeOK, ExecutionTypeOK
<1>2. "sampling_off" \in left
  BY DEF CycleOf, Polling, Entering, GoingOn, Word, FindActiveInterrupt, TakenBits
<1>3. CASE op \in DeafeningOps
  <2>1. microcode' \in Successors(e.at, P, choice)
    BY <1>1, <1>3, StraightOn, NextOfContinue DEF StraightOps, WritingOps
  <2>. QED
    BY <1>1, <1>3, <2>1, DeafUntilVectorAssumption DEF DeafUntilVector
<1>4. CASE op \notin DeafeningOps
  <2>1. Deaf /\ op \notin {"brk_vec_hi", "irq_vec_hi", "nmi_vec_hi"}
    <3>1. CASE op \in WritingOps
      BY <1>2, <1>4, <3>1, OtherWritesLeave, SensedBits
      DEF WritingOps, VectorHighOps, UpdateNmiLastSampled
    <3>2. CASE op \notin WritingOps
      BY <1>2, <3>2, PlainHandlersLeaveAll, SensedBits DEF WritingOps, VectorHighOps
    <3>. QED
      BY <3>1, <3>2
  <2>2. DeafCycle(e.at) /\ Model \in {"nmos", "nes"}
    BY <2>1 DEF Before
  <2>3. op \in {"nmi_vec_lo", "irq_vec_lo", "read_fffe"}
    BY <2>1, <2>2 DEF DeafCycle
  <2>4. microcode' = e.at + 1
    BY <1>1, <2>3, StraightOn DEF StraightOps
  <2>5. OpAt(e.at + 1) \in {"nmi_vec_hi", "irq_vec_hi", "brk_vec_hi"}
    BY <1>1, <2>2, <2>3, DeafUntilVectorAssumption DEF DeafUntilVector
  <2>. QED
    BY <2>2, <2>4, <2>5 DEF DeafCycle
<1>. QED
  BY <1>3, <1>4

-----------------------------------------------------------------------------
(* The NMI sequence.                                                       *)

(* Inside it the cursor goes straight on; from outside it is entered by    *)
(* the fetch that NMI takes, or from a status push that NMI hijacks.       *)
LEMMA InsideService ==
  ASSUME NEW e, Before(e.at), InService(e.at), NEW choice, CycleOf(e, choice)
  PROVE  /\ GoingOn(e, choice)
         /\ microcode' = e.at + 1
         /\ InService(microcode') <=> OpAt(e.at) \notin NmiVectorHighOps
         /\ OpAt(e.at) \in {"read", "push_pc_high", "push_pc_low"} \cup NmiOps
<1>1. e.at \in Nat /\ e.at \in Cursors
  BY BeforeInStore
<1>2. OpAt(e.at) \in {"read", "push_pc_high", "push_pc_low"} \cup NmiOps
  BY <1>1, NmiSequenceAssumption DEF NmiSequence
<1>3. OpAt(e.at) \in StraightOps /\ OpAt(e.at) \notin {"push_status_b", "irq_push_p"}
  BY <1>2
  DEF NmiOps, NmiVectorHighOps, StraightOps, WritingOps, DeafeningOps, VectorHighOps
<1>4. GoingOn(e, choice) /\ microcode' = e.at + 1
  BY <1>1, <1>3, StraightOn
<1>5. IF OpAt(e.at) \in NmiVectorHighOps THEN OpAt(e.at + 1) = "vector_fetch"
                                         ELSE InService(e.at + 1)
  BY <1>1, NmiSequenceAssumption DEF NmiSequence
<1>6. OpAt(e.at + 1) = "vector_fetch" => ~InService(e.at + 1)
  BY DEF InService
<1>. QED
  BY <1>2, <1>4, <1>5, <1>6

LEMMA OutsideService ==
  ASSUME TypeOK, NEW e, Before(e.at), ~InService(e.at), NEW choice \in Choices(OpAt(e.at)),
         Polling(e, choice) \/ GoingOn(e, choice)
  PROVE  LET winner == Winner(FindActiveInterrupt(Sensed, P))
         IN  InService(microcode')
               <=> OpAt(e.at) \in {"push_status_b", "irq_push_p"} /\ winner = "nmi"
<1> DEFINE winner == Winner(FindActiveInterrupt(Sensed, P))
           same   == IF latch_data' = 8 THEN 8 ELSE 0
<1>1. e.at \in Cursors /\ Running(e.at) /\ P \in SUBSET Flags
  BY DEF Before, TypeOK, ExecutionTypeOK
<1>2. microcode' \in Successors(e.at, P, choice)
  BY NextOfContinue
<1>3. CASE OpAt(e.at) \notin {"push_status_b", "irq_push_p"}
  BY <1>1, <1>2, <1>3, NmiSequenceAssumption DEF NmiSequence
<1>4. CASE OpAt(e.at) \in {"push_status_b", "irq_push_p"} /\ winner = "nmi"
  <2>1. microcode' = MiddleOf(SlotNmi)
    <3>1. \A count : NextMicrocode(e.at, P, choice, "nmi", count) = MiddleOf(SlotNmi)
      BY <1>4 DEF NextMicrocode, LoopsHere
    <3>. QED
      BY <1>4, <3>1 DEF Polling, GoingOn, Continue
  <2>. QED
    BY <1>4, <2>1, NmiSequenceAssumption DEF NmiSequence
<1>5. CASE OpAt(e.at) \in {"push_status_b", "irq_push_p"} /\ winner # "nmi"
  <2>1. microcode' = NextMicrocode(e.at, P, choice, winner, latch_data')
    BY DEF Polling, GoingOn, Continue
  <2>2. NextMicrocode(e.at, P, choice, winner, latch_data')
          = NextMicrocode(e.at, P, choice, winner, same)
    BY DEF NextMicrocode, LoopsHere
  <2>3. winner \in {"none", "irq"} /\ same \in {0, 8}
    BY <1>5, WinnerType
  <2>. HIDE DEF winner, same
  <2>4. ~InService(NextMicrocode(e.at, P, choice, winner, same))
    BY <1>1, <2>3, NmiSequenceAssumption DEF NmiSequence
  <2>. QED
    BY <1>5, <2>1, <2>2, <2>4 DEF winner
<1>. QED
  BY <1>3, <1>4, <1>5

LEMMA SequenceStarts ==
  /\ InService(Index(SlotNmi, 0)) /\ ~NmosVectorCycle(Index(SlotNmi, 0))
  /\ ~InService(Index(SlotIrq, 0))
<1>1. SlotIrq \in Nat /\ SlotIrq # SlotNmi
  BY DEF SlotIrq, SlotNmi
<1>. QED
  BY <1>1, SlotStarts, NmiSequenceAssumption DEF NmiSequence, InService

(* The NMOS core starts to read the NMI vector with nothing latched.       *)
LEMMA VectorAfterTick ==
  ASSUME TypeOK, TypeOK', NEW e, Before(e.at),
         NEW choice \in Choices(OpAt(e.at)), CycleOf(e, choice)
  PROVE  VectorIsClean'
<1> DEFINE op   == OpAt(e.at)
           left == Left(e, choice)
<1>. SUFFICES ASSUME NmosVectorCycle(microcode') PROVE Clean(interrupts')
  BY DEF VectorIsClean
<1>1. InService(microcode')
  BY VectorInService DEF TypeOK, ExecutionTypeOK
<1>2. GoingOn(e, choice) /\ Clean(left) => Clean(interrupts')
  BY DEF GoingOn, Word, Clean
<1>3. CASE InService(e.at)
  <2>1. GoingOn(e, choice) /\ microcode' = e.at + 1 /\ op \notin NmiVectorHighOps
    BY <1>1, <1>3, InsideService
  <2>2. op = "nmi_push_p" \/ NmosVectorCycle(e.at)
    BY <1>3, <2>1, BeforeInStore, NmiSequenceAssumption DEF NmiSequence
  <2>3. CASE op = "nmi_push_p"
    BY <1>2, <2>1, <2>3, PushesLeave DEF DeafeningOps
  <2>4. CASE NmosVectorCycle(e.at)
    <3>1. op = "nmi_vec_lo"
      BY <2>1, <2>4 DEF NmosVectorCycle, NmiVectorHighOps
    <3>2. left = Sensed
      BY <3>1, PlainHandlersLeaveAll DEF WritingOps, DeafeningOps, VectorHighOps
    <3>3. Clean(interrupts)
      BY <2>4 DEF Before
    <3>4. Clean(Sensed)
      BY <3>3, SensedBits DEF Clean, Deaf
    <3>. QED
      BY <1>2, <2>1, <3>2, <3>4
  <2>. QED
    BY <2>2, <2>3, <2>4
<1>4. CASE ~InService(e.at)
  <2>1. Polling(e, choice) \/ GoingOn(e, choice)
    BY <1>1, SequenceStarts DEF CycleOf, Entering
  <2>2. op \in {"push_status_b", "irq_push_p"}
    BY <1>1, <1>4, <2>1, OutsideService
  <2>3. GoingOn(e, choice)
    BY <2>2, StraightOn, BeforeInStore DEF StraightOps, WritingOps, DeafeningOps
  <2>. QED
    BY <1>2, <2>2, <2>3, PushesLeave DEF DeafeningOps
<1>. QED
  BY <1>3, <1>4

(* What is owed stays in the latch, in the arbitration won or in the       *)
(* sequence under way, or goes from one of them to the next.               *)
LEMMA OwedAfterTick ==
  ASSUME TypeOK, SeenIsLast, NEW e, Before(e.at),
         NEW choice \in Choices(OpAt(e.at)), CycleOf(e, choice), Observe
  PROVE  OwedIsHeld'
<1> DEFINE op   == OpAt(e.at)
           left == Left(e, choice)
<1>1. Owed <=> Held(e.at, Sensed)
  BY OwedIsSensed
<1>2. owed' <=> /\ Owed
                /\ op \notin NmiVectorHighOps
                /\ ~SecondPollLoses(op)
                /\ op # "cmos_irq_vec_hi"
  <2>1. tick' = "fffb" <=> op \in NmiVectorHighOps
    BY DEF CycleOf, Handler, Request, NmiVectorHighOps, FetchOps
  <2>. QED
    BY <2>1 DEF Observe, Before
<1>3. OwedIsHeld' <=> (owed' <=> Held(microcode', Word'))
  BY DEF OwedIsHeld, Held, Word
<1>4. ~Awaited(op, P) => Sensed \cap TakenBits = {}
  BY SensedBits DEF Before
<1>5. CASE InService(e.at)
  <2>1. /\ GoingOn(e, choice)
        /\ InService(microcode') <=> op \notin NmiVectorHighOps
        /\ op \in {"read", "push_pc_high", "push_pc_low"} \cup NmiOps
    BY <1>5, InsideService
  <2>2. op \notin {"branch_pgfix", "cmos_irq_vec_hi"} /\ ~Awaited(op, P)
    BY <2>1 DEF NmiOps, NmiVectorHighOps, Awaited
  <2>3. Owed
    BY <1>1, <1>5 DEF Held
  <2>4. owed' <=> op \notin NmiVectorHighOps
    BY <1>2, <2>2, <2>3 DEF SecondPollLoses
  <2>5. ASSUME op \in NmiVectorHighOps
        PROVE  "nmi_edge" \notin left /\ "nmi_taken" \notin left
    <3>1. op = "nmi_vec_hi" => "nmi_edge" \notin Sensed
      BY SensedBits DEF Before, NmosVectorCycle, Clean, Deaf
    <3>. QED
      BY <1>4, <2>2, <2>5, <3>1, OtherWritesLeave
      DEF NmiVectorHighOps, UpdateNmiLastSampled, TakenBits
  <2>6. Held(microcode', Word') <=> op \notin NmiVectorHighOps
    BY <2>1, <2>5 DEF Held, GoingOn
  <2>. QED
    BY <1>3, <2>4, <2>6
<1>6. CASE ~InService(e.at)
  <2>1. op \notin NmiOps
    BY <1>6, VectorInService, BeforeInStore
  <2>2. owed' <=> /\ "nmi_edge" \in Sensed \/ "nmi_taken" \in Sensed
                  /\ ~SecondPollLoses(op)
                  /\ op # "cmos_irq_vec_hi"
    BY <1>1, <1>2, <1>6, <2>1 DEF Held, NmiOps
  <2>3. op \notin {"push_status_b", "irq_push_p"} /\ (Polling(e, choice) \/ GoingOn(e, choice))
          => ~InService(microcode')
    BY <1>6, OutsideService
  <2>4. CASE op \in {"push_status_b", "irq_push_p"}
    <3>1. GoingOn(e, choice) /\ op # "branch_pgfix" /\ op # "cmos_irq_vec_hi"
      BY <2>4, StraightOn, BeforeInStore DEF StraightOps, WritingOps, DeafeningOps
    <3>2. "nmi_taken" \notin Sensed
      BY <1>4, <2>4 DEF Awaited, TakenBits
    <3>3. InService(microcode') <=> Winner(FindActiveInterrupt(Sensed, P)) = "nmi"
      BY <1>6, <2>4, <3>1, OutsideService
    <3>4. Winner(FindActiveInterrupt(Sensed, P)) = "nmi" <=> "nmi_edge" \in Sensed
      BY <3>2 DEF Winner, FindActiveInterrupt
    <3>5. "nmi_edge" \notin left /\ "nmi_taken" \notin left
      BY <2>4, PushesLeave DEF DeafeningOps, Clean, TakenBits
    <3>6. Held(microcode', Word') <=> "nmi_edge" \in Sensed
      BY <3>1, <3>3, <3>4, <3>5 DEF Held, GoingOn
    <3>. QED
      BY <1>3, <2>2, <3>1, <3>2, <3>6 DEF SecondPollLoses
  <2>5. CASE op = "cmos_irq_vec_hi"
    <3>1. GoingOn(e, choice)
      BY <2>5, StraightOn, BeforeInStore DEF StraightOps, WritingOps, VectorHighOps
    <3>2. "nmi_edge" \notin left /\ "nmi_taken" \notin left
      BY <1>4, <2>5, OtherWritesLeave DEF Awaited, TakenBits, UpdateNmiLastSampled
    <3>. QED
      BY <1>3, <2>2, <2>3, <2>5, <3>1, <3>2 DEF Held, GoingOn
  <2>6. CASE op \in {"brk_vec_hi", "irq_vec_hi", "cmos_irq_push_p"}
    <3>1. GoingOn(e, choice)
      BY <2>6, StraightOn, BeforeInStore DEF StraightOps, WritingOps, VectorHighOps
    <3>2. /\ "nmi_edge" \in left <=> "nmi_edge" \in Sensed
          /\ "nmi_taken" \in left <=> "nmi_taken" \in Sensed
      BY <2>6, OtherWritesLeave
    <3>. QED
      BY <1>3, <2>2, <2>3, <2>6, <3>1, <3>2 DEF Held, GoingOn, SecondPollLoses
  <2>7. CASE op \notin WritingOps
    <3>1. left = Sensed /\ op \notin {"push_status_b", "irq_push_p", "cmos_irq_vec_hi"}
      BY <2>7, PlainHandlersLeaveAll DEF WritingOps, DeafeningOps, VectorHighOps
    <3>2. Samples("branch_pgfix", P, choice)
      BY DEF Samples, PrefetchOps
    <3>3. CASE Polling(e, choice)
      <4>1. "nmi_taken" \in Sensed => op = "branch_pgfix"
        <5>1. "nmi_taken" \in Sensed => Awaited(op, P)
          BY <1>4 DEF TakenBits
        <5>. QED
          BY <3>3, <5>1 DEF Polling, Samples, Awaited, PrefetchOps, BinaryPrefetchOps
      <4>2. SecondPollLoses(op)
              <=> /\ "nmi_taken" \in Sensed /\ "nmi_edge" \notin Sensed
                  /\ "irq_pin" \in Sensed /\ "I" \notin P
        <5>1. "nmi_taken" \in Sensed <=> "nmi_taken" \in interrupts
          BY SensedBits DEF TakenBits
        <5>. QED
          BY <4>1, <5>1, SensedBits DEF SecondPollLoses
      <4>3. "nmi_edge" \notin Word'
            /\ ("nmi_taken" \in Word'
                  <=> \/ "nmi_edge" \in Sensed
                      \/ /\ "nmi_taken" \in Sensed
                         /\ ~("irq_pin" \in Sensed /\ "I" \notin P))
        BY <3>1, <3>3 DEF Polling, FindActiveInterrupt
      <4>. QED
        BY <1>3, <2>2, <2>3, <3>1, <3>3, <4>2, <4>3 DEF Held
    <3>4. CASE Winner(left) = "nmi" /\ Entering(e, choice, SlotNmi)
      <4>1. "nmi_taken" \in Sensed /\ InService(microcode')
        BY <3>1, <3>4, SequenceStarts DEF Winner, Entering
      <4>2. ~SecondPollLoses(op)
        BY <3>2, <3>4 DEF Entering, SecondPollLoses
      <4>. QED
        BY <1>3, <2>2, <3>1, <4>1, <4>2 DEF Held
    <3>5. CASE Winner(left) = "irq" /\ Entering(e, choice, SlotIrq)
      <4>1. "nmi_taken" \notin Sensed /\ ~InService(microcode')
        BY <3>1, <3>5, SequenceStarts DEF Winner, Entering
      <4>2. ~SecondPollLoses(op)
        BY <3>2, <3>5 DEF Entering, SecondPollLoses
      <4>3. /\ "nmi_edge" \in Word' <=> "nmi_edge" \in Sensed
            /\ "nmi_taken" \notin Word'
        BY <3>1, <3>5 DEF Entering, TakenBits
      <4>. QED
        BY <1>3, <2>2, <3>1, <4>1, <4>2, <4>3 DEF Held
    <3>6. CASE GoingOn(e, choice)
      <4>1. ~SecondPollLoses(op)
        BY <3>2, <3>6 DEF GoingOn, SecondPollLoses
      <4>. QED
        BY <1>3, <2>2, <2>3, <3>1, <3>6, <4>1 DEF Held, GoingOn
    <3>. QED
      BY <3>3, <3>4, <3>5, <3>6 DEF CycleOf
  <2>. QED
    BY <2>1, <2>4, <2>5, <2>6, <2>7
    DEF WritingOps, DeafeningOps, VectorHighOps, NmiOps, NmiVectorHighOps
<1>. QED
  BY <1>5, <1>6

-----------------------------------------------------------------------------
(* The invariant is inductive.                                             *)

LEMMA TickKeepsLedger ==
  ASSUME TypeOK, TypeOK', RefinementInv, LedgerInv, Observe,
         NEW from, from = microcode \/ (GotoPoint /\ from = Index(SlotGoto, 0)),
         FastTick(from) \/ HijackedTick(from)
  PROVE  LedgerInv' /\ (tick' = "fffa" => Owed)
<1>1. PICK e \in Entries(from) : \E choice \in Choices(OpAt(e.at)) : CycleOf(e, choice)
  BY TickIsCycle
<1>2. PICK choice \in Choices(OpAt(e.at)) : CycleOf(e, choice)
  BY <1>1
<1>3. Before(e.at)
  BY EntryBefore
<1>4. SeenIsLast
  BY DEF LedgerInv
<1>5. WonIsAwaited'
  BY <1>2, <1>3, WonAfterTick DEF Before
<1>6. SeenIsLast' /\ OwedIsHeld' /\ VectorIsClean' /\ DeafIsCycle'
  BY <1>2, <1>3, <1>4, SeenAfterTick, OwedAfterTick, VectorAfterTick, DeafAfterTick
<1>7. ASSUME tick' = "fffa" PROVE Owed
  <2>1. OpAt(e.at) = "nmi_vec_lo"
    BY <1>2, <1>7 DEF CycleOf, Handler, Request, FetchOps
  <2>2. InService(e.at)
    BY <1>3, <2>1, BeforeInStore, VectorInService DEF NmiOps
  <2>. QED
    BY <1>3, <1>4, <2>2, OwedIsSensed DEF Held
<1>. QED
  BY <1>5, <1>6, <1>7 DEF LedgerInv

(* The levels of the lines are not part of it.                             *)
LEMMA LineChangeKeepsLedger ==
  ASSUME LedgerInv, LedgerLineChange
  PROVE  LedgerInv'
<1>1. UNCHANGED <<execution, ledger>>
  BY DEF LedgerLineChange, LineChange, NmiAssert, IrqAssert
<1>2. \A bit \in {"nmi_last", "nmi_edge", "nmi_taken", "irq_taken", "sampling_off"} :
        bit \in interrupts' <=> bit \in interrupts
  BY DEF LedgerLineChange, LineChange, NmiAssert, IrqAssert
<1>3. /\ interrupts' \cap TakenBits # {} <=> interrupts \cap TakenBits # {}
      /\ "nmi_last" \in interrupts' <=> "nmi_last" \in interrupts
      /\ "nmi_edge" \in interrupts' <=> "nmi_edge" \in interrupts
      /\ "nmi_taken" \in interrupts' <=> "nmi_taken" \in interrupts
      /\ "sampling_off" \in interrupts' <=> "sampling_off" \in interrupts
  BY <1>2 DEF TakenBits
<1>4. microcode' = microcode /\ P' = P /\ seen' = seen /\ owed' = owed
  BY <1>1 DEF execution, ledger
<1>. QED
  BY <1>3, <1>4
  DEF LedgerInv, SeenIsLast, WonIsAwaited, OwedIsHeld, Held, VectorIsClean, Clean,
      DeafIsCycle, Deaf

LEMMA RestartKeepsLedger ==
  ASSUME LedgerRestart
  PROVE  LedgerInv'
<1>1. /\ microcode' = Index(SlotInternalReset, 0) /\ interrupts' = {}
      /\ ~seen' /\ ~owed'
  BY DEF LedgerRestart, Restart, Restarted, NothingObserved
<1>2. ~InService(microcode') /\ ~NmosVectorCycle(microcode')
  BY <1>1, ElsewhereIsApart
<1>. QED
  BY <1>1, <1>2
  DEF LedgerInv, SeenIsLast, WonIsAwaited, OwedIsHeld, Held, VectorIsClean, DeafIsCycle, Deaf

LEMMA LedgerInitially ==
  ASSUME LedgerInit
  PROVE  LedgerInv
<1>1. microcode = Index(SlotInternalReset, 0) /\ interrupts = {} /\ ~seen /\ ~owed
  BY DEF LedgerInit, Init, Restarted, NothingObserved
<1>2. ~InService(microcode) /\ ~NmosVectorCycle(microcode)
  BY <1>1, ElsewhereIsApart
<1>. QED
  BY <1>1, <1>2
  DEF LedgerInv, SeenIsLast, WonIsAwaited, OwedIsHeld, Held, VectorIsClean, DeafIsCycle, Deaf

LEMMA LedgerInvInductive ==
  ASSUME TypeOK, TypeOK', RefinementInv, LedgerInv, [PatientLedgerNext]_ledgerVars
  PROVE  LedgerInv'
<1>1. CASE LedgerTick
  BY <1>1, TickKeepsLedger DEF LedgerTick, Tick
<1>2. CASE LedgerGoto
  BY <1>2, TickKeepsLedger DEF LedgerGoto, Goto
<1>3. CASE LedgerRestart
  BY <1>3, RestartKeepsLedger
<1>4. CASE PatientLineChange
  BY <1>4, LineChangeKeepsLedger DEF PatientLineChange
<1>5. CASE UNCHANGED ledgerVars
  BY <1>5
  DEF ledgerVars, LedgerInv, SeenIsLast, WonIsAwaited, OwedIsHeld, Held, VectorIsClean, Clean,
      DeafIsCycle, Deaf
<1>. QED
  BY <1>1, <1>2, <1>3, <1>4, <1>5 DEF PatientLedgerNext

(* The observer changes nothing for the core, and its host is patient.     *)
LEMMA LedgerHostIsPatient == PatientLedgerSpec => PatientSpec /\ Spec
<1>1. LedgerInit => Init
  BY DEF LedgerInit
<1>2. [PatientLedgerNext]_ledgerVars => [PatientNext]_vars
  <2>1. PatientLineChange => LineChange /\ ~ReleasesNmiWhileDeaf
    BY DEF PatientLineChange, LedgerLineChange, ReleasesNmiWhileDeaf, NmiAssert, Deaf
  <2>. QED
    BY <2>1
    DEF PatientLedgerNext, PatientNext, LedgerTick, LedgerGoto, LedgerRestart, ledgerVars, vars
<1>3. [PatientNext]_vars => [Next]_vars
  BY DEF PatientNext, Next
<1>. QED
  BY <1>1, <1>2, <1>3, PTL DEF PatientLedgerSpec, PatientSpec, Spec

LEMMA LedgerInvHolds == PatientLedgerSpec => [](TypeOK /\ RefinementInv /\ LedgerInv)
<1>1. PatientSpec => []RefinementInv
  <2>1. Init => RefinementInv
    BY DEF Init, RefinementInv, PendingHijacks, NoStaleSampling, NmiLevelKnown, Pending,
           TakenBits
  <2>2. RefinementInv /\ [PatientNext]_vars => RefinementInv'
    BY RefinementInvInductive
  <2>. QED
    BY <2>1, <2>2, PTL DEF PatientSpec
<1>2. LedgerInit => LedgerInv
  BY LedgerInitially
<1>3. TypeOK /\ TypeOK' /\ RefinementInv /\ LedgerInv /\ [PatientLedgerNext]_ledgerVars
        => LedgerInv'
  BY LedgerInvInductive
<1>. QED
  BY <1>1, <1>2, <1>3, LedgerHostIsPatient, TypeCorrect, PTL DEF PatientLedgerSpec

-----------------------------------------------------------------------------
(* An NMI edge that has been seen is latched, won, or being serviced.      *)
THEOREM NmiKept == PatientLedgerSpec => []NmiNeverForgotten
<1>1. LedgerInv => NmiNeverForgotten
  BY DEF LedgerInv, OwedIsHeld, Held, InService, NmiNeverForgotten
<1>. QED
  BY <1>1, LedgerInvHolds, PTL

(* The NMI vector is read only for an edge of the line, once for each.     *)
THEOREM NmiEdgesOnly == PatientLedgerSpec => NmiIsEdge
<1>1. TypeOK /\ TypeOK' /\ RefinementInv /\ LedgerInv /\ [PatientLedgerNext]_ledgerVars
        => [ tick' = "fffa" /\ tick # "fffa" => Owed ]_ledgerVars
  <2>. SUFFICES ASSUME TypeOK, TypeOK', RefinementInv, LedgerInv, PatientLedgerNext,
                       tick' = "fffa", tick # "fffa"
                PROVE  Owed
    OBVIOUS
  <2>1. CASE LedgerTick
    BY <2>1, TickKeepsLedger DEF LedgerTick, Tick
  <2>2. CASE LedgerGoto
    BY <2>2, TickKeepsLedger DEF LedgerGoto, Goto
  <2>3. CASE LedgerRestart
    BY <2>3 DEF LedgerRestart, Restart, Restarted
  <2>4. CASE PatientLineChange
    BY <2>4 DEF PatientLineChange, LedgerLineChange, LineChange, NmiAssert, IrqAssert, execution
  <2>. QED
    BY <2>1, <2>2, <2>3, <2>4 DEF PatientLedgerNext
<1>. QED
  BY <1>1, LedgerInvHolds, PTL DEF PatientLedgerSpec, NmiIsEdge

(* The edge detector is off only from a status push to the high byte of    *)
(* the vector that follows.                                                *)
THEOREM DeafBriefly == PatientLedgerSpec => []DeafOnlyBetweenPushAndVector
<1>1. LedgerInv => DeafOnlyBetweenPushAndVector
  BY DEF LedgerInv, DeafIsCycle, DeafCycle, DeafOnlyBetweenPushAndVector
<1>. QED
  BY <1>1, LedgerInvHolds, PTL

-----------------------------------------------------------------------------
(* When interrupts are taken.                                              *)

(* The cycles since the fetch tell where in its sequence a branch is, and  *)
(* before its own fetch how many of its cycles it has skipped.             *)
InStep(at) ==
  IsBranch(SlotOf(at)) =>
    LET poll     == BranchCycle(SlotOf(at))
        position == at % MicrocodePerSlot
    IN  IF position <= poll + 1 THEN cycle = position ELSE cycle \in poll .. poll + 2

(* What a cycle that polled has won is what the observer would have.       *)
WonOnTime(at) ==
  LET winner == Winner(interrupts)
  IN  /\ OpAt(at) = "branch_apply" => winner = polls[2]
      /\ OpAt(at) = "branch_pgfix" => winner = polls[1]
      /\ Awaited(OpAt(at), P) /\ OpAt(at) \notin BranchOps => winner \in Due

TimeInv ==
  /\ OpAt(microcode) = "dispatch" => cycle = 0
  /\ Running(microcode) => InStep(microcode)
  /\ WonOnTime(microcode)

(* A cycle before it runs: the handler at the cursor, the first one of an  *)
(* opcode dispatched, or that of qe6502_goto().                            *)
LEMMA EntryInTime ==
  ASSUME TypeOK, LedgerInv, TimeInv,
         NEW from, from = microcode \/ (GotoPoint /\ from = Index(SlotGoto, 0)),
         NEW e \in Entries(from)
  PROVE  /\ InStep(e.at)
         /\ OpAt(e.at) = "branch_apply" => Winner(interrupts) = polls[2]
         /\ OpAt(e.at) = "branch_pgfix" => Winner(interrupts) = polls[1]
<1>1. microcode \in Nat /\ from \in Nat
  BY DEF TypeOK, ExecutionTypeOK, Index, MicrocodePerSlot, SlotGoto
<1>2. Running(e.at) /\ e.at \in Cursors
  BY <1>1, EntriesRun
<1>3. CASE e.at = microcode
  BY <1>2, <1>3 DEF TimeInv, WonOnTime
<1>4. CASE e.at # microcode /\ OpAt(from) = "dispatch"
  <2>1. from = microcode
    BY <1>4, ClosedAssumption DEF Closed, Running
  <2>2. PICK slot \in OpcodeSlots : e.at = Index(slot, 0)
    BY <1>4, OpcodesAssumption DEF Entries
  <2>3. cycle = 0 /\ e.at % MicrocodePerSlot = 0
    BY <1>4, <2>1, <2>2 DEF TimeInv, Index, MicrocodePerSlot, OpcodeSlots
  <2>4. /\ IsBranch(SlotOf(e.at)) => BranchCycle(SlotOf(e.at)) \in 1 .. 4
        /\ OpAt(e.at) \notin {"branch_apply", "branch_pgfix"}
    <3>. DEFINE poll == BranchCycle(SlotOf(e.at))
    <3>1. /\ IsBranch(SlotOf(e.at)) =>
               /\ poll \in 1 .. 4
               /\ OpAt(e.at) = "branch_apply" <=> 0 = poll
               /\ OpAt(e.at) = "branch_pgfix" <=> 0 = poll + 1
          /\ OpAt(e.at) \in BranchOps => IsBranch(SlotOf(e.at))
      BY <1>2, <2>3, BranchSequenceAssumption DEF BranchSequence
    <3>2. OpAt(e.at) \in {"branch_apply", "branch_pgfix"} => IsBranch(SlotOf(e.at))
      BY <3>1 DEF BranchOps
    <3>. HIDE DEF poll
    <3>3. poll \in 1 .. 4 => 0 # poll /\ 0 # poll + 1
      OBVIOUS
    <3>4. OpAt(e.at) \notin {"branch_apply", "branch_pgfix"}
      BY <3>1, <3>2, <3>3
    <3>. QED
      BY <3>1, <3>4 DEF poll
  <2>. QED
    BY <2>3, <2>4 DEF InStep
<1>5. CASE e.at # microcode /\ OpAt(from) # "dispatch"
  <2>1. e.at = Index(SlotGoto, 0)
    BY <1>5 DEF Entries
  <2>2. SlotOf(e.at) = SlotGoto
    BY <2>1, SlotStarts DEF SlotGoto
  <2>3. ~IsBranch(SlotOf(e.at))
    BY <2>2, FirstCyclesApartAssumption DEF FirstCyclesApart
  <2>4. OpAt(e.at) \in BranchOps => IsBranch(SlotOf(e.at))
    BY <1>2, BranchSequenceAssumption DEF BranchSequence
  <2>. QED
    BY <2>3, <2>4 DEF InStep, BranchOps
<1>. QED
  BY <1>3, <1>4, <1>5

(* Arbitration finds what the observer expects, but that the second poll   *)
(* of a branch does not withdraw the IRQ the first has won.                *)
LEMMA PollIsFound ==
  ASSUME SeenIsLast, NEW e, Before(e.at), NEW choice, Polling(e, choice)
  PROVE  \/ Winner(interrupts') = Poll
         \/ OpAt(e.at) = "branch_pgfix" /\ Poll = "none" /\ Winner(interrupts') = "irq"
<1> DEFINE op == OpAt(e.at)
<1>1. op \notin WritingOps /\ (op = "branch_pgfix" \/ ~Awaited(op, P))
  BY DEF Polling, Samples, PrefetchOps, BinaryPrefetchOps, WritingOps, DeafeningOps,
         VectorHighOps, Awaited
<1>2. Word' = FindActiveInterrupt(Sensed, P)
  BY <1>1, PlainHandlersLeaveAll DEF Polling
<1>3. Winner(interrupts') = Winner(FindActiveInterrupt(Sensed, P))
  BY <1>2 DEF Winner, Word
<1>4. ~InService(e.at)
  <2>1. op \notin {"read", "push_pc_high", "push_pc_low"} \cup NmiOps
    BY DEF Polling, Samples, PrefetchOps, BinaryPrefetchOps, NmiOps, NmiVectorHighOps
  <2>. QED
    BY <2>1, BeforeInStore, NmiSequenceAssumption DEF NmiSequence
<1>5. Owed <=> "nmi_edge" \in Sensed \/ "nmi_taken" \in Sensed
  BY <1>4, OwedIsSensed DEF Held
<1>6. Sensed \cap TakenBits # {} => op = "branch_pgfix"
  BY <1>1, SensedBits DEF Before
<1>7. /\ "irq_pin" \in Sensed <=> "irq_pin" \in interrupts
      /\ "nmi_edge" \in Sensed <=> "nmi_edge" \in SenseNmi(interrupts)
      /\ "nmi_taken" \in Sensed <=> "nmi_taken" \in interrupts
  BY SensedBits DEF TakenBits
<1>8. LosesToSecondPoll <=>
        /\ op = "branch_pgfix" /\ "nmi_taken" \in Sensed /\ "nmi_edge" \notin Sensed
        /\ "irq_pin" \in Sensed /\ "I" \notin P
  BY <1>7 DEF Before, SecondPollLoses
<1>9. Poll = IF Owed /\ ~LosesToSecondPoll THEN "nmi"
             ELSE IF "irq_pin" \in Sensed /\ "I" \notin P THEN "irq" ELSE "none"
  BY <1>7 DEF Poll
<1>10. "nmi_taken" \in Sensed \/ "irq_taken" \in Sensed => op = "branch_pgfix"
  BY <1>6 DEF TakenBits
<1>11. CASE "nmi_edge" \in Sensed
  BY <1>3, <1>5, <1>8, <1>9, <1>11 DEF Winner, FindActiveInterrupt
<1>12. CASE "nmi_edge" \notin Sensed /\ "irq_pin" \in Sensed /\ "I" \notin P
  <2>1. Winner(interrupts') = "irq"
    BY <1>3, <1>12 DEF Winner, FindActiveInterrupt
  <2>2. Poll = "irq"
    BY <1>5, <1>8, <1>9, <1>10, <1>12
  <2>. QED
    BY <2>1, <2>2
<1>13. CASE "nmi_edge" \notin Sensed /\ ~("irq_pin" \in Sensed /\ "I" \notin P)
  <2>1. Winner(interrupts') = Winner(Sensed)
    BY <1>3, <1>13 DEF FindActiveInterrupt
  <2>2. Poll = IF "nmi_taken" \in Sensed THEN "nmi" ELSE "none"
    BY <1>5, <1>8, <1>9, <1>13
  <2>. QED
    BY <1>10, <2>1, <2>2 DEF Winner
<1>. QED
  BY <1>11, <1>12, <1>13

(* A cycle that neither polls nor takes a fetch leaves who has won.        *)
LEMMA WinnerStays ==
  ASSUME NEW e, NEW choice, GoingOn(e, choice), OpAt(e.at) \notin WritingOps
  PROVE  Winner(interrupts') = Winner(interrupts)
<1>1. Word' = Sensed
  BY PlainHandlersLeaveAll DEF GoingOn
<1>2. Sensed \cap TakenBits = interrupts \cap TakenBits
  BY SensedBits
<1>. QED
  BY <1>1, <1>2 DEF Winner, Word, TakenBits

(* The cycle counter follows a branch through its sequence.                *)
LEMMA InStepAfterTick ==
  ASSUME TypeOK, NEW e, Before(e.at), InStep(e.at), NEW choice \in Choices(OpAt(e.at)),
         Handler(e, choice), Observe,
         microcode' \in Successors(e.at, P, choice), Running(microcode'),
         IsBranch(SlotOf(microcode'))
  PROVE  LET poll   == BranchCycle(SlotOf(e.at))
             before == e.at % MicrocodePerSlot
             after  == microcode' % MicrocodePerSlot
         IN  /\ SlotOf(microcode') = SlotOf(e.at)
             /\ IsBranch(SlotOf(e.at))
             /\ poll \in 1 .. 4
             /\ before \in 0 .. poll + 1
             /\ after = before + 1 \/ (after = poll + 2 /\ before >= poll - 1)
             /\ cycle' = before + 1
             /\ InStep(microcode)'
<1> DEFINE op     == OpAt(e.at)
           poll   == BranchCycle(SlotOf(e.at))
           before == e.at % MicrocodePerSlot
           after  == microcode' % MicrocodePerSlot
<1>1. e.at \in Nat /\ e.at \in Cursors /\ Running(e.at) /\ P \in SUBSET Flags
  BY BeforeInStore DEF TypeOK, ExecutionTypeOK
<1>2. /\ SlotOf(microcode') = SlotOf(e.at)
      /\ before <= poll + 1
      /\ after = before + 1 \/ (after = poll + 2 /\ before >= poll - 1)
  BY <1>1, BranchSequenceAssumption DEF BranchSequence
<1>3. /\ poll \in 1 .. 4
      /\ Request(op, P, 0) \notin {"fetch", "jammed", "internal_reset"}
  BY <1>1, <1>2, BranchSequenceAssumption DEF BranchSequence
<1>4. before \in Nat
  BY <1>1 DEF MicrocodePerSlot
<1>5. tick' \notin {"fetch", "jammed", "internal_reset"}
  <2>1. op # "internal_reset"
    BY <1>3 DEF Request, FetchOps
  <2>2. tick' = Request(op, P, latch_data)
    BY <2>1 DEF Handler
  <2>. QED
    BY <1>3, <2>1, <2>2 DEF Request
<1>6. cycle' = cycle + 1
  BY <1>5 DEF Observe
<1>7. cycle = before
  BY <1>2 DEF InStep
<1>. HIDE DEF poll, before
<1>8. cycle' = before + 1 /\ before \in 0 .. poll + 1
  BY <1>2, <1>3, <1>4, <1>6, <1>7
<1>9. IF after <= poll + 1 THEN cycle' = after ELSE cycle' \in poll .. poll + 2
  BY <1>2, <1>3, <1>8
<1>10. InStep(microcode)'
  BY <1>2, <1>9 DEF InStep, poll, MicrocodePerSlot
<1>. QED
  BY <1>2, <1>3, <1>8, <1>10 DEF poll, before

(* What has been won, in the cycle after one that may go on.               *)
LEMMA WonAfterGoingOn ==
  ASSUME TypeOK, TypeOK', SeenIsLast, NEW e, Before(e.at), InStep(e.at),
         OpAt(e.at) = "branch_apply" => Winner(interrupts) = polls[2],
         NEW choice \in Choices(OpAt(e.at)), Handler(e, choice), Observe,
         Polling(e, choice) \/ GoingOn(e, choice)
  PROVE  WonOnTime(microcode)'
<1> DEFINE op     == OpAt(e.at)
           next   == OpAt(microcode')
           poll   == BranchCycle(SlotOf(e.at))
           before == e.at % MicrocodePerSlot
           after  == microcode' % MicrocodePerSlot
<1>1. e.at \in Nat /\ e.at \in Cursors /\ Running(e.at) /\ P \in SUBSET Flags
  BY BeforeInStore DEF TypeOK, ExecutionTypeOK
<1>2. microcode' \in Successors(e.at, P, choice)
  BY NextOfContinue
<1>3. P' = FlagsAfter(op, P, choice) /\ P' \in SUBSET Flags
  BY DEF Handler, TypeOK, ExecutionTypeOK
<1>4. polls'[1] = polls[2] /\ polls'[2] = Poll
  BY DEF Observe
<1>5. Samples(op, P, choice) => Polling(e, choice)
  BY DEF GoingOn
<1>6. Samples(op, P, choice) =>
        \/ Winner(interrupts') = polls'[2]
        \/ op = "branch_pgfix" /\ polls'[2] = "none" /\ Winner(interrupts') = "irq"
  BY <1>4, <1>5, PollIsFound
<1>7. op = "branch_apply" => Winner(interrupts') = polls'[1]
  <2>. SUFFICES ASSUME op = "branch_apply" PROVE Winner(interrupts') = Winner(interrupts)
    BY <1>4
  <2>1. op \notin WritingOps /\ ~Samples(op, P, choice)
    BY DEF WritingOps, DeafeningOps, VectorHighOps, Samples, PrefetchOps, BinaryPrefetchOps
  <2>2. GoingOn(e, choice)
    BY <2>1 DEF Polling
  <2>. QED
    BY <2>1, <2>2, WinnerStays
<1>8. next # "empty" => microcode' \in Cursors
  BY FilledIsCursor DEF TypeOK, ExecutionTypeOK
<1>9. ASSUME next \in {"branch_apply", "branch_pgfix"} \/ Awaited(next, P')
      PROVE  Running(microcode') /\ microcode' \in Cursors
  BY <1>8, <1>9 DEF Running, Awaited
<1>10. ASSUME Running(microcode'), IsBranch(SlotOf(microcode'))
       PROVE  /\ SlotOf(microcode') = SlotOf(e.at) /\ IsBranch(SlotOf(e.at))
              /\ poll \in 1 .. 4 /\ before \in 0 .. poll + 1
              /\ after = before + 1 \/ (after = poll + 2 /\ before >= poll - 1)
              /\ cycle' = before + 1
              /\ op \in BranchOffsetOps <=> before = poll - 1
              /\ op = "branch_apply" <=> before = poll
              /\ op = "branch_pgfix" <=> before = poll + 1
  <2>1. /\ SlotOf(microcode') = SlotOf(e.at) /\ IsBranch(SlotOf(e.at))
        /\ poll \in 1 .. 4 /\ before \in 0 .. poll + 1
        /\ after = before + 1 \/ (after = poll + 2 /\ before >= poll - 1)
        /\ cycle' = before + 1
    BY <1>2, <1>10, InStepAfterTick
  <2>2. /\ op \in BranchOffsetOps <=> before = poll - 1
        /\ op = "branch_apply" <=> before = poll
        /\ op = "branch_pgfix" <=> before = poll + 1
    BY <1>1, <2>1, BranchSequenceAssumption DEF BranchSequence
  <2>. QED
    BY <2>1, <2>2
<1>11. ASSUME Running(microcode'), microcode' \in Cursors
       PROVE  /\ next \in BranchOps => IsBranch(SlotOf(microcode'))
              /\ IsBranch(SlotOf(microcode')) =>
                   LET of == BranchCycle(SlotOf(microcode'))
                   IN  /\ next = "branch_apply" <=> after = of
                       /\ next = "branch_pgfix" <=> after = of + 1
                       /\ after <= of + 1 => Request(next, P', 0) # "fetch"
  BY <1>3, <1>11, BranchSequenceAssumption DEF BranchSequence
<1>12. op \in BranchOffsetOps => Samples(op, P, choice) /\ op # "branch_pgfix"
  BY DEF BranchOffsetOps, Samples, PrefetchOps
<1>13. op = "branch_pgfix" => Samples(op, P, choice)
  BY DEF Samples, PrefetchOps
<1>14. ASSUME next = "branch_apply" PROVE Winner(interrupts') = polls'[2]
  <2>1. before = poll - 1
    BY <1>9, <1>10, <1>11, <1>14 DEF BranchOps
  <2>. QED
    BY <1>6, <1>9, <1>10, <1>11, <1>12, <1>14, <2>1 DEF BranchOps
<1>15. ASSUME next = "branch_pgfix" PROVE Winner(interrupts') = polls'[1]
  <2>1. before = poll
    BY <1>9, <1>10, <1>11, <1>15 DEF BranchOps
  <2>. QED
    BY <1>7, <1>9, <1>10, <1>11, <1>15, <2>1 DEF BranchOps
<1>16. ASSUME Awaited(next, P'), next \notin BranchOps PROVE Winner(interrupts') \in Due'
  <2>1. Running(microcode') /\ microcode' \in Cursors
    BY <1>9, <1>16
  <2>2. next \notin {"dispatch", "vector_fetch", "fake_fetch"} /\ Request(next, P', 0) = "fetch"
    BY <1>16 DEF Awaited, BranchOps, Request, FetchOps
  <2>3. Samples(op, P, choice) \/ op = "branch_apply"
    BY <1>1, <1>2, <1>3, <1>16, PolledJustBeforeAssumption DEF PolledJustBefore
  <2>4. CASE ~IsBranch(SlotOf(microcode'))
    <3>1. op \in BranchOps => IsBranch(SlotOf(e.at)) /\ SlotOf(microcode') = SlotOf(e.at)
      BY <1>1, <1>2, BranchSequenceAssumption DEF BranchSequence
    <3>2. Winner(interrupts') = polls'[2]
      BY <1>6, <2>3, <2>4, <3>1 DEF BranchOps
    <3>. QED
      BY <2>2, <2>4, <3>2 DEF Due
  <2>5. CASE IsBranch(SlotOf(microcode'))
    <3>1. /\ SlotOf(microcode') = SlotOf(e.at) /\ poll \in 1 .. 4 /\ cycle' = before + 1
          /\ before \in {poll - 1, poll, poll + 1}
      BY <1>10, <1>11, <2>1, <2>2, <2>5
    <3>2. Due' = CASE cycle' - poll = 0 -> {polls'[2]}
                   [] cycle' - poll = 1 -> {polls'[1]}
                   [] cycle' - poll = 2 -> IF polls'[2] = "none" THEN {"none", "irq"}
                                           ELSE {polls'[2]}
      BY <2>2, <2>5, <3>1 DEF Due
    <3>. HIDE DEF poll, before
    <3>3. CASE before = poll - 1
      <4>1. Winner(interrupts') = polls'[2]
        BY <1>6, <1>10, <1>12, <2>1, <2>5, <3>3
      <4>. QED
        BY <3>1, <3>2, <3>3, <4>1
    <3>4. CASE before = poll
      <4>1. Winner(interrupts') = polls'[1]
        BY <1>7, <1>10, <2>1, <2>5, <3>4
      <4>. QED
        BY <3>1, <3>2, <3>4, <4>1
    <3>5. CASE before = poll + 1
      <4>1. \/ Winner(interrupts') = polls'[2]
            \/ polls'[2] = "none" /\ Winner(interrupts') = "irq"
        BY <1>6, <1>10, <1>13, <2>1, <2>5, <3>5
      <4>. QED
        BY <3>1, <3>2, <3>5, <4>1
    <3>. QED
      BY <3>1, <3>3, <3>4, <3>5
  <2>. QED
    BY <2>4, <2>5
<1>. QED
  BY <1>14, <1>15, <1>16 DEF WonOnTime

LEMMA TimeAfterTick ==
  ASSUME TypeOK, TypeOK', SeenIsLast, NEW e, Before(e.at), InStep(e.at),
         OpAt(e.at) = "branch_apply" => Winner(interrupts) = polls[2],
         NEW choice \in Choices(OpAt(e.at)), CycleOf(e, choice), Observe
  PROVE  TimeInv'
<1>1. e.at \in Nat /\ e.at \in Cursors /\ Running(e.at) /\ P \in SUBSET Flags
  BY BeforeInStore DEF TypeOK, ExecutionTypeOK
<1>2. Handler(e, choice)
  BY DEF CycleOf
<1>3. CASE Polling(e, choice) \/ GoingOn(e, choice)
  <2>1. microcode' \in Successors(e.at, P, choice)
    BY <1>3, NextOfContinue
  <2>2. OpAt(microcode') = "dispatch" => cycle' = 0
    <3>1. OpAt(microcode') = "dispatch" => Request(OpAt(e.at), P, 0) = "fetch"
      BY <1>1, <2>1, FirstCyclesApartAssumption DEF FirstCyclesApart
    <3>. QED
      BY <3>1, FetchesByHandler DEF Observe
  <2>3. Running(microcode') => InStep(microcode)'
    <3>1. IsBranch(SlotOf(microcode')) /\ Running(microcode') => InStep(microcode)'
      BY <1>2, <2>1, InStepAfterTick
    <3>. QED
      BY <3>1 DEF InStep
  <2>4. WonOnTime(microcode)'
    BY <1>2, <1>3, WonAfterGoingOn
  <2>. QED
    BY <2>2, <2>3, <2>4 DEF TimeInv
<1>4. CASE Entering(e, choice, SlotNmi) \/ Entering(e, choice, SlotIrq)
  <2>1. PICK slot \in {SlotNmi, SlotIrq} : microcode' = Index(slot, 0)
    BY <1>4 DEF Entering
  <2>2. SlotOf(microcode') = slot
    BY <2>1, SlotStarts DEF SlotNmi, SlotIrq
  <2>3. Running(microcode')
    BY <2>1, ClosedAssumption DEF Closed
  <2>4. ~IsBranch(slot) /\ ~Awaited(OpAt(microcode'), P')
    <3>1. P' \in SUBSET Flags /\ slot # SlotGoto
      BY DEF TypeOK, ExecutionTypeOK, SlotNmi, SlotIrq, SlotGoto
    <3>. QED
      BY <2>1, <3>1, FirstCyclesApartAssumption DEF FirstCyclesApart
  <2>5. OpAt(microcode') \notin {"branch_apply", "branch_pgfix"}
    BY <2>4 DEF Awaited
  <2>. QED
    BY <2>2, <2>3, <2>4, <2>5 DEF TimeInv, Running, InStep, WonOnTime
<1>. QED
  BY <1>3, <1>4 DEF CycleOf

(* The fetch that the cycle asks for is taken by who is due.               *)
LEMMA TickOnTime ==
  ASSUME TypeOK, RefinementInv, LedgerInv, TimeInv,
         NEW from, from = microcode \/ (GotoPoint /\ from = Index(SlotGoto, 0)),
         FastTick(from) \/ HijackedTick(from),
         tick' = "fetch", SlotOf(microcode') # SlotGoto
  PROVE  Entered \in Due
<1>1. PICK e \in Entries(from) : \E choice \in Choices(OpAt(e.at)) : CycleOf(e, choice)
  BY TickIsCycle
<1>2. PICK choice \in Choices(OpAt(e.at)) : CycleOf(e, choice)
  BY <1>1
<1>3. Before(e.at)
  BY EntryBefore
<1>4. e.at \in Cursors /\ Running(e.at) /\ P \in SUBSET Flags
  BY <1>3 DEF Before, TypeOK, ExecutionTypeOK
<1> DEFINE op == OpAt(e.at)
<1>5. Request(op, P, 0) = "fetch"
  BY <1>2, FetchesByHandler
<1>6. ~Samples(op, P, choice) /\ Left(e, choice) = Sensed
  BY <1>5, FetchersLeaveAll
<1>7. Winner(Left(e, choice)) = Winner(interrupts)
  BY <1>6, SensedBits DEF Winner, TakenBits
<1>8. CASE GoingOn(e, choice)
  <2>1. Winner(interrupts) = "none"
    BY <1>7, <1>8 DEF GoingOn, Winner, TakenBits
  <2>2. microcode' \in Successors(e.at, P, choice)
    BY <1>8, NextOfContinue
  <2>3. Entered = "none"
    BY <1>4, <2>2, FirstCyclesApartAssumption DEF FirstCyclesApart, Entered
  <2>4. e.at # Index(SlotGoto, 0)
    BY <1>4, <2>2, FirstCyclesApartAssumption DEF FirstCyclesApart
  <2>5. CASE OpAt(microcode) = "dispatch"
    BY <2>3, <2>5 DEF Due
  <2>6. CASE OpAt(microcode) # "dispatch"
    <3>1. e.at = microcode
      BY <2>4, <2>6, ClosedAssumption DEF Entries, Closed, Running
    <3>2. CASE op \in {"vector_fetch", "fake_fetch"}
      BY <2>3, <3>1, <3>2 DEF Due
    <3>3. CASE op \notin {"vector_fetch", "fake_fetch"}
      <4>1. Awaited(op, P) /\ op \notin BranchOps
        BY <1>5, <3>3 DEF Request, FetchOps, Awaited, BranchOps, BranchOffsetOps
      <4>. QED
        BY <2>1, <2>3, <3>1, <4>1 DEF TimeInv, WonOnTime
    <3>. QED
      BY <3>2, <3>3
  <2>. QED
    BY <2>5, <2>6
<1>9. CASE ~GoingOn(e, choice)
  <2>1. /\ Entered = Winner(interrupts)
        /\ Winner(interrupts) \in {"nmi", "irq"}
    <3>1. Index(SlotNmi, 0) # Index(SlotIrq, 0)
      BY DEF Index, MicrocodePerSlot, SlotNmi, SlotIrq
    <3>2. \/ Winner(interrupts) = "nmi" /\ microcode' = Index(SlotNmi, 0)
          \/ Winner(interrupts) = "irq" /\ microcode' = Index(SlotIrq, 0)
      BY <1>2, <1>6, <1>7, <1>9 DEF CycleOf, Polling, Entering
    <3>. QED
      BY <3>1, <3>2 DEF Entered
  <2>2. Awaited(OpAt(microcode), P)
    BY <2>1 DEF LedgerInv, WonIsAwaited, Winner, TakenBits
  <2>3. e.at = microcode
    BY <2>2 DEF Awaited, GotoPoint, Entries
  <2>4. op \notin BranchOps
    BY <1>5 DEF Request, FetchOps, BranchOps, BranchOffsetOps
  <2>. QED
    BY <2>1, <2>2, <2>3, <2>4 DEF TimeInv, WonOnTime
<1>. QED
  BY <1>8, <1>9

LEMMA TimeInitially ==
  /\ LedgerInit => TimeInv
  /\ TypeOK' /\ LedgerRestart => TimeInv'
<1>1. ~IsBranch(SlotInternalReset) /\ ~Awaited(OpAt(Index(SlotInternalReset, 0)), {})
  BY FirstCyclesApartAssumption DEF FirstCyclesApart, SlotGoto, SlotInternalReset
<1>2. SlotOf(Index(SlotInternalReset, 0)) = SlotInternalReset
  BY SlotStarts DEF SlotInternalReset
<1>3. /\ OpAt(Index(SlotInternalReset, 0)) # "dispatch"
      /\ OpAt(Index(SlotInternalReset, 0)) \notin {"branch_apply", "branch_pgfix"}
  BY <1>1, ClosedAssumption DEF Closed, Running, Awaited
<1>. QED
  BY <1>1, <1>2, <1>3
  DEF LedgerInit, Init, LedgerRestart, Restart, Restarted, TimeInv, InStep, WonOnTime

LEMMA TimeInvInductive ==
  ASSUME TypeOK, TypeOK', RefinementInv, LedgerInv, TimeInv, [PatientLedgerNext]_ledgerVars
  PROVE  TimeInv'
<1>1. ASSUME Observe, NEW from, from = microcode \/ (GotoPoint /\ from = Index(SlotGoto, 0)),
             FastTick(from) \/ HijackedTick(from)
      PROVE  TimeInv'
  <2>1. PICK e \in Entries(from) : \E choice \in Choices(OpAt(e.at)) : CycleOf(e, choice)
    BY <1>1, TickIsCycle
  <2>2. PICK choice \in Choices(OpAt(e.at)) : CycleOf(e, choice)
    BY <2>1
  <2>3. Before(e.at) /\ SeenIsLast
    BY <1>1, EntryBefore DEF LedgerInv
  <2>4. InStep(e.at) /\ (OpAt(e.at) = "branch_apply" => Winner(interrupts) = polls[2])
    BY <1>1, EntryInTime
  <2>. QED
    BY <1>1, <2>2, <2>3, <2>4, TimeAfterTick
<1>2. CASE LedgerTick
  BY <1>1, <1>2 DEF LedgerTick, Tick
<1>3. CASE LedgerGoto
  BY <1>1, <1>3 DEF LedgerGoto, Goto
<1>4. CASE LedgerRestart
  BY <1>4, TimeInitially
<1>5. CASE PatientLineChange
  <2>1. UNCHANGED <<microcode, P, polls, cycle>>
    BY <1>5 DEF PatientLineChange, LedgerLineChange, LineChange, NmiAssert, IrqAssert,
                execution, ledger
  <2>2. Winner(interrupts') = Winner(interrupts)
    BY <1>5 DEF PatientLineChange, LedgerLineChange, LineChange, NmiAssert, IrqAssert, Winner
  <2>. QED
    BY <2>1, <2>2 DEF TimeInv, InStep, WonOnTime, Due
<1>6. CASE UNCHANGED ledgerVars
  BY <1>6 DEF ledgerVars, TimeInv, InStep, WonOnTime, Due
<1>. QED
  BY <1>2, <1>3, <1>4, <1>5, <1>6 DEF PatientLedgerNext

(* An interrupt sequence displaces an opcode exactly when the lines asked  *)
(* for it in the cycle in which that instruction polls.                    *)
THEOREM TakenInTime == PatientLedgerSpec => TakenOnTime
<1>1. LedgerInit => TimeInv
  BY TimeInitially
<1>2. TypeOK /\ TypeOK' /\ RefinementInv /\ LedgerInv /\ TimeInv
        /\ [PatientLedgerNext]_ledgerVars => TimeInv'
  BY TimeInvInductive
<1>3. TypeOK /\ RefinementInv /\ LedgerInv /\ TimeInv /\ [PatientLedgerNext]_ledgerVars
        => [ tick' = "fetch" /\ microcode' # microcode /\ SlotOf(microcode') # SlotGoto
             => Entered \in Due ]_ledgerVars
  <2>. SUFFICES ASSUME TypeOK, RefinementInv, LedgerInv, TimeInv, PatientLedgerNext,
                       tick' = "fetch", microcode' # microcode, SlotOf(microcode') # SlotGoto
                PROVE  Entered \in Due
    OBVIOUS
  <2>1. CASE LedgerTick
    BY <2>1, TickOnTime DEF LedgerTick, Tick
  <2>2. CASE LedgerGoto
    BY <2>2, TickOnTime DEF LedgerGoto, Goto
  <2>3. CASE LedgerRestart
    BY <2>3 DEF LedgerRestart, Restart, Restarted
  <2>4. CASE PatientLineChange
    BY <2>4 DEF PatientLineChange, LedgerLineChange, LineChange, NmiAssert, IrqAssert, execution
  <2>. QED
    BY <2>1, <2>2, <2>3, <2>4 DEF PatientLedgerNext
<1>. QED
  BY <1>1, <1>2, <1>3, LedgerInvHolds, PTL DEF PatientLedgerSpec, TakenOnTime

-----------------------------------------------------------------------------
(* On CMOS, where nothing switches the detector off, every host is patient: *)
(* the account balances without a condition on the host.                   *)
THEOREM CmosLedger ==
  ASSUME Model \in {"wdc", "rw", "st"}
  PROVE  LedgerSpec => []NmiNeverForgotten /\ NmiIsEdge /\ TakenOnTime
<1>1. LedgerSpec => Spec
  <2>1. LedgerInit => Init
    BY DEF LedgerInit
  <2>2. [LedgerNext]_ledgerVars => [Next]_vars
    BY DEF LedgerNext, LedgerTick, LedgerGoto, LedgerRestart, LedgerLineChange, Next,
           ledgerVars, vars
  <2>. QED
    BY <2>1, <2>2, PTL DEF LedgerSpec, Spec
<1>2. Init => NeverDeaf
  BY DEF Init, NeverDeaf
<1>3. TypeOK /\ NeverDeaf /\ [Next]_vars => NeverDeaf'
  BY CmosStepNeverDeaf
<1>4. Spec => []NeverDeaf
  BY <1>2, <1>3, TypeCorrect, PTL DEF Spec
<1>5. NeverDeaf /\ [LedgerNext]_ledgerVars => [PatientLedgerNext]_ledgerVars
  BY DEF NeverDeaf, Deaf, LedgerNext, PatientLedgerNext, PatientLineChange
<1>6. LedgerSpec => PatientLedgerSpec
  BY <1>1, <1>4, <1>5, PTL DEF LedgerSpec, PatientLedgerSpec
<1>. QED
  BY <1>6, NmiKept, NmiEdgesOnly, TakenInTime, PTL
=============================================================================
