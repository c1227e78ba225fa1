----------------------------- MODULE Sequencing -----------------------------
(***************************************************************************)
(* What holds of every sequence in the control store, model by model: the  *)
(* order of micro-operations that the interrupt logic relies on and no C   *)
(* code checks.  TLC evaluates these assumptions over the whole store of   *)
(* the model it runs with; the proofs take them from here.                 *)
(***************************************************************************)
EXTENDS Microcode

Cursors == 0 .. Index(SlotIrq, MicrocodePerSlot - 1)

(* A cursor at which qe6502_tick() runs a handler of this very entry.      *)
Running(at) == OpAt(at) \notin {"empty", "dispatch"}

(* Where the handler at `at' may leave the cursor.                         *)
Successors(at, flags, choice) ==
  { NextMicrocode(at, flags, choice, winner, count) :
      winner \in {"none", "nmi", "irq"}, count \in {0, 8} }

-----------------------------------------------------------------------------
(* No sequence runs on into an entry that no .inc file fills.              *)
Closed ==
  /\ \A slot \in OpcodeSlots \cup {SlotInternalReset, SlotGoto, SlotNmi, SlotIrq} :
       Running(Index(slot, 0))
  /\ \A at \in Cursors, flags \in SUBSET Flags :
       Running(at) => \A choice \in Choices(OpAt(at)) :
         \A next \in Successors(at, flags, choice) : OpAt(next) # "empty"

(* The handlers that may find an interrupt won and not yet entered.        *)
Awaited(op, flags) ==
  \/ op \in { "fetch", "fetch_ext", "jump_fetch", "plp_fetch", "branch_apply", "branch_pgfix" }
  \/ op = "adc_or_dummy" /\ "D" \notin flags

(* A cycle that polls is followed by the fetch that an interrupt may take; *)
(* only a branch comes in between.                                         *)
PollsBeforeFetch ==
  \A at \in Cursors, flags \in SUBSET Flags :
    LET op == OpAt(at)
    IN  Running(at) => \A choice \in Choices(op) :
          Samples(op, flags, choice) \/ (Awaited(op, flags) /\ Request(op, flags, 0) # "fetch")
            => \A next \in Successors(at, flags, choice) :
                 Awaited(OpAt(next), FlagsAfter(op, flags, choice))

(* The cycles of the NMI sequence until its vector has been read.          *)
InService(at) ==
  SlotOf(at) = SlotNmi /\ OpAt(at) \notin {"vector_fetch", "dispatch", "empty"}

(* The two cycles of the NMOS sequence that read the vector.               *)
NmosVectorCycle(at) ==
  \/ OpAt(at) = "nmi_vec_hi"
  \/ OpAt(at) = "nmi_vec_lo" /\ OpAt(at + 1) = "nmi_vec_hi"

NmiVectorHighOps == {"nmi_vec_hi", "cmos_nmi_vec_hi"}

NmiOps == {"nmi_push_p", "cmos_nmi_push_p", "nmi_vec_lo"} \cup NmiVectorHighOps

(* The NMI sequence is entered at its first cycle, or by a status push that *)
(* NMI hijacks, and left after its vector has been read.                   *)
NmiSequence ==
  /\ InService(Index(SlotNmi, 0)) /\ ~NmosVectorCycle(Index(SlotNmi, 0))
  /\ InService(MiddleOf(SlotNmi))
  /\ \A at \in Cursors : InService(at) =>
       /\ OpAt(at) \in {"read", "push_pc_high", "push_pc_low"} \cup NmiOps
       /\ IF OpAt(at) \in NmiVectorHighOps THEN OpAt(at + 1) = "vector_fetch"
                                           ELSE InService(at + 1)
       /\ NmosVectorCycle(at + 1) => OpAt(at) = "nmi_push_p" \/ NmosVectorCycle(at)
  /\ \A at \in Cursors, flags \in SUBSET Flags :
       Running(at) /\ ~InService(at) => \A choice \in Choices(OpAt(at)) :
         /\ OpAt(at) \notin {"push_status_b", "irq_push_p"} =>
              \A next \in Successors(at, flags, choice) : ~InService(next)
         /\ \A winner \in {"none", "irq"}, count \in {0, 8} :
              ~InService(NextMicrocode(at, flags, choice, winner, count))

(* Its handlers are run, and its vector is read, nowhere else; the handler *)
(* that ends the CMOS IRQ sequence is not either.                          *)
SequencesApart ==
  \A at \in Cursors :
    /\ OpAt(at) \in NmiOps => InService(at)
    /\ OpAt(at) = "cmos_irq_vec_hi" => SlotOf(at) = SlotIrq /\ Model \in {"wdc", "rw", "st"}

(* The handlers that switch the edge detector off, and the cycles in which *)
(* it is off.                                                              *)
DeafeningOps == {"push_status_b", "irq_push_p", "nmi_push_p"}

(* A jam reads $FFFE too, but not as the first half of a vector.           *)
DeafCycle(at) ==
  \/ OpAt(at) \in {"nmi_vec_lo", "irq_vec_lo", "nmi_vec_hi", "irq_vec_hi", "brk_vec_hi"}
  \/ OpAt(at) = "read_fffe" /\ OpAt(at + 1) = "brk_vec_hi"

(* On NMOS a status push is followed by two vector reads, the second of    *)
(* which switches the detector on; on CMOS nothing switches it off.        *)
DeafUntilVector ==
  /\ \A at \in Cursors : OpAt(at) \in DeafeningOps =>
       /\ Model \in {"nmos", "nes"}
       /\ \A flags \in SUBSET Flags, choice \in Choices(OpAt(at)) :
            \A next \in Successors(at, flags, choice) : DeafCycle(next)
  /\ Model \in {"nmos", "nes"} =>
       \A at \in Cursors : DeafCycle(at) /\ OpAt(at) \in {"nmi_vec_lo", "irq_vec_lo", "read_fffe"}
         => OpAt(at + 1) \in {"nmi_vec_hi", "irq_vec_hi", "brk_vec_hi"}

(* An upper bound on the cycles from `at' to the next opcode fetch or jam.  *)
(* BRK, IRQ and the first slot of the reset go on in a slot of their own.  *)
CyclesToFetch(at) ==
  (IF SlotOf(at) \in {0, SlotReset0, SlotIrq} THEN 16 ELSE 8) - (at % 8)

(* Every sequence runs towards a fetch or a jam; what follows a fetch, or  *)
(* anything else, is never the wait of the internal reset.                 *)
EndsInFetch ==
  \A at \in Cursors, flags \in SUBSET Flags :
    LET op == OpAt(at)
    IN  Running(at) /\ op # "internal_reset" => \A choice \in Choices(op) :
          \A next \in Successors(at, flags, choice) :
            /\ OpAt(next) # "internal_reset"
            /\ \/ Request(op, flags, 0) \in {"fetch", "jammed"}
               \/ Running(next) /\ CyclesToFetch(next) < CyclesToFetch(at)

(* The internal reset has a slot of its own; the sequence it starts asks   *)
(* for an opcode in its second cycle, in vain, and then in its last.       *)
ResetSequence ==
  /\ \A at \in Cursors : OpAt(at) = "internal_reset" <=> at = Index(SlotInternalReset, 0)
  /\ OpAt(Index(SlotReset0, 1)) = "fake_fetch"
  /\ \A cycle \in {0, 2, 3, 4, 5, 6, 7} :
       OpAt(Index(SlotReset0, cycle)) \in {"read", "reset_vec_lo", "reset_vec_hi"}
  /\ OpAt(Index(SlotReset0, 8)) = "vector_fetch"

BranchOffsetOps == {"branch_offset", "bra_offset"}

BranchOps == BranchOffsetOps \cup {"branch_apply", "branch_pgfix"}

IsBranch(slot) ==
  \E i \in DOMAIN Store[slot] : Store[slot][i] = "branch_apply"

(* The cycle of a branch in which it reads its offset.                     *)
BranchCycle(slot) ==
  CHOOSE i \in DOMAIN Store[slot] : Store[slot][i] \in BranchOffsetOps

(* A branch reads its offset, applies it and corrects the page in cycles   *)
(* of this order, runs straight on but for the last two, which it may      *)
(* skip, and then fetches.  No other sequence has or reaches these cycles. *)
BranchSequence ==
  \A at \in Cursors, flags \in SUBSET Flags : Running(at) =>
    LET op   == OpAt(at)
        slot == SlotOf(at)
        poll == BranchCycle(slot)
        position == at % MicrocodePerSlot
    IN  /\ op \in BranchOps => IsBranch(slot)
        /\ IsBranch(slot) =>
             /\ poll \in 1 .. 4
             /\ op \in BranchOffsetOps <=> position = poll - 1
             /\ op = "branch_apply" <=> position = poll
             /\ op = "branch_pgfix" <=> position = poll + 1
             /\ position <= poll + 1
                  => Request(op, flags, 0) \notin {"fetch", "jammed", "internal_reset"}
        /\ \A choice \in Choices(op) : \A next \in Successors(at, flags, choice) :
             LET after == next % MicrocodePerSlot
             IN  /\ op \in BranchOps => SlotOf(next) = slot
                 /\ Running(next) /\ IsBranch(SlotOf(next)) =>
                      /\ SlotOf(next) = slot
                      /\ position <= poll + 1
                      /\ \/ after = position + 1
                         \/ after = poll + 2 /\ position >= poll - 1

(* The cursor comes to a dispatch by an opcode fetch only, and to the      *)
(* first cycle of an interrupt sequence by no handler; the service of      *)
(* qe6502_goto() keeps to its own slot.                                    *)
FirstCyclesApart ==
  /\ \A slot \in {SlotInternalReset, SlotGoto, SlotNmi, SlotIrq} :
       /\ ~IsBranch(slot)
       /\ \A flags \in SUBSET Flags : slot # SlotGoto => ~Awaited(OpAt(Index(slot, 0)), flags)
  /\ \A at \in Cursors, flags \in SUBSET Flags : Running(at) =>
       \A choice \in Choices(OpAt(at)) : \A next \in Successors(at, flags, choice) :
         /\ next \notin {Index(SlotNmi, 0), Index(SlotIrq, 0)}
         /\ OpAt(next) = "dispatch" => Request(OpAt(at), flags, 0) = "fetch"
         /\ at = Index(SlotGoto, 0) => SlotOf(next) = SlotGoto

SlotBrk == 0
SlotJsr == \h20

(* The sequences that push a status and read a vector.                     *)
FrameSlots == {SlotBrk, SlotNmi, SlotIrq}

(* These, and JSR, run straight on from their first cycle; nothing else    *)
(* leads into the middle of one but the status push of another.            *)
StraightIntoFrames ==
  \A at \in Cursors, flags \in SUBSET Flags : Running(at) =>
    \A choice \in Choices(OpAt(at)) : \A next \in Successors(at, flags, choice) :
      SlotOf(next) \in FrameSlots \cup {SlotJsr} =>
        \/ SlotOf(next) = SlotOf(at) /\ next % MicrocodePerSlot = (at % MicrocodePerSlot) + 1
        \/ /\ SlotOf(at) \in FrameSlots /\ at % MicrocodePerSlot = 3
           /\ next \in {MiddleOf(SlotNmi), MiddleOf(SlotIrq)}

(* What they ask of the bus, cycle by cycle.                               *)
FrameCycles ==
  /\ \A slot \in FrameSlots, flags \in SUBSET Flags :
       LET request(cycle) == Request(OpAt(Index(slot, cycle)), flags, 0)
       IN  /\ OpAt(Index(slot, 0)) = IF slot = SlotBrk THEN "read_inc" ELSE "read"
           /\ OpAt(Index(slot, 1)) = "push_pc_high"
           /\ OpAt(Index(slot, 2)) = "push_pc_low"
           /\ request(3) \in {"push_status_b0", "push_status_b1"}
           /\ request(4) = IF slot = SlotNmi THEN "fffa" ELSE "fffe"
           /\ request(5) = IF slot = SlotNmi THEN "fffb" ELSE "ffff"
  /\ OpAt(Index(SlotJsr, 0)) = "read_inc"
  /\ OpAt(Index(SlotJsr, 1)) = "read"
  /\ OpAt(Index(SlotJsr, 2)) = "push_pc_high"
  /\ \A at \in Cursors :
       /\ OpAt(at) = "push_pc_low" =>
            \/ SlotOf(at) \in FrameSlots /\ at % MicrocodePerSlot = 2
            \/ SlotOf(at) = SlotJsr /\ at % MicrocodePerSlot = 3
       /\ OpAt(at) = "vector_fetch" =>
            \/ SlotOf(at) \in FrameSlots /\ at % MicrocodePerSlot = 6
            \/ SlotOf(at) = SlotReset1

ASSUME ClosedAssumption == Closed
ASSUME PollsBeforeFetchAssumption == PollsBeforeFetch
ASSUME NmiSequenceAssumption == NmiSequence
ASSUME SequencesApartAssumption == SequencesApart
ASSUME DeafUntilVectorAssumption == DeafUntilVector
ASSUME EndsInFetchAssumption == EndsInFetch
ASSUME ResetSequenceAssumption == ResetSequence
ASSUME BranchSequenceAssumption == BranchSequence
ASSUME FirstCyclesApartAssumption == FirstCyclesApart
ASSUME StraightIntoFramesAssumption == StraightIntoFrames
ASSUME FrameCyclesAssumption == FrameCycles
=============================================================================
