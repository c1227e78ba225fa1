------------------------------ MODULE Microcode ------------------------------
(***************************************************************************)
(* The microcode handlers of the qe6502 core (mc_* and op_* in qe6502.c),  *)
(* reduced to what they do to the control state: where the microcode       *)
(* cursor goes, whether the cycle samples the interrupt lines, which of    *)
(* the I and D flags change, whether PC advances, and what is asked of the *)
(* bus.  Handlers that differ only in data (the ALU, the registers, how an *)
(* effective address is put together) are one micro-operation.             *)
(*                                                                         *)
(* Microcode indices are those of the C code within one model block: slot  *)
(* * 8 + cycle, slots 0..255 for opcodes and 256.. for services.           *)
(***************************************************************************)
EXTENDS InterruptLines, ControlStore

CONSTANT Model      \* qe6502_t.model: which block of the control store is used

ASSUME ModelAssumption == Model \in Models

Store == StoreOf(Model)

MicrocodePerSlot == 8

(* QE6502_IDX within a model block.                                        *)
Index(slot, cycle) == slot * MicrocodePerSlot + cycle

SlotOf(at) == at \div MicrocodePerSlot

(* The handler stored at an index; an entry no .inc file names is NULL.    *)
OpAt(at) ==
  LET cycle == at % MicrocodePerSlot
  IN  IF SlotOf(at) \in OpcodeSlots \cup ServiceSlots /\ cycle < Len(Store[SlotOf(at)])
      THEN Store[SlotOf(at)][cycle + 1]
      ELSE "empty"

-----------------------------------------------------------------------------
(* Micro-operations by what they have in common.                           *)

(* Mutant: CLI does not poll.                                              *)
PrefetchOpsWithoutCli ==
  { "read_pf", "read_inc_pf", "write_pf", "push_pf", "pull_pf", "jump_pf",
    "branch_offset", "bra_offset", "branch_pgfix", "sei", "cld", "sed" }

(* Handlers that call prefetch() whatever the data.                        *)
PrefetchOps ==
  { "read_pf", "read_inc_pf", "write_pf", "push_pf", "pull_pf", "jump_pf",
    "branch_offset", "bra_offset", "branch_pgfix", "cli", "sei", "cld", "sed" }

(* Handlers that call prefetch() only when D is clear: the last operand    *)
(* read of a CMOS ADC or SBC, which takes one cycle more in decimal mode.  *)
BinaryPrefetchOps == {"read_pf_binary", "read_inc_pf_binary"}

(* Reads at base + index that skip the fix-up cycle if no page is crossed. *)
ProbeOps == {"probe", "cmos_probe", "cmos_rmw_probe", "cmos_decimal_probe"}

(* Handlers that ask for the next opcode (tick status opcode_fetch).       *)
FetchOps ==
  { "fetch", "fetch_ext", "fake_fetch", "plp_fetch", "vector_fetch",
    "jump_fetch" }

(* Handlers that advance PC past an instruction byte.                      *)
AdvanceOps ==
  { "read_inc", "read_inc_pf", "read_inc_pf_binary", "branch_offset",
    "bra_offset", "cmos_probe", "cmos_rmw_probe", "cmos_decimal_probe",
    "dispatch" }

(* What the byte on the bus, or the address it completes, may decide: a    *)
(* branch taken, a page crossed, the flags pulled from the stack.  A choice *)
(* is the set of the things that come out true.                            *)
Choices(op) ==
  SUBSET CASE op = "branch_offset" -> {"taken"}
           [] op \in ProbeOps \cup {"branch_apply"} -> {"crossed"}
           [] op \in {"pull_status", "plp_fetch"} -> Flags
           [] OTHER -> {}

(* Does the handler set the sampling bit?                                  *)
Samples(op, flags, choice) ==
  \/ op \in PrefetchOps
  \/ op \in BinaryPrefetchOps /\ "D" \notin flags
  \/ op = "adc_or_dummy" /\ "D" \in flags
  \/ op \in {"probe", "cmos_probe"} /\ "crossed" \notin choice
  \/ op = "cmos_decimal_probe" /\ "crossed" \notin choice /\ "D" \notin flags

(* The I and D flags a handler leaves.                                     *)
FlagsAfter(op, flags, choice) ==
  CASE op = "cli" -> flags \ {"I"}
    [] op \in {"sei", "reset_vec_hi", "brk_vec_hi", "nmi_vec_hi", "irq_vec_hi"} ->
         flags \cup {"I"}
    [] op \in {"cmos_brk_vec_hi", "cmos_nmi_vec_hi", "cmos_irq_vec_hi"} ->
         (flags \cup {"I"}) \ {"D"}
    [] op = "cld" -> flags \ {"D"}
    [] op = "sed" -> flags \cup {"D"}
    [] op \in {"pull_status", "plp_fetch"} -> choice
    [] OTHER -> flags

(* The interrupt word a handler leaves.                                    *)
InterruptsAfter(op, ints, flags, choice) ==
  CASE op \in {"push_status_b", "irq_push_p"} -> NmosPushStatus(ints, flags)
    [] op = "nmi_push_p" -> NmosNmiPushStatus(ints, flags)
    [] op \in {"brk_vec_hi", "irq_vec_hi"} -> NmosVectorHigh(ints)
    [] op = "nmi_vec_hi" -> NmosNmiVectorHigh(ints)
    [] op = "cmos_nmi_push_p" -> CmosNmiPushStatus(ints)
    [] op = "cmos_irq_push_p" -> CmosIrqPushStatus(ints)
    [] op \in {"cmos_nmi_vec_hi", "cmos_irq_vec_hi"} -> CmosVectorHigh(ints)
    [] Samples(op, flags, choice) -> Prefetch(ints)
    [] OTHER -> ints

(* How many cycles of its sequence a handler skips, on top of the          *)
(* increment of the cursor that follows every handler call.                *)
Ahead(op, flags, choice) ==
  CASE op = "branch_offset" /\ "taken" \notin choice -> 2
    [] op \in ProbeOps \cup {"branch_apply"} /\ "crossed" \notin choice -> 1
    [] op = "adc_or_dummy" /\ "D" \notin flags -> 1
    [] OTHER -> 0

(* Handlers that undo that increment (loop_here): a jam, and the internal  *)
(* reset until it has counted to `count' = 8.                              *)
LoopsHere(op, count) ==
  \/ op = "kil_jam"
  \/ op = "internal_reset" /\ count # 8

(* Mutant: the sequence is entered a cycle late.                           *)
MiddleOfLate(slot) == Index(slot, 5)

(* Where a status push that an interrupt has hijacked goes on: at the low  *)
(* byte of that interrupt's vector, past the pushes already made.          *)
MiddleOf(slot) == Index(slot, 4)

(* The microcode index after the handler at `at' and the increment.        *)
(* `winner' is who won the arbitration inside an NMOS status push, `count' *)
(* the ticks of the reset countdown so far.                                *)
NextMicrocode(at, flags, choice, winner, count) ==
  LET op == OpAt(at)
  IN  CASE op \in {"push_status_b", "irq_push_p"} /\ winner = "nmi" -> MiddleOf(SlotNmi)
        [] op = "push_status_b" /\ winner = "irq" -> MiddleOf(SlotIrq)
        [] op = "fetch_ext" -> Index(SlotIllegalExt, 0)
        [] op = "internal_reset" /\ count = 8 -> Index(SlotReset0, 0)
        [] LoopsHere(op, count) -> at
        [] OTHER -> at + 1 + Ahead(op, flags, choice)

(* The bus request of the tick, by what the host can tell it apart by.     *)
Request(op, flags, count) ==
  CASE op \in FetchOps \/ (op = "adc_or_dummy" /\ "D" \notin flags) -> "fetch"
    [] op \in {"push_pc_high", "push_pc_low"} -> op
    [] op \in {"push_status_b", "cmos_push_status_b"} -> "push_status_b1"
    [] op \in {"nmi_push_p", "irq_push_p", "cmos_nmi_push_p", "cmos_irq_push_p"} ->
         "push_status_b0"
    [] op = "nmi_vec_lo" -> "fffa"
    [] op \in {"nmi_vec_hi", "cmos_nmi_vec_hi"} -> "fffb"
    [] op = "reset_vec_lo" -> "fffc"
    [] op = "reset_vec_hi" -> "fffd"
    [] op \in {"irq_vec_lo", "read_fffe"} -> "fffe"
    [] op \in {"irq_vec_hi", "cmos_irq_vec_hi", "brk_vec_hi", "cmos_brk_vec_hi",
               "read_ffff"} -> "ffff"
    [] op = "kil_jam" -> "jammed"
    [] op = "internal_reset" /\ count # 8 -> "internal_reset"
    [] op \in {"write", "write_pf", "push_pf"} -> "write"
    [] OTHER -> "read"

Requests ==
  { "fetch", "read", "write", "push_pc_high", "push_pc_low", "push_status_b0",
    "push_status_b1", "fffa", "fffb", "fffc", "fffd", "fffe", "ffff", "jammed",
    "internal_reset" }
=============================================================================
