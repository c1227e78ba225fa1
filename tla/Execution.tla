----------------------------- MODULE Execution -----------------------------
(***************************************************************************)
(* What running one microcode handler does to the state of the core that   *)
(* is not about interrupt lines.  Qe6502 and PolledCore both run it; they  *)
(* differ in when they look at the lines.                                  *)
(***************************************************************************)
EXTENDS Sequencing

CONSTANT Opcodes    \* the opcodes memory may hold; a part of OpcodeSlots

ASSUME OpcodesAssumption == Opcodes \subseteq OpcodeSlots

VARIABLES
  microcode,   \* qe6502_t.microcode, without the model number
  P,           \* the I and D flags of qe6502_t.P
  latch_data,  \* qe6502_t.latch_data while it counts the internal reset
  advance,     \* PC minus the address of the last opcode fetched, as long
               \* as control does not transfer
  tick         \* the bus request returned last

execution == <<microcode, P, latch_data, advance, tick>>

-----------------------------------------------------------------------------
(* Mutant: the dispatch does not increment PC.                             *)
EntriesWithoutIncrement(from) ==
  IF OpAt(from) = "dispatch"
  THEN { [at |-> Index(opcode, 0), advance |-> 0] : opcode \in Opcodes }
  ELSE IF OpAt(from) = "empty" THEN {} ELSE { [at |-> from, advance |-> advance] }

(* The handler that runs when the cursor stands at `from', and PC's advance *)
(* when it starts: mc_dispatch moves the cursor to the slot of the opcode  *)
(* on the bus, increments PC and runs the first handler of that slot in    *)
(* the same tick.                                                          *)
Entries(from) ==
  IF OpAt(from) = "dispatch"
  THEN { [at |-> Index(opcode, 0), advance |-> 1] : opcode \in Opcodes }
  ELSE IF OpAt(from) = "empty"
       THEN {}
       ELSE { [at |-> from, advance |-> advance] }

(* What the handler at entry e does to everything but the cursor, the      *)
(* interrupt word and the hijack flag.                                     *)
Handler(e, choice) ==
  LET op    == OpAt(e.at)
      count == IF op = "internal_reset" THEN latch_data + 1 ELSE latch_data
  IN  /\ P' = FlagsAfter(op, P, choice)
      /\ latch_data' = count
      /\ tick' = Request(op, P, count)
      /\ advance' = CASE tick' = "fetch" -> 0
                      [] tick' # "fetch" /\ op \in AdvanceOps -> e.advance + 1
                      [] OTHER -> e.advance

(* The cursor after the handler, if it found `ints' in the interrupt word. *)
Continue(e, ints, choice) ==
  NextMicrocode(e.at, P, choice, Winner(FindActiveInterrupt(ints, P)), latch_data')

(* What qe6502_restart() leaves, in any state it is called in.             *)
Restarted ==
  [ microcode |-> Index(SlotInternalReset, 0), P |-> {}, latch_data |-> 0,
    advance |-> 0, tick |-> "internal_reset" ]

ExecutionTypeOK ==
  /\ microcode \in Nat
  /\ P \subseteq Flags
  /\ latch_data \in Nat
  /\ advance \in Nat
  /\ tick \in Requests
=============================================================================
