--------------------------- MODULE InstructionSet ---------------------------
(***************************************************************************)
(* What the documented NMOS instructions promise of addresses, bytes,      *)
(* cycles and the stack, said of whole instructions and of what memory     *)
(* holds, in the terms of the test tools' opcode table.  AddressPath gets  *)
(* there handler by handler through two latches that other instructions    *)
(* have used before.                                                       *)
(***************************************************************************)
EXTENDS AddressPath, OpcodeMetadata

(* The opcode whose microcode the cursor is in.                            *)
running == SlotOf(microcode)

metadata == NmosOpcodeMetadata(running)

(* The step is the last cycle of a documented opcode: it fetches the next. *)
Finishes ==
  /\ running \in OpcodeSlots
  /\ OpAt(microcode) # "dispatch"
  /\ tick' = "fetch"
  /\ SlotOf(microcode') # SlotGoto
  /\ metadata.legal_nmos

(* A byte of memory; one the core has not asked for makes every address    *)
(* that depends on it wrong.                                               *)
Unread == 99999
Peek(at) == IF at \in DOMAIN memory' THEN memory'[at] ELSE Unread

(* The two bytes after the opcode, and an address kept in the zero page.   *)
Operand == Peek((origin.PC + 1) % 65536)
OperandWord == Operand + 256 * Peek((origin.PC + 2) % 65536)
Pointer(at) == Peek(at % 256) + 256 * Peek((at + 1) % 256)

(* Addressing modes: the address before an index is added that may leave   *)
(* the page, and the index.                                                *)
Base ==
  CASE metadata.mode \in {"absolute_x", "absolute_y"} -> OperandWord
    [] metadata.mode = "indirect_indexed" -> Pointer(Operand)

EffectiveAddress ==
  CASE metadata.mode = "zero_page" -> Operand
    [] metadata.mode \in {"zero_page_x", "zero_page_y"} -> (Operand + index) % 256
    [] metadata.mode = "absolute" -> OperandWord
    [] metadata.mode = "indexed_indirect" -> Pointer(Operand + index)
    [] OTHER -> (Base + index) % 65536

BRK == 0
JSR == 32
RTI == 64
JMP == 76
RTS == 96
TXS == 154
JMP_indirect == 108
Pushes == {8, 72}       \* PHP, PHA
Pulls == {40, 104}      \* PLP, PLA
Jumps == {BRK, JSR, RTI, JMP, RTS, JMP_indirect}

(* Instructions with an operand in memory, and those that write it: the    *)
(* stores (STA, STX, STY), shifts, INC and DEC.                            *)
HasOperand(opcode) ==
  /\ NmosOpcodeMetadata(opcode).mode \notin
       {"illegal", "implied", "accumulator", "immediate", "relative", "indirect"}
  /\ opcode \notin Jumps

Writes(opcode) ==
  /\ HasOperand(opcode)
  /\ opcode \in 128..159 \/ (opcode % 8 = 6 /\ opcode \notin 160..191)

-----------------------------------------------------------------------------
(* The last access of an instruction to memory is to the address that its  *)
(* mode, the bytes after the opcode, the index and the pointers in the     *)
(* zero page say, whatever was left in the latches and wherever pages and  *)
(* the address space wrap.                                                 *)
OperandAddress ==
  [][ Finishes /\ HasOperand(running) => address = EffectiveAddress ]_pathVars

(* Where a branch with the operand it has may go on.                       *)
BranchTargets ==
  LET next == (origin.PC + 2) % 65536
      back == IF Operand >= 128 THEN 256 ELSE 0
  IN  {next, (next + Operand - back) % 65536}

(* An address on the stack, the n-th byte of which is pulled first.        *)
Pulled(n) ==
  Peek(256 + ((origin.S + n) % 256)) + 256 * Peek(256 + ((origin.S + n + 1) % 256))

NextPC ==
  CASE running \in {JSR, JMP} -> {OperandWord}
    [] running = JMP_indirect ->
         { Peek(OperandWord)
             + 256 * Peek(OperandWord - (OperandWord % 256) + ((OperandWord + 1) % 256)) }
    [] running = RTS -> {(Pulled(1) + 1) % 65536}
    [] running = RTI -> {Pulled(2)}
    [] running = BRK -> {Peek(65534) + 256 * Peek(65535)}
    [] metadata.mode = "relative" -> BranchTargets
    [] OTHER -> {(origin.PC + metadata.bytes) % 65536}

NextS ==
  CASE running = TXS -> index
    [] running \in Pushes -> (origin.S + 255) % 256
    [] running = JSR -> (origin.S + 254) % 256
    [] running = BRK -> (origin.S + 253) % 256
    [] running \in Pulls -> (origin.S + 1) % 256
    [] running = RTS -> (origin.S + 2) % 256
    [] running = RTI -> (origin.S + 3) % 256
    [] OTHER -> origin.S

(* The next opcode is fetched from where the instruction leads, with the   *)
(* stack pointer it leaves: no operand byte skipped or run as an opcode,   *)
(* JMP () with its pointer within one page, return addresses as JSR and    *)
(* BRK have pushed them.                                                   *)
NextInstruction ==
  [][ Finishes => /\ address' \in NextPC
                  /\ PC' = address'
                  /\ S' = NextS ]_pathVars

(* The return address JSR and BRK push, below the stack pointer and never  *)
(* out of page one.                                                        *)
ReturnFrame ==
  LET back == (origin.PC + 2) % 65536
  IN  (256 + origin.S :> back \div 256)
        @@ (256 + ((origin.S + 255) % 256) :> back % 256)

Expected ==
  CASE Writes(running) -> (EffectiveAddress :> "data")
    [] running \in Pushes -> (256 + origin.S :> "data")
    [] running = JSR -> ReturnFrame
    [] running = BRK -> ReturnFrame @@ (256 + ((origin.S + 254) % 256) :> "data")
    [] OTHER -> <<>>

(* An instruction writes what it should, where it should, and nothing      *)
(* else: no store reaches the address whose page has not been corrected    *)
(* yet, and no read becomes a write.                                       *)
WritesInPlace == [][ Finishes => written' = Expected ]_pathVars

(* The cycles a page crossed or a branch taken adds.                       *)
ExtraCycles ==
  LET next == (origin.PC + 2) % 65536
  IN  CASE metadata.mode = "relative" /\ PC' # next ->
             {IF PC' \div 256 = next \div 256 THEN 1 ELSE 2}
        [] metadata.mode = "relative" /\ PC' = next -> IF Operand = 0 THEN {0, 1} ELSE {0}
        [] metadata.extra = 1 -> {IF EffectiveAddress \div 256 = Base \div 256 THEN 0 ELSE 1}
        [] OTHER -> {0}

(* Between the fetch of a documented opcode and the next fetch lie as many *)
(* cycles as the table says, and one more exactly if a read crosses a page *)
(* or a branch is taken, two if it is taken across a page.                 *)
InstructionCycles ==
  [][ Finishes => Len(trace) + 1 - metadata.cycles \in ExtraCycles ]_pathVars
=============================================================================
