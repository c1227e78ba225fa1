--------------------------- MODULE MCInstructionSet ---------------------------
(* InstructionSet with every documented NMOS opcode and the bytes at which *)
(* sums carry, pages end and signs change.                                 *)
EXTENDS InstructionSet, PollTiming

Documented == { opcode \in OpcodeSlots : NmosOpcodeMetadata(opcode).legal_nmos }

EdgeBytes == {0, 127, 128, 255}

EdgeIndexes == {0, 1, 255}

(* The middle of a page, its end, and the end of memory; both ends of the  *)
(* stack; and latches that were left empty or full.                        *)
EdgeContexts ==
  { [PC |-> 4096,  S |-> 128, P |-> {}, latch_addr |-> 4660,  latch_data |-> 1],
    [PC |-> 4349,  S |-> 255, P |-> {}, latch_addr |-> 0,     latch_data |-> 0],
    [PC |-> 65534, S |-> 0,   P |-> {}, latch_addr |-> 65535, latch_data |-> 255] }
=============================================================================
