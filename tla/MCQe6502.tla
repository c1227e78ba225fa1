------------------------------ MODULE MCQe6502 ------------------------------
(***************************************************************************)
(* Qe6502 for TLC, with one opcode for each sequence of micro-operations   *)
(* that the model's control store contains: two opcodes with the same      *)
(* sequence are the same as far as this state is concerned.                *)
(***************************************************************************)
EXTENDS BusTrace, PollTiming

NmosOpcodes ==
  { \h00, \h01, \h02, \h03, \h04, \h06, \h08, \h09, \h0A, \h0C, \h0E, \h10, \h11, \h14,
    \h16, \h19, \h1B, \h20, \h28, \h40, \h4C, \h58, \h60, \h68, \h6C, \h78, \h81, \h84,
    \h8C, \h94, \h99, \hD8, \hF8 }

ASSUME OneOfEachSequence ==
  \A slot \in OpcodeSlots : \E opcode \in Opcodes : Store[opcode] = Store[slot]
=============================================================================
