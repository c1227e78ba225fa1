--------------------------- MODULE MCInstructionCpu ---------------------------
(***************************************************************************)
(* InstructionPromises for TLC: opcodes that differ in how they poll,      *)
(* change I, push, jump or stop; counts of either sign.                    *)
(***************************************************************************)
EXTENDS InstructionPromises

AdapterOpcodes ==
  { \h00, \h02, \h03, \h06, \h08, \h10, \h19, \h1B, \h20, \h28, \h40, \h4C, \h58, \h78 }

AdapterCounts == {-1, 0, 1, 2}
=============================================================================
