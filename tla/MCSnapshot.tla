----------------------------- MODULE MCSnapshot -----------------------------
(***************************************************************************)
(* Snapshot for TLC: an ADC with a decimal cycle behind a page crossing,   *)
(* BRK, and RTI, which sets the I and D flags to anything.                 *)
(***************************************************************************)
EXTENDS Snapshot, PollTiming

SnapshotOpcodes == {\h00, \h40, \h7D}
=============================================================================
