---------------------------- MODULE MCInterrupts ----------------------------
(***************************************************************************)
(* InterruptLedger for TLC on NMOS.  The opcodes are those that differ in  *)
(* how they poll, touch the I flag, push or fetch: BRK, a plain            *)
(* instruction of two cycles, branches, PLP, CLI, SEI, an indexed read,    *)
(* JSR, KIL, an undocumented RMW.                                          *)
(***************************************************************************)
EXTENDS InterruptLedger

NmosOpcodes == { \h00, \h09, \h10, \h11, \h02, \h03, \h28, \h58, \h78, \h20 }

(* Programs in which every instruction lets an NMI in: without KIL.        *)
NmosPollingOpcodes == { \h00, \h03, \h09, \h10, \h28, \h58, \h78 }
=============================================================================
