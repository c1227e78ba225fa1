-------------------------- MODULE MCCmosInterrupts --------------------------
(***************************************************************************)
(* InterruptLedger for TLC on CMOS: BRK, a one-cycle NOP, BBR, an indexed  *)
(* read, PLP, CLI, SEI, BRA, ADC with and without a page to cross, SED.    *)
(***************************************************************************)
EXTENDS InterruptLedger, PollTiming

CmosOpcodes == { \h00, \h03, \h0F, \h11, \h28, \h58, \h78, \h80, \h71, \h69, \hF8 }
=============================================================================
