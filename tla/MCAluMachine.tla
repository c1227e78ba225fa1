---------------------------- MODULE MCAluMachine ----------------------------
EXTENDS AluMachine

(* Digits and halves at their limits.                                      *)
EdgeOperands == {\h00, \h01, \h09, \h10, \h80, \h99}
=============================================================================
