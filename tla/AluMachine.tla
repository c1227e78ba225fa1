----------------------------- MODULE AluMachine -----------------------------
(***************************************************************************)
(* The accumulator and the flags under programs of arithmetic              *)
(* instructions, for every model, and what such programs may rely on: the  *)
(* properties look at each state a program can reach and try every operand *)
(* there.                                                                  *)
(***************************************************************************)
EXTENDS Alu

CONSTANT Operands   \* the operands the programs use; a bound

ASSUME OperandsAssumption == Operands \subseteq Bytes

VARIABLES
  model,      \* which ADC and SBC the control store holds
  A, P        \* qe6502_t.A, and C, Z, D, V and N of qe6502_t.P

aluVars == <<model, A, P>>

Becomes(cpu) == A' = cpu.A /\ P' = cpu.P /\ UNCHANGED model

Arith ==
  \E value \in Operands :
    Becomes(Adc(model, A, P, value)) \/ Becomes(Sbc(model, A, P, value))

Cmp == \E value \in Operands : P' = Compare(A, P, value) /\ UNCHANGED <<model, A>>

Shift ==
  \/ Becomes(Asl(A, P)) \/ Becomes(Lsr(A, P))
  \/ Becomes(Rol(A, P)) \/ Becomes(Ror(A, P))

(* CLC, SEC, CLD, SED and CLV.                                             *)
SetFlag ==
  /\ \/ \E flag \in {"C", "D"} : P' \in {P \cup {flag}, P \ {flag}}
     \/ P' = P \ {"V"}
  /\ UNCHANGED <<model, A>>

(* After qe6502_restart(): P has Z only.                                   *)
AluInit == model \in {"nmos", "nes", "cmos"} /\ A = 0 /\ P = {"Z"}

AluNext == Arith \/ Cmp \/ Shift \/ SetFlag

AluSpec == AluInit /\ [][AluNext]_aluVars

-----------------------------------------------------------------------------
Decimal == "D" \in P /\ model # "nes"

Bcd(byte) == High(byte) < 10 /\ Low(byte) < 10
Value(byte) == High(byte) * 10 + Low(byte)

(* In decimal mode, ADC on two packed decimal numbers gives the packed     *)
(* digits of their sum and its carry, which is what adding numbers of more *)
(* digits byte by byte relies on.  The CMOS models set N and Z by the      *)
(* result; the NMOS model sets Z by the binary sum.                        *)
DecimalAddition ==
  Decimal /\ Bcd(A) =>
    \A value \in { v \in Bytes : Bcd(v) } :
      LET after == Adc(model, A, P, value)
          total == Value(A) + Value(value) + Carry(P)
      IN  /\ Bcd(after.A)
          /\ Value(after.A) + 100 * Carry(after.P) = total
          /\ model = "cmos" => after.P \cap {"N", "Z"} = NZ(after.A)

(* In decimal mode, SBC on two packed decimal numbers gives their          *)
(* difference, with the carry clear for a borrow.                          *)
DecimalSubtraction ==
  Decimal /\ Bcd(A) =>
    \A value \in { v \in Bytes : Bcd(v) } :
      LET after == Sbc(model, A, P, value)
          total == Value(A) - Value(value) - (1 - Carry(P))
      IN  /\ Bcd(after.A)
          /\ Value(after.A) - 100 * (1 - Carry(after.P)) = total
          /\ model = "cmos" => after.P \cap {"N", "Z"} = NZ(after.A)

(* SBC takes back what ADC added, whatever the mode: with the carry that   *)
(* went into the addition as the borrow, it restores the accumulator, and  *)
(* it borrows exactly if the addition carried.                             *)
SubtractionUndoesAddition ==
  \A value \in Bytes :
    (Decimal => Bcd(A) /\ Bcd(value)) =>
      LET sum    == Adc(model, A, P, value)
          borrow == IF "C" \in P THEN sum.P \ {"C"} ELSE sum.P \cup {"C"}
          back   == Sbc(model, sum.A, borrow, value)
      IN  back.A = A /\ Carry(back.P) = 1 - Carry(sum.P)

(* A compare sets C, Z and N as the subtraction it stands for would, and   *)
(* leaves V, D and the accumulator alone, in decimal mode too.             *)
ComparesLikeSubtraction ==
  \A value \in Bytes :
    LET flags == Compare(A, P, value)
        minus == SbcBinary(A, P \cup {"C"}, value)
    IN  /\ flags \cap {"C", "Z", "N"} = minus.P \cap {"C", "Z", "N"}
        /\ flags \cap {"V", "D"} = P \cap {"V", "D"}

(* Without the decimal mode, V says that the signed result does not fit.   *)
Signed(byte) == IF byte < 128 THEN byte ELSE byte - 256

OverflowIsSigned ==
  ~Decimal =>
    \A value \in Bytes :
      LET plus  == Signed(A) + Signed(value) + Carry(P)
          minus == Signed(A) - Signed(value) - (1 - Carry(P))
      IN  /\ "V" \in Adc(model, A, P, value).P <=> plus \notin -128..127
          /\ "V" \in Sbc(model, A, P, value).P <=> minus \notin -128..127
=============================================================================
