-------------------------------- MODULE Alu --------------------------------
(***************************************************************************)
(* The arithmetic of the qe6502 core (adc_*, sbc_*, compare_* and the      *)
(* shifts of qe6502.c): functions of the accumulator, the operand and the  *)
(* flags.  A flag word is the set of the flags that are set; a register is *)
(* eight bits wide, so it is taken modulo 256, and a mask is the quotient  *)
(* or remainder it stands for.                                             *)
(***************************************************************************)
EXTENDS Integers

Bytes == 0..255

Arithmetic == {"C", "Z", "V", "N"}

Sign(byte) == byte \div 128
High(byte) == byte \div 16
Low(byte) == byte % 16
Complement(byte) == 255 - byte

Carry(flags) == IF "C" \in flags THEN 1 ELSE 0
If(condition, flag) == IF condition THEN {flag} ELSE {}

(* update_flags_cvzn, update_flags_nzc: the flags named are replaced.      *)
Update(flags, mask, new) == (flags \ mask) \cup (new \cap mask)

NZ(byte) == If(byte = 0, "Z") \cup If(byte >= 128, "N")

UpdateNzc(flags, byte, carry) ==
  Update(flags, {"N", "Z", "C"}, NZ(byte) \cup If(carry, "C"))

(* Mutant: the signs of the operands are not compared.                     *)
AddOverflowsOnSignChange(a, value, byte) == Sign(a) # Sign(byte)

(* The overflow test of an addition: the operands have one sign and the    *)
(* result has the other; of a subtraction: they have different signs and   *)
(* the result does not have the minuend's.                                 *)
AddOverflows(a, value, byte) == Sign(a) = Sign(value) /\ Sign(a) # Sign(byte)
SubOverflows(a, value, byte) == Sign(a) # Sign(value) /\ Sign(a) # Sign(byte)

Result(a, flags, new) == [A |-> a, P |-> Update(flags, Arithmetic, new)]

-----------------------------------------------------------------------------
(* adc_binary()                                                            *)
AdcBinary(a, flags, value) ==
  LET sum  == a + value + Carry(flags)
      byte == sum % 256
  IN  Result(byte, flags,
        NZ(byte) \cup If(sum > 255, "C") \cup If(AddOverflows(a, value, byte), "V"))

(* Mutant: the complement is the arithmetic one.                           *)
SbcBinaryTwosComplement(a, flags, value) == AdcBinary(a, flags, (256 - value) % 256)

(* SBC adds the complement.                                                *)
SbcBinary(a, flags, value) == AdcBinary(a, flags, Complement(value))

(* Mutant: ten is a legal digit.                                           *)
AdcDecimalNmosOffByOne(a, flags, value) ==
  LET low    == Low(a) + Low(value) + Carry(flags)
      high   == High(a) + High(value) + (IF low > 10 THEN 1 ELSE 0)
      byte   == (high * 16 + ((IF low > 10 THEN low - 10 ELSE low) % 16)) % 256
      binary == (a + value + Carry(flags)) % 256
  IN  Result(IF high > 9 THEN (byte - 160) % 256 ELSE byte, flags,
        If(binary = 0, "Z") \cup (NZ(byte) \ {"Z"})
          \cup If(AddOverflows(a, value, byte), "V") \cup If(high > 9, "C"))

(* adc_decimal_nmos(): Z is that of the binary sum, N and V are taken      *)
(* before the high digit is corrected.                                     *)
AdcDecimalNmos(a, flags, value) ==
  LET low    == Low(a) + Low(value) + Carry(flags)
      high   == High(a) + High(value) + (IF low > 9 THEN 1 ELSE 0)
      byte   == (high * 16 + ((IF low > 9 THEN low - 10 ELSE low) % 16)) % 256
      binary == (a + value + Carry(flags)) % 256
  IN  Result(IF high > 9 THEN (byte - 160) % 256 ELSE byte, flags,
        If(binary = 0, "Z") \cup (NZ(byte) \ {"Z"})
          \cup If(AddOverflows(a, value, byte), "V") \cup If(high > 9, "C"))

(* sbc_decimal_nmos(): the digits are signed bytes.                        *)
SbcDecimalNmos(a, flags, value) ==
  LET low    == Low(a) - Low(value) - (1 - Carry(flags))
      high   == High(a) - High(value) - (IF low < 0 THEN 1 ELSE 0)
      byte   == (high * 16 + ((IF low < 0 THEN low + 10 ELSE low) % 16)) % 256
      binary == (a + Complement(value) + Carry(flags)) % 256
  IN  Result(IF high < 0 THEN (byte + 160) % 256 ELSE byte, flags,
        If(binary = 0, "Z") \cup (NZ(byte) \ {"Z"})
          \cup If(SubOverflows(a, value, byte), "V") \cup If(high >= 0, "C"))

(* adc_decimal_cmos(): N and Z are those of the decimal result.            *)
AdcDecimalCmos(a, flags, value) ==
  LET low   == Low(a) + Low(value) + Carry(flags)
      sum   == (IF low >= 10 THEN 16 + ((low + 6) % 16) ELSE low)
                 + High(a) * 16 + High(value) * 16
      byte  == (IF sum >= 160 THEN sum + 96 ELSE sum) % 256
      probe == IF sum >= 160 THEN sum < 384 ELSE sum >= 128
  IN  Result(byte, flags,
        NZ(byte) \cup If(sum >= 160, "C") \cup If(probe /\ Sign(a) = Sign(value), "V"))

(* Mutant: the borrow of the low digit is not corrected.                   *)
SbcDecimalCmosNoLowBorrow(a, flags, value) ==
  LET low    == 15 + Low(a) - Low(value) + Carry(flags)
      digit  == low % 16
      high   == (High(a) * 16 - High(value) * 16 + (IF low < 16 THEN 0 ELSE 16)) % 65536
      probe  == (High(high % 256) * 16 + Low(digit) - 16) % 256
      raised == (high + 240) % 65536
      byte   == ((IF raised < 256 THEN raised - 96 ELSE raised) + digit) % 256
  IN  Result(byte, flags,
        NZ(byte) \cup If(raised >= 256, "C") \cup If(SubOverflows(a, value, probe), "V"))

(* sbc_decimal_cmos(): the high digits are sixteen bits wide.              *)
SbcDecimalCmos(a, flags, value) ==
  LET low    == 15 + Low(a) - Low(value) + Carry(flags)
      digit  == IF low < 16 THEN (low - 6) % 256 ELSE low - 16
      high   == (High(a) * 16 - High(value) * 16 + (IF low < 16 THEN 0 ELSE 16)) % 65536
      probe  == (High(high % 256) * 16 + Low(digit) - 16) % 256
      raised == (high + 240) % 65536
      byte   == ((IF raised < 256 THEN raised - 96 ELSE raised) + digit) % 256
  IN  Result(byte, flags,
        NZ(byte) \cup If(raised >= 256, "C") \cup If(SubOverflows(a, value, probe), "V"))

-----------------------------------------------------------------------------
(* Which of them a model's ADC and SBC run; the CMOS models run the decimal *)
(* ones a cycle later than the binary ones.                                *)
Adc(model, a, flags, value) ==
  IF "D" \notin flags \/ model = "nes" THEN AdcBinary(a, flags, value)
  ELSE IF model = "nmos" THEN AdcDecimalNmos(a, flags, value)
       ELSE AdcDecimalCmos(a, flags, value)

Sbc(model, a, flags, value) ==
  IF "D" \notin flags \/ model = "nes" THEN SbcBinary(a, flags, value)
  ELSE IF model = "nmos" THEN SbcDecimalNmos(a, flags, value)
       ELSE SbcDecimalCmos(a, flags, value)

(* Mutant: equal operands borrow.                                          *)
CompareStrict(register, flags, value) ==
  UpdateNzc(flags, (register - value) % 256, register > value)

(* compare_register_with_value(): the flags.                               *)
Compare(register, flags, value) ==
  UpdateNzc(flags, (register - value) % 256, register >= value)

Shifted(byte, flags, out) == [A |-> byte, P |-> UpdateNzc(flags, byte, out = 1)]

(* asl_value(), lsr_value(), rol_value(), ror_value().                     *)
Asl(a, flags) == Shifted((a * 2) % 256, flags, Sign(a))
Lsr(a, flags) == Shifted(a \div 2, flags, a % 2)
Rol(a, flags) == Shifted(((a * 2) % 256) + Carry(flags), flags, Sign(a))
Ror(a, flags) == Shifted(a \div 2 + 128 * Carry(flags), flags, a % 2)
=============================================================================
