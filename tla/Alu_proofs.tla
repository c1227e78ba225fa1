------------------------------ MODULE Alu_proofs ------------------------------
(***************************************************************************)
(* What programs rely on in the arithmetic of the core, for every operand  *)
(* and every program of arithmetic instructions, whatever operands it      *)
(* uses.  Each operation is first told as numbers: the carry that comes    *)
(* in, the byte and the carry that go out.                                 *)
(***************************************************************************)
EXTENDS AluMachine, TLAPS

StatusFlags == {"C", "Z", "V", "N", "D"}

AluType ==
  /\ model \in {"nmos", "nes", "cmos"}
  /\ A \in Bytes
  /\ P \subseteq StatusFlags

Numbers(cpu) == cpu.A \in Bytes /\ cpu.P \subseteq StatusFlags

-----------------------------------------------------------------------------
(* Flags.                                                                  *)

LEMMA CarryType == \A flags : Carry(flags) \in {0, 1} /\ (Carry(flags) = 1 <=> "C" \in flags)
BY DEF Carry

LEMMA IfMember == \A condition, flag, x : x \in If(condition, flag) <=> condition /\ x = flag
BY DEF If

(* The flags an addition or a subtraction leaves: the arithmetic ones are  *)
(* new, the others are kept.                                               *)
LEMMA ResultFlags ==
  ASSUME NEW a, NEW flags, NEW new
  PROVE  /\ Result(a, flags, new).A = a
         /\ \A flag \in Arithmetic : flag \in Result(a, flags, new).P <=> flag \in new
         /\ "D" \in Result(a, flags, new).P <=> "D" \in flags
         /\ flags \subseteq StatusFlags => Result(a, flags, new).P \subseteq StatusFlags
BY DEF Result, Update, Arithmetic, StatusFlags

LEMMA NZMember ==
  ASSUME NEW byte \in Int
  PROVE  /\ "Z" \in NZ(byte) <=> byte = 0
         /\ "N" \in NZ(byte) <=> byte >= 128
         /\ "C" \notin NZ(byte) /\ "V" \notin NZ(byte)
BY DEF NZ, If

-----------------------------------------------------------------------------
(* The binary operations.                                                  *)

LEMMA AdcBinaryNumbers ==
  ASSUME NEW a \in Bytes, NEW value \in Bytes, NEW flags
  PROVE  LET after == AdcBinary(a, flags, value)
             sum   == a + value + Carry(flags)
         IN  /\ after.A = sum % 256
             /\ "C" \in after.P <=> sum > 255
             /\ "Z" \in after.P <=> sum % 256 = 0
             /\ "N" \in after.P <=> sum % 256 >= 128
             /\ "V" \in after.P <=> AddOverflows(a, value, sum % 256)
             /\ "D" \in after.P <=> "D" \in flags
             /\ flags \subseteq StatusFlags => after.P \subseteq StatusFlags
<1> DEFINE sum == a + value + Carry(flags)
           new == NZ(sum % 256) \cup If(sum > 255, "C")
                    \cup If(AddOverflows(a, value, sum % 256), "V")
<1>1. AdcBinary(a, flags, value) = Result(sum % 256, flags, new)
  BY DEF AdcBinary
<1>2. /\ "C" \in new <=> sum > 255
      /\ "Z" \in new <=> sum % 256 = 0
      /\ "N" \in new <=> sum % 256 >= 128
      /\ "V" \in new <=> AddOverflows(a, value, sum % 256)
  <2>1. sum % 256 \in Int
    BY CarryType DEF Bytes
  <2>. HIDE DEF sum
  <2>. QED
    BY <2>1, NZMember DEF If
<1>. HIDE DEF new
<1>. QED
  BY <1>1, <1>2, ResultFlags DEF Arithmetic

LEMMA ComplementType == \A value \in Bytes : Complement(value) \in Bytes
BY DEF Complement, Bytes

LEMMA SbcBinaryNumbers ==
  ASSUME NEW a \in Bytes, NEW value \in Bytes, NEW flags
  PROVE  LET after == SbcBinary(a, flags, value)
             minus == a - value - (1 - Carry(flags))
         IN  /\ after.A = minus % 256
             /\ "C" \in after.P <=> minus >= 0
             /\ "Z" \in after.P <=> minus % 256 = 0
             /\ "N" \in after.P <=> minus % 256 >= 128
             /\ "V" \in after.P <=> AddOverflows(a, Complement(value), minus % 256)
             /\ "D" \in after.P <=> "D" \in flags
             /\ flags \subseteq StatusFlags => after.P \subseteq StatusFlags
<1> DEFINE minus == a - value - (1 - Carry(flags))
           sum   == a + Complement(value) + Carry(flags)
<1>1. sum = minus + 256 /\ minus \in Int
  BY CarryType DEF Complement, Bytes
<1>2. sum % 256 = minus % 256 /\ (sum > 255 <=> minus >= 0)
  <2>. HIDE DEF minus, sum
  <2>. QED
    BY <1>1
<1>3. LET after == SbcBinary(a, flags, value)
      IN  /\ after.A = sum % 256
          /\ "C" \in after.P <=> sum > 255
          /\ "Z" \in after.P <=> sum % 256 = 0
          /\ "N" \in after.P <=> sum % 256 >= 128
          /\ "V" \in after.P <=> AddOverflows(a, Complement(value), sum % 256)
          /\ "D" \in after.P <=> "D" \in flags
          /\ flags \subseteq StatusFlags => after.P \subseteq StatusFlags
  BY ComplementType, AdcBinaryNumbers DEF SbcBinary
<1>. QED
  BY <1>2, <1>3

LEMMA CompareNumbers ==
  ASSUME NEW register \in Bytes, NEW value \in Bytes, NEW flags
  PROVE  LET after == Compare(register, flags, value)
         IN  /\ "C" \in after <=> register >= value
             /\ "Z" \in after <=> (register - value) % 256 = 0
             /\ "N" \in after <=> (register - value) % 256 >= 128
             /\ \A flag \in {"V", "D"} : flag \in after <=> flag \in flags
             /\ flags \subseteq StatusFlags => after \subseteq StatusFlags
<1> DEFINE byte == (register - value) % 256
<1>1. byte \in Int
  BY DEF Bytes
<1>. HIDE DEF byte
<1>2. Compare(register, flags, value)
        = (flags \ {"N", "Z", "C"})
            \cup ((NZ(byte) \cup If(register >= value, "C")) \cap {"N", "Z", "C"})
  BY DEF Compare, UpdateNzc, Update, byte
<1>3. /\ "C" \in If(register >= value, "C") <=> register >= value
      /\ "Z" \notin If(register >= value, "C") /\ "N" \notin If(register >= value, "C")
  BY DEF If
<1>. QED
  BY <1>1, <1>2, <1>3, NZMember DEF StatusFlags, byte

-----------------------------------------------------------------------------
(* The registers stay registers.                                           *)

LEMMA ByteOf == \A n \in Int : n % 256 \in Bytes
BY DEF Bytes

LEMMA BecomesType ==
  ASSUME AluType, NEW cpu, Numbers(cpu), Becomes(cpu)
  PROVE  AluType'
BY DEF AluType, Becomes, Numbers

LEMMA Nibbles ==
  ASSUME NEW a \in Bytes
  PROVE  High(a) \in 0 .. 15 /\ Low(a) \in 0 .. 15 /\ a = High(a) * 16 + Low(a)
BY DEF Bytes, High, Low

LEMMA BinaryTypes ==
  ASSUME NEW a \in Bytes, NEW value \in Bytes, NEW flags \in SUBSET StatusFlags
  PROVE  Numbers(AdcBinary(a, flags, value)) /\ Numbers(SbcBinary(a, flags, value))
<1>1. a + value + Carry(flags) \in Int /\ a - value - (1 - Carry(flags)) \in Int
  BY CarryType DEF Bytes
<1>. QED
  BY <1>1, ByteOf, AdcBinaryNumbers, SbcBinaryNumbers DEF Numbers

(* Also on operands that are no packed digits.                             *)
LEMMA DecimalTypes ==
  ASSUME NEW a \in Bytes, NEW value \in Bytes, NEW flags \in SUBSET StatusFlags
  PROVE  /\ Numbers(AdcDecimalNmos(a, flags, value)) /\ Numbers(SbcDecimalNmos(a, flags, value))
         /\ Numbers(AdcDecimalCmos(a, flags, value)) /\ Numbers(SbcDecimalCmos(a, flags, value))
<1>1. /\ Low(a) \in Int /\ Low(value) \in Int /\ High(a) \in Int /\ High(value) \in Int
      /\ Carry(flags) \in Int
  BY Nibbles, CarryType
<1>2. \A byte, new : byte \in Bytes => Numbers(Result(byte, flags, new))
  BY ResultFlags DEF Numbers
<1>3. Numbers(AdcDecimalNmos(a, flags, value))
  <2> DEFINE low    == Low(a) + Low(value) + Carry(flags)
             high   == High(a) + High(value) + (IF low > 9 THEN 1 ELSE 0)
             byte   == (high * 16 + ((IF low > 9 THEN low - 10 ELSE low) % 16)) % 256
  <2>1. low \in Int /\ high \in Int
    BY <1>1
  <2>2. byte \in Bytes /\ byte \in Int
    <3>. HIDE DEF low, high
    <3>. QED
      BY <2>1, ByteOf DEF Bytes
  <2>. HIDE DEF low, high, byte
  <2>3. (IF high > 9 THEN (byte - 160) % 256 ELSE byte) \in Bytes
    BY <2>2, ByteOf
  <2>. QED
    BY <1>2, <2>3 DEF AdcDecimalNmos, low, high, byte
<1>4. Numbers(SbcDecimalNmos(a, flags, value))
  <2> DEFINE low    == Low(a) - Low(value) - (1 - Carry(flags))
             high   == High(a) - High(value) - (IF low < 0 THEN 1 ELSE 0)
             byte   == (high * 16 + ((IF low < 0 THEN low + 10 ELSE low) % 16)) % 256
  <2>1. low \in Int /\ high \in Int
    BY <1>1
  <2>2. byte \in Bytes /\ byte \in Int
    <3>. HIDE DEF low, high
    <3>. QED
      BY <2>1, ByteOf DEF Bytes
  <2>. HIDE DEF low, high, byte
  <2>3. (IF high < 0 THEN (byte + 160) % 256 ELSE byte) \in Bytes
    BY <2>2, ByteOf
  <2>. QED
    BY <1>2, <2>3 DEF SbcDecimalNmos, low, high, byte
<1>5. Numbers(AdcDecimalCmos(a, flags, value))
  <2> DEFINE low == Low(a) + Low(value) + Carry(flags)
             sum == (IF low >= 10 THEN 16 + ((low + 6) % 16) ELSE low)
                      + High(a) * 16 + High(value) * 16
  <2>1. low \in Int
    BY <1>1
  <2>2. sum \in Int
    <3>. HIDE DEF low
    <3>. QED
      BY <1>1, <2>1
  <2>. HIDE DEF low, sum
  <2>3. ((IF sum >= 160 THEN sum + 96 ELSE sum) % 256) \in Bytes
    BY <2>2, ByteOf
  <2>. QED
    BY <1>2, <2>3 DEF AdcDecimalCmos, low, sum
<1>6. Numbers(SbcDecimalCmos(a, flags, value))
  <2> DEFINE low    == 15 + Low(a) - Low(value) + Carry(flags)
             digit  == IF low < 16 THEN (low - 6) % 256 ELSE low - 16
             high   == (High(a) * 16 - High(value) * 16 + (IF low < 16 THEN 0 ELSE 16)) % 65536
             raised == (high + 240) % 65536
  <2>1. low \in Int
    BY <1>1
  <2>2. digit \in Int /\ high \in Int
    <3>. HIDE DEF low
    <3>. QED
      BY <1>1, <2>1
  <2>3. raised \in Int
    <3>. HIDE DEF high
    <3>. QED
      BY <2>2
  <2>. HIDE DEF low, digit, high, raised
  <2>4. (((IF raised < 256 THEN raised - 96 ELSE raised) + digit) % 256) \in Bytes
    BY <2>2, <2>3, ByteOf
  <2>. QED
    BY <1>2, <2>4 DEF SbcDecimalCmos, low, digit, high, raised
<1>. QED
  BY <1>3, <1>4, <1>5, <1>6

LEMMA OperationTypes ==
  ASSUME NEW a \in Bytes, NEW value \in Bytes, NEW flags \in SUBSET StatusFlags, NEW mod
  PROVE  Numbers(Adc(mod, a, flags, value)) /\ Numbers(Sbc(mod, a, flags, value))
BY BinaryTypes, DecimalTypes DEF Adc, Sbc

LEMMA ShiftTypes ==
  ASSUME NEW a \in Bytes, NEW flags \in SUBSET StatusFlags
  PROVE  /\ Numbers(Asl(a, flags)) /\ Numbers(Lsr(a, flags))
         /\ Numbers(Rol(a, flags)) /\ Numbers(Ror(a, flags))
<1>1. \A byte \in Bytes : \A out : Numbers(Shifted(byte, flags, out))
  BY DEF Numbers, Shifted, UpdateNzc, Update, StatusFlags
<1>2. /\ (a * 2) % 256 \in Bytes
      /\ a \div 2 \in Bytes
      /\ a \div 2 + 128 * Carry(flags) \in Bytes
  BY CarryType DEF Bytes
<1>3. ((a * 2) % 256) + Carry(flags) \in Bytes
  <2> DEFINE twice == a * 2
  <2>0. twice \in 0 .. 510
    BY DEF Bytes
  <2>1. (a * 2) % 256 \in {a * 2, a * 2 - 256} /\ (a * 2) % 256 \in Bytes
    <3>1. twice % 256 \in {twice, twice - 256} /\ twice % 256 \in Bytes
      <4>. HIDE DEF twice
      <4>. QED
        BY <2>0 DEF Bytes
    <3>. QED
      BY <3>1
  <2>2. (a * 2) % 256 # 255
    BY <2>1 DEF Bytes
  <2>. QED
    BY <2>1, <2>2, CarryType DEF Bytes
<1>. QED
  BY <1>1, <1>2, <1>3 DEF Asl, Lsr, Rol, Ror

LEMMA AluTypeHolds == AluSpec => []AluType
<1>1. AluInit => AluType
  BY DEF AluInit, AluType, Bytes, StatusFlags
<1>2. AluType /\ [AluNext]_aluVars => AluType'
  <2>. SUFFICES ASSUME AluType, [AluNext]_aluVars PROVE AluType'
    OBVIOUS
  <2>1. A \in Bytes /\ P \in SUBSET StatusFlags /\ Operands \subseteq Bytes
    BY OperandsAssumption DEF AluType
  <2>2. CASE Arith
    BY <2>1, <2>2, OperationTypes, BecomesType DEF Arith
  <2>3. CASE Cmp
    BY <2>1, <2>3, CompareNumbers DEF Cmp, AluType
  <2>4. CASE Shift
    BY <2>1, <2>4, ShiftTypes, BecomesType DEF Shift
  <2>5. CASE SetFlag
    BY <2>1, <2>5 DEF SetFlag, AluType, StatusFlags
  <2>6. CASE UNCHANGED aluVars
    BY <2>6 DEF aluVars, AluType
  <2>. QED
    BY <2>2, <2>3, <2>4, <2>5, <2>6 DEF AluNext
<1>. QED
  BY <1>1, <1>2, PTL DEF AluSpec

-----------------------------------------------------------------------------
(* Comparisons, and overflow.                                              *)

(* A compare sets C, Z and N as the subtraction it stands for does, and    *)
(* leaves V and D alone.                                                   *)
THEOREM CompareIsSubtraction == AluSpec => []ComparesLikeSubtraction
<1>1. AluType => ComparesLikeSubtraction
  <2>. SUFFICES ASSUME AluType, NEW value \in Bytes
                PROVE  LET flags == Compare(A, P, value)
                           minus == SbcBinary(A, P \cup {"C"}, value)
                       IN  /\ flags \cap {"C", "Z", "N"} = minus.P \cap {"C", "Z", "N"}
                           /\ flags \cap {"V", "D"} = P \cap {"V", "D"}
    BY DEF ComparesLikeSubtraction
  <2> DEFINE flags == Compare(A, P, value)
             minus == SbcBinary(A, P \cup {"C"}, value)
  <2>1. A \in Bytes /\ Carry(P \cup {"C"}) = 1
    BY CarryType DEF AluType
  <2>2. A - value - (1 - Carry(P \cup {"C"})) = A - value
    BY <2>1 DEF Bytes
  <2>3. \A flag \in {"C", "Z", "N"} : flag \in flags <=> flag \in minus.P
    <3>1. /\ "C" \in minus.P <=> A - value >= 0
          /\ "Z" \in minus.P <=> (A - value) % 256 = 0
          /\ "N" \in minus.P <=> (A - value) % 256 >= 128
      BY <2>1, <2>2, SbcBinaryNumbers
    <3>2. A - value >= 0 <=> A >= value
      BY <2>1 DEF Bytes
    <3>. QED
      BY <2>1, <3>1, <3>2, CompareNumbers
  <2>4. \A flag \in {"V", "D"} : flag \in flags <=> flag \in P
    BY <2>1, CompareNumbers
  <2>. QED
    BY <2>3, <2>4
<1>. QED
  BY <1>1, AluTypeHolds, PTL

LEMMA SignOfByte ==
  ASSUME NEW byte \in Bytes
  PROVE  /\ Sign(byte) = IF byte < 128 THEN 0 ELSE 1
         /\ Signed(byte) = byte - 256 * Sign(byte)
BY DEF Sign, Signed, Bytes

(* The overflow test, told as numbers: one carry may come in.              *)
LEMMA OverflowOfSum ==
  ASSUME NEW a \in Bytes, NEW value \in Bytes, NEW carry \in {0, 1}
  PROVE  AddOverflows(a, value, (a + value + carry) % 256)
           <=> Signed(a) + Signed(value) + carry \notin -128 .. 127
<1> DEFINE sum  == a + value + carry
           byte == sum % 256
<1>1. sum \in 0 .. 511
  BY DEF Bytes
<1>2. byte \in Bytes /\ byte = IF sum < 256 THEN sum ELSE sum - 256
  <2>. HIDE DEF sum
  <2>. QED
    BY <1>1 DEF Bytes
<1>3. /\ Sign(a) = IF a < 128 THEN 0 ELSE 1
      /\ Sign(value) = IF value < 128 THEN 0 ELSE 1
      /\ Sign(byte) = IF byte < 128 THEN 0 ELSE 1
  BY <1>2, SignOfByte
<1>4. a \in 0 .. 255 /\ value \in 0 .. 255
  BY DEF Bytes
<1>5. AddOverflows(a, value, byte) <=> Sign(a) = Sign(value) /\ Sign(a) # Sign(byte)
  BY DEF AddOverflows
<1>. HIDE DEF byte
<1>6. AddOverflows(a, value, byte)
        <=> \/ a < 128 /\ value < 128 /\ byte >= 128
            \/ a >= 128 /\ value >= 128 /\ byte < 128
  BY <1>2, <1>3, <1>4, <1>5 DEF Bytes
<1>7. AddOverflows(a, value, byte)
        <=> Signed(a) + Signed(value) + carry \notin -128 .. 127
  BY <1>2, <1>4, <1>6 DEF Signed
<1>. QED
  BY <1>7 DEF byte

(* Without the decimal mode V says that the signed result does not fit.    *)
THEOREM OverflowMeansSigned == AluSpec => []OverflowIsSigned
<1>1. AluType => OverflowIsSigned
  <2>. SUFFICES ASSUME AluType, ~Decimal, NEW value \in Bytes
                PROVE  LET plus  == Signed(A) + Signed(value) + Carry(P)
                           minus == Signed(A) - Signed(value) - (1 - Carry(P))
                       IN  /\ "V" \in Adc(model, A, P, value).P <=> plus \notin -128..127
                           /\ "V" \in Sbc(model, A, P, value).P <=> minus \notin -128..127
    BY DEF OverflowIsSigned
  <2>1. A \in Bytes /\ Carry(P) \in {0, 1}
    BY CarryType DEF AluType
  <2>2. /\ Adc(model, A, P, value) = AdcBinary(A, P, value)
        /\ Sbc(model, A, P, value) = AdcBinary(A, P, Complement(value))
    BY DEF Decimal, Adc, Sbc, SbcBinary
  <2>3. Signed(Complement(value)) = -1 - Signed(value)
    BY DEF Signed, Complement, Bytes
  <2>4. "V" \in Adc(model, A, P, value).P
          <=> Signed(A) + Signed(value) + Carry(P) \notin -128 .. 127
    BY <2>1, <2>2, AdcBinaryNumbers, OverflowOfSum
  <2>5. "V" \in Sbc(model, A, P, value).P
          <=> Signed(A) + Signed(Complement(value)) + Carry(P) \notin -128 .. 127
    BY <2>1, <2>2, ComplementType, AdcBinaryNumbers, OverflowOfSum
  <2>6. Signed(A) + Signed(Complement(value)) + Carry(P)
          = Signed(A) - Signed(value) - (1 - Carry(P))
    <3>1. Signed(A) \in Int /\ Signed(value) \in Int
      BY <2>1 DEF Signed, Bytes
    <3>. QED
      BY <2>1, <2>3, <3>1
  <2>. QED
    BY <2>4, <2>5, <2>6
<1>. QED
  BY <1>1, AluTypeHolds, PTL

-----------------------------------------------------------------------------
(* Packed decimal digits.                                                  *)

LEMMA Packed ==
  ASSUME NEW high \in 0 .. 15, NEW low \in 0 .. 15
  PROVE  LET byte == high * 16 + low
         IN  byte \in Bytes /\ byte % 256 = byte /\ High(byte) = high /\ Low(byte) = low
BY DEF Bytes, High, Low

LEMMA BcdDigits ==
  ASSUME NEW byte \in Bytes
  PROVE  /\ Bcd(byte) <=> High(byte) \in 0 .. 9 /\ Low(byte) \in 0 .. 9
         /\ Bcd(byte) => Value(byte) \in 0 .. 99
BY Nibbles DEF Bcd, Value

(* Digits with their carry, before it is passed on.                        *)
Digit(n) == IF n > 9 THEN n - 10 ELSE IF n < 0 THEN n + 10 ELSE n

LEMMA DigitType ==
  ASSUME NEW n \in -10 .. 19
  PROVE  Digit(n) \in 0 .. 9 /\ Digit(n) % 16 = Digit(n)
BY DEF Digit

(* A sum and a difference of packed digits, done digit by digit.           *)
SumLow(a, value, carry)  == Low(a) + Low(value) + carry
SumHigh(a, value, carry) ==
  High(a) + High(value) + (IF SumLow(a, value, carry) > 9 THEN 1 ELSE 0)

DiffLow(a, value, carry)  == Low(a) - Low(value) - (1 - carry)
DiffHigh(a, value, carry) ==
  High(a) - High(value) - (IF DiffLow(a, value, carry) < 0 THEN 1 ELSE 0)

(* What is to be shown of an operation: its result has these digits, and   *)
(* the carry is that of the high one.                                      *)
Adds(cpu, a, value, carry) ==
  /\ cpu.A = Digit(SumHigh(a, value, carry)) * 16 + Digit(SumLow(a, value, carry))
  /\ "C" \in cpu.P <=> SumHigh(a, value, carry) > 9

Subtracts(cpu, a, value, carry) ==
  /\ cpu.A = Digit(DiffHigh(a, value, carry)) * 16 + Digit(DiffLow(a, value, carry))
  /\ "C" \in cpu.P <=> DiffHigh(a, value, carry) >= 0

LEMMA DigitSums ==
  ASSUME NEW a \in Bytes, NEW value \in Bytes, Bcd(a), Bcd(value), NEW carry \in {0, 1}
  PROVE  /\ SumLow(a, value, carry) \in 0 .. 19 /\ SumHigh(a, value, carry) \in 0 .. 19
         /\ DiffLow(a, value, carry) \in -10 .. 9 /\ DiffHigh(a, value, carry) \in -10 .. 9
BY BcdDigits DEF SumLow, SumHigh, DiffLow, DiffHigh

(* Adding two-digit numbers with carries, and subtracting with borrows.    *)
LEMMA Decades ==
  ASSUME NEW ah \in Int, NEW al \in Int, NEW vh \in Int, NEW vl \in Int,
         NEW h \in Int, NEW l \in Int, NEW in \in Int, NEW c \in Int, NEW out \in Int
  PROVE  /\ l + 10 * c = al + vl + in /\ h + 10 * out = ah + vh + c
              => (h * 10 + l) + 100 * out = (ah * 10 + al) + (vh * 10 + vl) + in
         /\ l - 10 * c = al - vl - in /\ h - 10 * out = ah - vh - c
              => (h * 10 + l) - 100 * out = (ah * 10 + al) - (vh * 10 + vl) - in
OBVIOUS

LEMMA DigitCarry ==
  /\ \A n \in 0 .. 19 : Digit(n) + 10 * (IF n > 9 THEN 1 ELSE 0) = n
  /\ \A n \in -10 .. 9 : Digit(n) - 10 * (IF n < 0 THEN 1 ELSE 0) = n
BY DEF Digit

(* Such a result is the decimal sum, or difference.                        *)
LEMMA AddsIsSum ==
  ASSUME NEW a \in Bytes, NEW value \in Bytes, Bcd(a), Bcd(value),
         NEW flags, NEW cpu, Adds(cpu, a, value, Carry(flags))
  PROVE  /\ cpu.A \in Bytes /\ Bcd(cpu.A)
         /\ Value(cpu.A) + 100 * Carry(cpu.P) = Value(a) + Value(value) + Carry(flags)
<1> DEFINE low  == SumLow(a, value, Carry(flags))
           high == SumHigh(a, value, Carry(flags))
           c    == IF low > 9 THEN 1 ELSE 0
           out  == IF high > 9 THEN 1 ELSE 0
<1>1. Carry(flags) \in Int /\ low \in 0 .. 19 /\ high \in 0 .. 19
  BY CarryType, DigitSums
<1>2. /\ High(a) \in Int /\ Low(a) \in Int /\ High(value) \in Int /\ Low(value) \in Int
  BY BcdDigits
<1>3. /\ low = Low(a) + Low(value) + Carry(flags)
      /\ high = High(a) + High(value) + c
  BY DEF SumLow, SumHigh
<1>4. cpu.A = Digit(high) * 16 + Digit(low) /\ Carry(cpu.P) = out
  BY DEF Adds, Carry
<1>. HIDE DEF low, high
<1>5. Digit(low) \in 0 .. 9 /\ Digit(high) \in 0 .. 9
  BY <1>1, DigitType
<1>6. cpu.A \in Bytes /\ High(cpu.A) = Digit(high) /\ Low(cpu.A) = Digit(low)
  BY <1>4, <1>5, Packed
<1>7. Bcd(cpu.A)
  BY <1>5, <1>6 DEF Bcd
<1>8. Digit(low) + 10 * c = low /\ Digit(high) + 10 * out = high
  BY <1>1, DigitCarry
<1>9. c \in Int /\ out \in Int
  OBVIOUS
<1>. HIDE DEF c, out
<1>10. (Digit(high) * 10 + Digit(low)) + 100 * out
         = (High(a) * 10 + Low(a)) + (High(value) * 10 + Low(value)) + Carry(flags)
  <2>1. Digit(high) \in Int /\ Digit(low) \in Int
    BY <1>5
  <2>2. /\ Digit(low) + 10 * c = Low(a) + Low(value) + Carry(flags)
        /\ Digit(high) + 10 * out = High(a) + High(value) + c
    BY <1>3, <1>8
  <2>. QED
    BY <1>1, <1>2, <1>9, <2>1, <2>2, Decades
<1>. QED
  BY <1>4, <1>6, <1>7, <1>10 DEF Value

LEMMA SubtractsIsDifference ==
  ASSUME NEW a \in Bytes, NEW value \in Bytes, Bcd(a), Bcd(value),
         NEW flags, NEW cpu, Subtracts(cpu, a, value, Carry(flags))
  PROVE  /\ cpu.A \in Bytes /\ Bcd(cpu.A)
         /\ Value(cpu.A) - 100 * (1 - Carry(cpu.P))
              = Value(a) - Value(value) - (1 - Carry(flags))
<1> DEFINE low  == DiffLow(a, value, Carry(flags))
           high == DiffHigh(a, value, Carry(flags))
           c    == IF low < 0 THEN 1 ELSE 0
           out  == IF high < 0 THEN 1 ELSE 0
<1>1. (1 - Carry(flags)) \in Int /\ low \in -10 .. 9 /\ high \in -10 .. 9
  BY CarryType, DigitSums
<1>2. /\ High(a) \in Int /\ Low(a) \in Int /\ High(value) \in Int /\ Low(value) \in Int
  BY BcdDigits
<1>3. /\ low = Low(a) - Low(value) - (1 - Carry(flags))
      /\ high = High(a) - High(value) - c
  BY DEF DiffLow, DiffHigh
<1>4. cpu.A = Digit(high) * 16 + Digit(low) /\ 1 - Carry(cpu.P) = out
  BY <1>1 DEF Subtracts, Carry
<1>. HIDE DEF low, high
<1>5. Digit(low) \in 0 .. 9 /\ Digit(high) \in 0 .. 9
  BY <1>1, DigitType
<1>6. cpu.A \in Bytes /\ High(cpu.A) = Digit(high) /\ Low(cpu.A) = Digit(low)
  BY <1>4, <1>5, Packed
<1>7. Bcd(cpu.A)
  BY <1>5, <1>6 DEF Bcd
<1>8. Digit(low) - 10 * c = low /\ Digit(high) - 10 * out = high
  BY <1>1, DigitCarry
<1>9. c \in Int /\ out \in Int
  OBVIOUS
<1>. HIDE DEF c, out
<1>10. (Digit(high) * 10 + Digit(low)) - 100 * out
         = (High(a) * 10 + Low(a)) - (High(value) * 10 + Low(value)) - (1 - Carry(flags))
  <2>1. Digit(high) \in Int /\ Digit(low) \in Int
    BY <1>5
  <2>2. /\ Digit(low) - 10 * c = Low(a) - Low(value) - (1 - Carry(flags))
        /\ Digit(high) - 10 * out = High(a) - High(value) - c
    BY <1>3, <1>8
  <2>. QED
    BY <1>1, <1>2, <1>9, <2>1, <2>2, Decades
<1>. QED
  BY <1>4, <1>6, <1>7, <1>10 DEF Value

(* Sums and differences are packed as the C code packs them.               *)
LEMMA DigitsPacked ==
  ASSUME NEW low \in -10 .. 19
  PROVE  /\ (IF low > 9 THEN low - 10 ELSE low) = IF low < 0 THEN low ELSE Digit(low)
         /\ (IF low < 0 THEN low + 10 ELSE low) = IF low > 9 THEN low ELSE Digit(low)
BY DEF Digit

LEMMA NmosAdds ==
  ASSUME NEW a \in Bytes, NEW value \in Bytes, Bcd(a), Bcd(value), NEW flags
  PROVE  Adds(AdcDecimalNmos(a, flags, value), a, value, Carry(flags))
<1> DEFINE low    == SumLow(a, value, Carry(flags))
           high   == SumHigh(a, value, Carry(flags))
           byte   == (high * 16 + ((IF low > 9 THEN low - 10 ELSE low) % 16)) % 256
           binary == (a + value + Carry(flags)) % 256
           new    == If(binary = 0, "Z") \cup (NZ(byte) \ {"Z"})
                       \cup If(AddOverflows(a, value, byte), "V") \cup If(high > 9, "C")
<1>1. low \in 0 .. 19 /\ high \in 0 .. 19
  BY CarryType, DigitSums
<1>2. AdcDecimalNmos(a, flags, value)
        = Result(IF high > 9 THEN (byte - 160) % 256 ELSE byte, flags, new)
  BY DEF AdcDecimalNmos, SumLow, SumHigh
<1>. HIDE DEF low, high
<1>3. (IF low > 9 THEN low - 10 ELSE low) % 16 = Digit(low) /\ Digit(low) \in 0 .. 9
  BY <1>1, DigitType, DigitsPacked
<1>4. byte \in Int /\ (IF high > 9 THEN (byte - 160) % 256 ELSE byte)
        = Digit(high) * 16 + Digit(low)
  <2>1. byte = (high * 16 + Digit(low)) % 256
    BY <1>3
  <2>2. CASE high \in 0 .. 9
    BY <1>3, <2>1, <2>2 DEF Digit
  <2>3. CASE high \in 10 .. 15
    BY <1>3, <2>1, <2>3 DEF Digit
  <2>4. CASE high \in 16 .. 19
    BY <1>3, <2>1, <2>4 DEF Digit
  <2>. QED
    BY <1>1, <2>2, <2>3, <2>4
<1>. HIDE DEF byte, binary
<1>5. "C" \in new <=> high > 9
  BY <1>4, NZMember DEF If
<1>. HIDE DEF new
<1>6. /\ AdcDecimalNmos(a, flags, value).A = Digit(high) * 16 + Digit(low)
      /\ "C" \in AdcDecimalNmos(a, flags, value).P <=> high > 9
  BY <1>2, <1>4, <1>5, ResultFlags DEF Arithmetic
<1>. QED
  BY <1>6 DEF Adds, low, high

LEMMA NmosSubtracts ==
  ASSUME NEW a \in Bytes, NEW value \in Bytes, Bcd(a), Bcd(value), NEW flags
  PROVE  Subtracts(SbcDecimalNmos(a, flags, value), a, value, Carry(flags))
<1> DEFINE low    == DiffLow(a, value, Carry(flags))
           high   == DiffHigh(a, value, Carry(flags))
           byte   == (high * 16 + ((IF low < 0 THEN low + 10 ELSE low) % 16)) % 256
           binary == (a + Complement(value) + Carry(flags)) % 256
           new    == If(binary = 0, "Z") \cup (NZ(byte) \ {"Z"})
                       \cup If(SubOverflows(a, value, byte), "V") \cup If(high >= 0, "C")
<1>1. low \in -10 .. 9 /\ high \in -10 .. 9
  BY CarryType, DigitSums
<1>2. SbcDecimalNmos(a, flags, value)
        = Result(IF high < 0 THEN (byte + 160) % 256 ELSE byte, flags, new)
  BY DEF SbcDecimalNmos, DiffLow, DiffHigh
<1>. HIDE DEF low, high
<1>3. (IF low < 0 THEN low + 10 ELSE low) % 16 = Digit(low) /\ Digit(low) \in 0 .. 9
  BY <1>1, DigitType, DigitsPacked
<1>4. byte \in Int /\ (IF high < 0 THEN (byte + 160) % 256 ELSE byte)
        = Digit(high) * 16 + Digit(low)
  <2>1. byte = (high * 16 + Digit(low)) % 256
    BY <1>3
  <2>2. CASE high \in 0 .. 9
    BY <1>3, <2>1, <2>2 DEF Digit
  <2>3. CASE high \in -10 .. -1
    BY <1>3, <2>1, <2>3 DEF Digit
  <2>. QED
    BY <1>1, <2>2, <2>3
<1>. HIDE DEF byte, binary
<1>5. "C" \in new <=> high >= 0
  BY <1>4, NZMember DEF If
<1>. HIDE DEF new
<1>6. /\ SbcDecimalNmos(a, flags, value).A = Digit(high) * 16 + Digit(low)
      /\ "C" \in SbcDecimalNmos(a, flags, value).P <=> high >= 0
  BY <1>2, <1>4, <1>5, ResultFlags DEF Arithmetic
<1>. QED
  BY <1>6 DEF Subtracts, low, high

LEMMA CmosAdds ==
  ASSUME NEW a \in Bytes, NEW value \in Bytes, Bcd(a), Bcd(value), NEW flags
  PROVE  LET after == AdcDecimalCmos(a, flags, value)
         IN  /\ Adds(after, a, value, Carry(flags))
             /\ after.P \cap {"N", "Z"} = NZ(after.A)
<1> DEFINE low   == SumLow(a, value, Carry(flags))
           high  == SumHigh(a, value, Carry(flags))
           sum   == (IF low >= 10 THEN 16 + ((low + 6) % 16) ELSE low)
                      + High(a) * 16 + High(value) * 16
           byte  == (IF sum >= 160 THEN sum + 96 ELSE sum) % 256
           probe == IF sum >= 160 THEN sum < 384 ELSE sum >= 128
           new   == NZ(byte) \cup If(sum >= 160, "C") \cup If(probe /\ Sign(a) = Sign(value), "V")
<1>1. low \in 0 .. 19 /\ high \in 0 .. 19
  BY CarryType, DigitSums
<1>2. AdcDecimalCmos(a, flags, value) = Result(byte, flags, new)
  BY DEF AdcDecimalCmos, SumLow
<1>3. high = High(a) + High(value) + (IF low > 9 THEN 1 ELSE 0)
  BY DEF SumHigh
<1>4. High(a) \in 0 .. 9 /\ High(value) \in 0 .. 9
  BY BcdDigits
<1>. HIDE DEF low, high
<1>5. Digit(low) \in 0 .. 9
  BY <1>1, DigitType
<1>6. sum = high * 16 + Digit(low)
  <2>1. CASE low \in 0 .. 9
    BY <1>3, <1>4, <2>1 DEF Digit
  <2>2. CASE low \in 10 .. 19
    <3>1. (low + 6) % 16 = low - 10
      BY <2>2
    <3>. QED
      BY <1>3, <1>4, <2>2, <3>1 DEF Digit
  <2>. QED
    BY <1>1, <2>1, <2>2
<1>. HIDE DEF sum
<1>7. byte = Digit(high) * 16 + Digit(low) /\ (sum >= 160 <=> high > 9) /\ byte \in Int
  <2>1. CASE high \in 0 .. 9
    BY <1>5, <1>6, <2>1 DEF Digit
  <2>2. CASE high \in 10 .. 19
    BY <1>5, <1>6, <2>2 DEF Digit
  <2>. QED
    BY <1>1, <2>1, <2>2
<1>. HIDE DEF byte
<1>8. /\ "C" \in new <=> sum >= 160
      /\ "N" \in new <=> "N" \in NZ(byte)
      /\ "Z" \in new <=> "Z" \in NZ(byte)
  BY <1>7, NZMember DEF If
<1>. HIDE DEF new
<1>9. /\ AdcDecimalCmos(a, flags, value).A = byte
      /\ "C" \in AdcDecimalCmos(a, flags, value).P <=> high > 9
      /\ AdcDecimalCmos(a, flags, value).P \cap {"N", "Z"} = NZ(byte) \cap {"N", "Z"}
  BY <1>2, <1>7, <1>8, ResultFlags DEF Arithmetic
<1>10. NZ(byte) \cap {"N", "Z"} = NZ(byte)
  BY DEF NZ, If
<1>. QED
  BY <1>7, <1>9, <1>10 DEF Adds, low, high

LEMMA CmosSubtracts ==
  ASSUME NEW a \in Bytes, NEW value \in Bytes, Bcd(a), Bcd(value), NEW flags
  PROVE  LET after == SbcDecimalCmos(a, flags, value)
         IN  /\ Subtracts(after, a, value, Carry(flags))
             /\ after.P \cap {"N", "Z"} = NZ(after.A)
<1> DEFINE low    == DiffLow(a, value, Carry(flags))
           up     == 15 + Low(a) - Low(value) + Carry(flags)
           high   == DiffHigh(a, value, Carry(flags))
           digit  == IF up < 16 THEN (up - 6) % 256 ELSE up - 16
           word   == (High(a) * 16 - High(value) * 16 + (IF up < 16 THEN 0 ELSE 16)) % 65536
           probe  == (High(word % 256) * 16 + Low(digit) - 16) % 256
           raised == (word + 240) % 65536
           byte   == ((IF raised < 256 THEN raised - 96 ELSE raised) + digit) % 256
           new    == NZ(byte) \cup If(raised >= 256, "C") \cup If(SubOverflows(a, value, probe), "V")
<1>1. low \in -10 .. 9 /\ high \in -10 .. 9
  BY CarryType, DigitSums
<1>2. SbcDecimalCmos(a, flags, value) = Result(byte, flags, new)
  BY DEF SbcDecimalCmos
<1>3. high = High(a) - High(value) - (IF low < 0 THEN 1 ELSE 0)
  BY DEF DiffHigh
<1>4. High(a) \in 0 .. 9 /\ High(value) \in 0 .. 9
  BY BcdDigits
<1>5. up = low + 16
  BY BcdDigits, CarryType DEF DiffLow
<1>. HIDE DEF low, high, up
<1>6. digit = Digit(low) /\ digit \in 0 .. 9
  <2>1. CASE low \in -10 .. -1
    BY <1>5, <2>1 DEF Digit
  <2>2. CASE low \in 0 .. 9
    BY <1>5, <2>2 DEF Digit
  <2>. QED
    BY <1>1, <2>1, <2>2
<1>7. raised = high * 16 + 256
  <2> DEFINE difference == High(a) * 16 - High(value) * 16 + (IF up < 16 THEN 0 ELSE 16)
  <2>1. difference = high * 16 + 16
    BY <1>1, <1>3, <1>4, <1>5
  <2>. HIDE DEF difference
  <2>2. word = difference % 65536
    BY DEF difference
  <2>. HIDE DEF word
  <2>3. CASE high \in -10 .. -2
    BY <2>1, <2>2, <2>3
  <2>4. CASE high \in -1 .. 9
    BY <2>1, <2>2, <2>4
  <2>. QED
    BY <1>1, <2>3, <2>4
<1>. HIDE DEF digit, raised
<1>8. byte = Digit(high) * 16 + Digit(low) /\ (raised >= 256 <=> high >= 0) /\ byte \in Int
  <2>1. CASE high \in -10 .. -1
    BY <1>6, <1>7, <2>1 DEF Digit
  <2>2. CASE high \in 0 .. 9
    BY <1>6, <1>7, <2>2 DEF Digit
  <2>. QED
    BY <1>1, <2>1, <2>2
<1>. HIDE DEF byte, probe
<1>9. /\ "C" \in new <=> raised >= 256
      /\ "N" \in new <=> "N" \in NZ(byte)
      /\ "Z" \in new <=> "Z" \in NZ(byte)
  BY <1>8, NZMember DEF If
<1>. HIDE DEF new
<1>10. /\ SbcDecimalCmos(a, flags, value).A = byte
       /\ "C" \in SbcDecimalCmos(a, flags, value).P <=> high >= 0
       /\ SbcDecimalCmos(a, flags, value).P \cap {"N", "Z"} = NZ(byte) \cap {"N", "Z"}
  BY <1>2, <1>8, <1>9, ResultFlags DEF Arithmetic
<1>11. NZ(byte) \cap {"N", "Z"} = NZ(byte)
  BY DEF NZ, If
<1>. QED
  BY <1>8, <1>10, <1>11 DEF Subtracts, low, high

-----------------------------------------------------------------------------
(* The decimal mode of every model.                                        *)

LEMMA DecimalModeAdds ==
  ASSUME AluType, Decimal, NEW a \in Bytes, NEW value \in Bytes, Bcd(a), Bcd(value),
         NEW flags, "D" \in flags
  PROVE  LET after == Adc(model, a, flags, value)
         IN  /\ Adds(after, a, value, Carry(flags))
             /\ model = "cmos" => after.P \cap {"N", "Z"} = NZ(after.A)
<1>1. CASE model = "nmos"
  BY <1>1, NmosAdds DEF Adc
<1>2. CASE model = "cmos"
  BY <1>2, CmosAdds DEF Adc
<1>. QED
  BY <1>1, <1>2 DEF AluType, Decimal

LEMMA DecimalModeSubtracts ==
  ASSUME AluType, Decimal, NEW a \in Bytes, NEW value \in Bytes, Bcd(a), Bcd(value),
         NEW flags, "D" \in flags
  PROVE  LET after == Sbc(model, a, flags, value)
         IN  /\ Subtracts(after, a, value, Carry(flags))
             /\ model = "cmos" => after.P \cap {"N", "Z"} = NZ(after.A)
<1>1. CASE model = "nmos"
  BY <1>1, NmosSubtracts DEF Sbc
<1>2. CASE model = "cmos"
  BY <1>2, CmosSubtracts DEF Sbc
<1>. QED
  BY <1>1, <1>2 DEF AluType, Decimal

(* ADC on packed decimal numbers gives their sum and its carry.            *)
THEOREM DecimalSum == AluSpec => []DecimalAddition
<1>1. AluType => DecimalAddition
  <2>. SUFFICES ASSUME AluType, Decimal, Bcd(A), NEW value \in Bytes, Bcd(value)
                PROVE  LET after == Adc(model, A, P, value)
                           total == Value(A) + Value(value) + Carry(P)
                       IN  /\ Bcd(after.A)
                           /\ Value(after.A) + 100 * Carry(after.P) = total
                           /\ model = "cmos" => after.P \cap {"N", "Z"} = NZ(after.A)
    BY DEF DecimalAddition
  <2>1. A \in Bytes /\ "D" \in P
    BY DEF AluType, Decimal
  <2>. QED
    BY <2>1, DecimalModeAdds, AddsIsSum
<1>. QED
  BY <1>1, AluTypeHolds, PTL

(* SBC gives their difference, with the carry clear for a borrow.          *)
THEOREM DecimalDifference == AluSpec => []DecimalSubtraction
<1>1. AluType => DecimalSubtraction
  <2>. SUFFICES ASSUME AluType, Decimal, Bcd(A), NEW value \in Bytes, Bcd(value)
                PROVE  LET after == Sbc(model, A, P, value)
                           total == Value(A) - Value(value) - (1 - Carry(P))
                       IN  /\ Bcd(after.A)
                           /\ Value(after.A) - 100 * (1 - Carry(after.P)) = total
                           /\ model = "cmos" => after.P \cap {"N", "Z"} = NZ(after.A)
    BY DEF DecimalSubtraction
  <2>1. A \in Bytes /\ "D" \in P
    BY DEF AluType, Decimal
  <2>. QED
    BY <2>1, DecimalModeSubtracts, SubtractsIsDifference
<1>. QED
  BY <1>1, AluTypeHolds, PTL

-----------------------------------------------------------------------------
(* Subtraction takes back what addition added.                             *)

(* The borrow is the complement of the carry that came in.                 *)
Borrowed(flags, sum) == IF "C" \in flags THEN sum.P \ {"C"} ELSE sum.P \cup {"C"}

LEMMA BorrowedFlags ==
  ASSUME NEW flags, NEW sum
  PROVE  /\ Carry(Borrowed(flags, sum)) = 1 - Carry(flags)
         /\ "D" \in Borrowed(flags, sum) <=> "D" \in sum.P
BY DEF Borrowed, Carry

LEMMA BinaryUndone ==
  ASSUME NEW a \in Bytes, NEW value \in Bytes, NEW flags
  PROVE  LET sum  == AdcBinary(a, flags, value)
             back == SbcBinary(sum.A, Borrowed(flags, sum), value)
         IN  back.A = a /\ Carry(back.P) = 1 - Carry(sum.P)
<1> DEFINE sum   == AdcBinary(a, flags, value)
           back  == SbcBinary(sum.A, Borrowed(flags, sum), value)
           total == a + value + Carry(flags)
           minus == sum.A - value - Carry(flags)
<1>1. Carry(flags) \in {0, 1} /\ a \in 0 .. 255 /\ value \in 0 .. 255
  BY CarryType DEF Bytes
<1>2. sum.A = total % 256 /\ ("C" \in sum.P <=> total > 255)
  BY AdcBinaryNumbers
<1>3. sum.A = (IF total > 255 THEN total - 256 ELSE total) /\ sum.A \in Bytes
  <2>. HIDE DEF sum
  <2>1. total \in 0 .. 511
    <3> DEFINE carry == Carry(flags)
    <3>1. carry \in {0, 1}
      BY <1>1
    <3>. HIDE DEF carry
    <3>2. a + value + carry \in 0 .. 511
      BY <1>1, <3>1
    <3>. QED
      BY <3>2 DEF carry
  <2>. HIDE DEF total
  <2>2. total % 256 = (IF total > 255 THEN total - 256 ELSE total) /\ total % 256 \in Bytes
    <3>1. total > 255 => total % 256 = total - 256
      BY <2>1
    <3>2. ~(total > 255) => total % 256 = total
      BY <2>1
    <3>. QED
      BY <2>1, <3>1, <3>2 DEF Bytes
  <2>. QED
    BY <1>2, <2>2
<1>4. sum.A \in Bytes
  BY <1>3
<1>5. Carry(Borrowed(flags, sum)) = 1 - Carry(flags)
  BY BorrowedFlags
<1>. HIDE DEF sum
<1>6. back.A = minus % 256 /\ ("C" \in back.P <=> minus >= 0)
  <2>1. LET m == sum.A - value - (1 - Carry(Borrowed(flags, sum)))
        IN  back.A = m % 256 /\ ("C" \in back.P <=> m >= 0)
    BY <1>4, SbcBinaryNumbers
  <2>2. 1 - Carry(Borrowed(flags, sum)) = Carry(flags)
    BY <1>1, <1>5
  <2>. QED
    BY <2>1, <2>2
<1>. HIDE DEF back
<1>7. CASE total > 255
  <2>1. minus = a - 256
    BY <1>1, <1>3, <1>7
  <2>2. back.A = a /\ "C" \notin back.P
    BY <1>1, <1>6, <2>1
  <2>. QED
    BY <1>2, <1>7, <2>2 DEF Carry, sum, back
<1>8. CASE total <= 255
  <2>1. minus = a
    BY <1>1, <1>3, <1>8
  <2>2. back.A = a /\ "C" \in back.P
    BY <1>1, <1>6, <2>1
  <2>. QED
    BY <1>1, <1>2, <1>8, <2>2 DEF Carry, sum, back
<1>. QED
  BY <1>1, <1>7, <1>8

(* A packed number is determined by its value.                             *)
LEMMA ValueDetermines ==
  ASSUME NEW a \in Bytes, NEW b \in Bytes, Bcd(a), Bcd(b), Value(a) = Value(b)
  PROVE  a = b
<1>1. /\ High(a) \in 0 .. 9 /\ Low(a) \in 0 .. 9 /\ a = High(a) * 16 + Low(a)
      /\ High(b) \in 0 .. 9 /\ Low(b) \in 0 .. 9 /\ b = High(b) * 16 + Low(b)
  BY BcdDigits, Nibbles
<1>2. High(a) * 10 + Low(a) = High(b) * 10 + Low(b)
  BY DEF Value
<1>. QED
  BY <1>1, <1>2

(* The sum's carry and the difference's borrow cancel out.                 *)
LEMMA DecimalUndone ==
  ASSUME AluType, Decimal, NEW value \in Bytes, Bcd(A), Bcd(value)
  PROVE  LET sum  == Adc(model, A, P, value)
             back == Sbc(model, sum.A, Borrowed(P, sum), value)
         IN  back.A = A /\ Carry(back.P) = 1 - Carry(sum.P)
<1> DEFINE sum  == Adc(model, A, P, value)
           back == Sbc(model, sum.A, Borrowed(P, sum), value)
<1>1. A \in Bytes /\ "D" \in P /\ Carry(P) \in {0, 1}
  BY CarryType DEF AluType, Decimal
<1>2. /\ sum.A \in Bytes /\ Bcd(sum.A)
      /\ Value(sum.A) + 100 * Carry(sum.P) = Value(A) + Value(value) + Carry(P)
  BY <1>1, DecimalModeAdds, AddsIsSum
<1>3. "D" \in sum.P
  BY <1>1, ResultFlags DEF Adc, AdcBinary, AdcDecimalNmos, AdcDecimalCmos
<1>4. Carry(Borrowed(P, sum)) = 1 - Carry(P) /\ "D" \in Borrowed(P, sum)
  BY <1>3, BorrowedFlags
<1>5. /\ back.A \in Bytes /\ Bcd(back.A)
      /\ Value(back.A) - 100 * (1 - Carry(back.P))
           = Value(sum.A) - Value(value) - (1 - Carry(Borrowed(P, sum)))
  BY <1>2, <1>4, DecimalModeSubtracts, SubtractsIsDifference
<1>6. /\ Value(A) \in 0 .. 99 /\ Value(value) \in 0 .. 99
      /\ Value(sum.A) \in 0 .. 99 /\ Value(back.A) \in 0 .. 99
  BY <1>1, <1>2, <1>5, BcdDigits
<1>7. Carry(sum.P) \in {0, 1} /\ Carry(back.P) \in {0, 1}
  BY CarryType
<1>8. Value(back.A) = Value(A) /\ Carry(back.P) = 1 - Carry(sum.P)
  <2>1. 1 - Carry(Borrowed(P, sum)) = Carry(P)
    BY <1>1, <1>4
  <2>. HIDE DEF sum, back
  <2>2. /\ Value(sum.A) + 100 * Carry(sum.P) = Value(A) + Value(value) + Carry(P)
        /\ Value(back.A) - 100 * (1 - Carry(back.P)) = Value(sum.A) - Value(value) - Carry(P)
    BY <1>2, <1>5, <2>1
  <2>3. Value(value) \in Int /\ Value(sum.A) \in Int /\ Carry(P) \in Int
    BY <1>1, <1>6
  <2> DEFINE before == Value(A)
             mid    == Value(sum.A)
             after  == Value(back.A)
             added  == Value(value)
             in     == Carry(P)
             out    == Carry(sum.P)
             borrow == Carry(back.P)
  <2>4. /\ before \in 0 .. 99 /\ after \in 0 .. 99 /\ added \in Int /\ mid \in Int
        /\ in \in Int /\ out \in {0, 1} /\ borrow \in {0, 1}
        /\ mid + 100 * out = before + added + in
        /\ after - 100 * (1 - borrow) = mid - added - in
    BY <1>6, <1>7, <2>2, <2>3
  <2>. HIDE DEF before, mid, after, added, in, out, borrow
  <2>5. after = before /\ borrow = 1 - out
    BY <2>4
  <2>. QED
    BY <2>5 DEF before, after, out, borrow
<1>. QED
  BY <1>1, <1>5, <1>8, ValueDetermines

(* Whatever the mode, SBC with the carry that went into an ADC for its     *)
(* borrow restores the accumulator, and borrows exactly if the ADC carried. *)
THEOREM SubtractionUndoes == AluSpec => []SubtractionUndoesAddition
<1>1. AluType => SubtractionUndoesAddition
  <2>. SUFFICES ASSUME AluType, NEW value \in Bytes, Decimal => Bcd(A) /\ Bcd(value)
                PROVE  LET sum  == Adc(model, A, P, value)
                           back == Sbc(model, sum.A, Borrowed(P, sum), value)
                       IN  back.A = A /\ Carry(back.P) = 1 - Carry(sum.P)
    BY DEF SubtractionUndoesAddition, Borrowed
  <2>1. CASE Decimal
    BY <2>1, DecimalUndone
  <2>2. CASE ~Decimal
    <3> DEFINE sum == AdcBinary(A, P, value)
    <3>1. A \in Bytes
      BY DEF AluType
    <3>2. "D" \in Borrowed(P, sum) <=> "D" \in P
      BY <3>1, BorrowedFlags, AdcBinaryNumbers
    <3>3. /\ Adc(model, A, P, value) = sum
          /\ Sbc(model, sum.A, Borrowed(P, sum), value)
               = SbcBinary(sum.A, Borrowed(P, sum), value)
      BY <2>2, <3>2 DEF Adc, Sbc, Decimal
    <3>. QED
      BY <3>1, <3>3, BinaryUndone
  <2>. QED
    BY <2>1, <2>2
<1>. QED
  BY <1>1, AluTypeHolds, PTL
===============================================================================
