-------------------------- MODULE AddressPath_proofs --------------------------
(***************************************************************************)
(* The arithmetic of the address path for all bytes, where model checking  *)
(* takes those at the edges: the sums that handlers put together from      *)
(* halves over several cycles are sums of sixteen bits.                    *)
(***************************************************************************)
EXTENDS AddressPath, TLAPS

(* Halves of a word.                                                       *)
LEMMA WordHalves ==
  ASSUME NEW word \in Address
  PROVE  /\ Low(word) \in Byte
         /\ High(word) \in Byte
         /\ word = 256 * High(word) + Low(word)
BY DEF Address, Byte, Low, High

LEMMA Wraps ==
  ASSUME NEW n \in Int
  PROVE  n % 65536 \in Address
BY DEF Address

(* An index added to the low byte, and its carry to the high byte, together *)
(* make the sum of sixteen bits.                                           *)
LEMMA LatchedSum ==
  ASSUME NEW low \in Byte, NEW high \in Byte, NEW i \in Byte
  PROVE  WithHigh(Low(low + i), Low(high + High(low + i))) = Plus(Word(high, low), i)
<1>1. /\ Low(low + i) \in Byte
      /\ Low(Low(low + i)) = Low(low + i)
  BY DEF Byte, Low
<1>2. CASE low + i < 256
  <2>1. Low(low + i) = low + i /\ High(low + i) = 0
    BY <1>2 DEF Byte, Low, High
  <2>2. Low(high + 0) = high
    BY DEF Low, Byte
  <2>3. (256 * high + low + i) % 65536 = 256 * high + low + i
    BY <1>2 DEF Byte
  <2>. QED
    BY <1>1, <2>1, <2>2, <2>3 DEF WithHigh, Plus, Word, Byte
<1>3. CASE low + i >= 256
  <2>1. Low(low + i) = low + i - 256 /\ High(low + i) = 1
    BY <1>3 DEF Byte, Low, High
  <2>2. \/ high < 255 /\ Low(high + 1) = high + 1
        \/ high = 255 /\ Low(high + 1) = 0
    BY DEF Low, Byte
  <2>3. \/ high < 255 /\ (256 * high + low + i) % 65536 = 256 * high + low + i
        \/ high = 255 /\ (256 * high + low + i) % 65536 = low + i - 256
    BY <1>3 DEF Byte
  <2>. QED
    BY <1>1, <2>1, <2>2, <2>3 DEF WithHigh, Plus, Word, Byte
<1>. QED
  BY <1>2, <1>3 DEF Byte

(* The carry is clear exactly if the address without it is the indexed one. *)
LEMMA ProbeKnowsPage ==
  ASSUME NEW low \in Byte, NEW high \in Byte, NEW i \in Byte
  PROVE  High(low + i) = 0 <=> WithHigh(Low(low + i), high) = Plus(Word(high, low), i)
<1>1. /\ Low(low + i) \in Byte
      /\ Low(Low(low + i)) = Low(low + i)
  BY DEF Byte, Low
<1>2. CASE low + i < 256
  <2>1. Low(low + i) = low + i /\ High(low + i) = 0
    BY <1>2 DEF Byte, Low, High
  <2>2. (256 * high + low + i) % 65536 = 256 * high + low + i
    BY <1>2 DEF Byte
  <2>. QED
    BY <1>1, <2>1, <2>2 DEF WithHigh, Plus, Word, Byte
<1>3. CASE low + i >= 256
  <2>1. Low(low + i) = low + i - 256 /\ High(low + i) = 1
    BY <1>3 DEF Byte, Low, High
  <2>2. \/ (256 * high + low + i) % 65536 = 256 * high + low + i
        \/ high = 255 /\ (256 * high + low + i) % 65536 = low + i - 256
    BY <1>3 DEF Byte
  <2>. QED
    BY <1>1, <2>1, <2>2 DEF WithHigh, Plus, Word, Byte
<1>. QED
  BY <1>2, <1>3 DEF Byte

(* Whatever X or Y, the base and memory are: the latches that an indexed   *)
(* access in the absolute mode has filled in an earlier cycle hold the low *)
(* byte of the indexed address and what the probe has to add to the high   *)
(* one; a store or a modification is then made at the indexed address.     *)
THEOREM StoreProbeCompletes ==
  ASSUME NEW low \in Byte, NEW high \in Byte, NEW pc, index \in Byte,
         latch_addr = LatchAddrAfter("latch_abx_base_read_pc_inc", low, pc),
         data = DataAfter("latch_abx_base_read_pc_inc", low)
  PROVE  LatchAddrAfter("w_indexed_probe", high, pc) = Plus(Word(high, low), index)
<1>1. latch_addr = Low(low + index) /\ data = High(low + index)
  BY DEF LatchAddrAfter, DataAfter
<1>2. LatchAddrAfter("w_indexed_probe", high, pc) = WithHigh(latch_addr, Low(high + data))
  BY DEF LatchAddrAfter
<1>. QED
  BY <1>1, <1>2, LatchedSum

(* A read has the indexed address at its probe if the probe finds no carry *)
(* in the latch, and in the cycle after it otherwise: the cursor skips     *)
(* that cycle exactly if it is not needed.                                 *)
THEOREM ReadProbeDecides ==
  ASSUME NEW low \in Byte, NEW high \in Byte, NEW pc, index \in Byte,
         latch_addr = LatchAddrAfter("latch_abx_base_read_pc_inc", low, pc),
         data = DataAfter("latch_abx_base_read_pc_inc", low)
  PROVE  /\ ~Crosses("r_indexed_probe", high, pc) <=>
              AddressAfter("r_indexed_probe", high, pc) = Plus(Word(high, low), index)
         /\ Crosses("r_indexed_probe", high, pc) =>
              LatchAddrAfter("r_indexed_probe", high, pc) = Plus(Word(high, low), index)
<1>1. latch_addr = Low(low + index) /\ data = High(low + index)
  BY DEF LatchAddrAfter, DataAfter
<1>2. Crosses("r_indexed_probe", high, pc) <=> data # 0
  BY DEF Crosses
<1>3. AddressAfter("r_indexed_probe", high, pc) = WithHigh(latch_addr, high)
  BY DEF AddressAfter, PushHandlers, PullHandlers
<1>4. data # 0 =>
        LatchAddrAfter("r_indexed_probe", high, pc) = WithHigh(latch_addr, Low(high + data))
  BY DEF LatchAddrAfter
<1>. QED
  BY <1>1, <1>2, <1>3, <1>4, LatchedSum, ProbeKnowsPage

(* A branch that does not leave the page has its target by the low byte of *)
(* PC alone.                                                               *)
THEOREM BranchLands ==
  ASSUME NEW pc \in Address, NEW b \in Byte, ~Crosses("branch_apply", b, pc)
  PROVE  PCAfter("branch_apply", b, pc) = Plus(pc, Signed(b))
<1>. DEFINE target == Plus(pc, Signed(b))
<1>1. Signed(b) \in Int
  BY DEF Signed, Byte
<1>2. target \in Address
  <2>1. pc + Signed(b) \in Int
    BY <1>1 DEF Address
  <2>. HIDE DEF target
  <2>2. target = (pc + Signed(b)) % 65536
    BY DEF target, Plus
  <2>. QED
    BY <2>1, <2>2, Wraps
<1>3. High(target) = High(pc)
  BY DEF Crosses
<1>4. target = 256 * High(target) + Low(target)
  BY <1>2, WordHalves
<1>5. WithLow(pc, Low(target)) = target
  BY <1>3, <1>4 DEF WithLow, Word
<1>. QED
  BY <1>5 DEF PCAfter
===============================================================================
