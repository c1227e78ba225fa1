---------------------------- MODULE Snapshot_proofs ----------------------------
(***************************************************************************)
(* Proofs that a snapshot holds the whole state of the core, for every     *)
(* model, every set of opcodes and any distance between save and load: the *)
(* bytes of the image give back what was put into them, what they hold is  *)
(* always a state the core can go on from, and saving and loading are a    *)
(* checkpoint of the core that looks at its lines in every cycle.          *)
(***************************************************************************)
EXTENDS Snapshot, Qe6502_proofs

-----------------------------------------------------------------------------
(* Bytes and what is in them.                                              *)

(* A sum of weighted bits has these bits.                                  *)
LEMMA InterruptsReadBack ==
  ASSUME NEW ints \in SUBSET InterruptBits
  PROVE  NamesIn(InterruptByte(ints), InterruptBit) = ints
<1> DEFINE bit(name) == IF name \in ints THEN 1 ELSE 0
           a == bit("sampling")
           b == bit("nmi_pin")
           c == bit("nmi_last")
           d == bit("nmi_edge")
           e == bit("nmi_taken")
           f == bit("irq_pin")
           g == bit("irq_taken")
           h == bit("sampling_off")
           byte == InterruptByte(ints)
<1>1. byte = a + 2 * b + 4 * c + 8 * d + 16 * e + 32 * f + 64 * g + 128 * h
  BY DEF InterruptByte, InterruptBit
<1>2. /\ a \in {0, 1} /\ b \in {0, 1} /\ c \in {0, 1} /\ d \in {0, 1}
      /\ e \in {0, 1} /\ f \in {0, 1} /\ g \in {0, 1} /\ h \in {0, 1}
  OBVIOUS
<1>3. /\ (byte \div 1) % 2 = a /\ (byte \div 2) % 2 = b
      /\ (byte \div 4) % 2 = c /\ (byte \div 8) % 2 = d
      /\ (byte \div 16) % 2 = e /\ (byte \div 32) % 2 = f
      /\ (byte \div 64) % 2 = g /\ (byte \div 128) % 2 = h
  <2>. HIDE DEF bit, byte, a, b, c, d, e, f, g, h
  <2>1. (byte \div 1) % 2 = a
    <3> DEFINE low  == 0
               high == a + 2 * b + 4 * c + 8 * d + 16 * e + 32 * f + 64 * g + 128 * h
    <3>1. byte = low + 1 * high
      BY <1>1, <1>2
    <3>2. low \in 0 .. 0 /\ high \in Nat
      BY <1>1, <1>2
    <3>3. high % 2 = a
      BY <1>1, <1>2
    <3>. HIDE DEF low, high
    <3>4. byte \div 1 = high
      BY <3>1, <3>2
    <3>. QED
      BY <3>3, <3>4
  <2>2. (byte \div 2) % 2 = b
    <3> DEFINE low  == a
               high == b + 2 * c + 4 * d + 8 * e + 16 * f + 32 * g + 64 * h
    <3>1. byte = low + 2 * high
      BY <1>1, <1>2
    <3>2. low \in 0 .. 1 /\ high \in Nat
      BY <1>1, <1>2
    <3>3. high % 2 = b
      BY <1>1, <1>2
    <3>. HIDE DEF low, high
    <3>4. byte \div 2 = high
      BY <3>1, <3>2
    <3>. QED
      BY <3>3, <3>4
  <2>3. (byte \div 4) % 2 = c
    <3> DEFINE low  == a + 2 * b
               high == c + 2 * d + 4 * e + 8 * f + 16 * g + 32 * h
    <3>1. byte = low + 4 * high
      BY <1>1, <1>2
    <3>2. low \in 0 .. 3 /\ high \in Nat
      BY <1>1, <1>2
    <3>3. high % 2 = c
      BY <1>1, <1>2
    <3>. HIDE DEF low, high
    <3>4. byte \div 4 = high
      BY <3>1, <3>2
    <3>. QED
      BY <3>3, <3>4
  <2>4. (byte \div 8) % 2 = d
    <3> DEFINE low  == a + 2 * b + 4 * c
               high == d + 2 * e + 4 * f + 8 * g + 16 * h
    <3>1. byte = low + 8 * high
      BY <1>1, <1>2
    <3>2. low \in 0 .. 7 /\ high \in Nat
      BY <1>1, <1>2
    <3>3. high % 2 = d
      BY <1>1, <1>2
    <3>. HIDE DEF low, high
    <3>4. byte \div 8 = high
      BY <3>1, <3>2
    <3>. QED
      BY <3>3, <3>4
  <2>5. (byte \div 16) % 2 = e
    <3> DEFINE low  == a + 2 * b + 4 * c + 8 * d
               high == e + 2 * f + 4 * g + 8 * h
    <3>1. byte = low + 16 * high
      BY <1>1, <1>2
    <3>2. low \in 0 .. 15 /\ high \in Nat
      BY <1>1, <1>2
    <3>3. high % 2 = e
      BY <1>1, <1>2
    <3>. HIDE DEF low, high
    <3>4. byte \div 16 = high
      BY <3>1, <3>2
    <3>. QED
      BY <3>3, <3>4
  <2>6. (byte \div 32) % 2 = f
    <3> DEFINE low  == a + 2 * b + 4 * c + 8 * d + 16 * e
               high == f + 2 * g + 4 * h
    <3>1. byte = low + 32 * high
      BY <1>1, <1>2
    <3>2. low \in 0 .. 31 /\ high \in Nat
      BY <1>1, <1>2
    <3>3. high % 2 = f
      BY <1>1, <1>2
    <3>. HIDE DEF low, high
    <3>4. byte \div 32 = high
      BY <3>1, <3>2
    <3>. QED
      BY <3>3, <3>4
  <2>7. (byte \div 64) % 2 = g
    <3> DEFINE low  == a + 2 * b + 4 * c + 8 * d + 16 * e + 32 * f
               high == g + 2 * h
    <3>1. byte = low + 64 * high
      BY <1>1, <1>2
    <3>2. low \in 0 .. 63 /\ high \in Nat
      BY <1>1, <1>2
    <3>3. high % 2 = g
      BY <1>1, <1>2
    <3>. HIDE DEF low, high
    <3>4. byte \div 64 = high
      BY <3>1, <3>2
    <3>. QED
      BY <3>3, <3>4
  <2>8. (byte \div 128) % 2 = h
    <3> DEFINE low  == a + 2 * b + 4 * c + 8 * d + 16 * e + 32 * f + 64 * g
               high == h
    <3>1. byte = low + 128 * high
      BY <1>1, <1>2
    <3>2. low \in 0 .. 127 /\ high \in Nat
      BY <1>1, <1>2
    <3>3. high % 2 = h
      BY <1>1, <1>2
    <3>. HIDE DEF low, high
    <3>4. byte \div 128 = high
      BY <3>1, <3>2
    <3>. QED
      BY <3>3, <3>4
  <2>. QED
    BY <2>1, <2>2, <2>3, <2>4, <2>5, <2>6, <2>7, <2>8
<1>. HIDE DEF byte
<1>4. DOMAIN InterruptBit = InterruptBits
  BY DEF InterruptBit, InterruptBits
<1>5. \A name \in InterruptBits :
        (byte \div InterruptBit[name]) % 2 = bit(name)
  <2>. HIDE DEF bit
  <2>. QED
    BY <1>3 DEF InterruptBit, InterruptBits
<1>6. NamesIn(byte, InterruptBit) = ints
  BY <1>4, <1>5 DEF NamesIn
<1>. QED
  BY <1>6 DEF byte

LEMMA FlagsReadBack ==
  ASSUME NEW flags \in SUBSET Flags
  PROVE  NamesIn(FlagByte(flags), FlagBit) = flags
<1> DEFINE bit(name) == IF name \in flags THEN 1 ELSE 0
           byte == FlagByte(flags)
<1>1. byte = 4 * bit("I") + 8 * bit("D")
  BY DEF FlagByte, FlagBit
<1>2. \A name : bit(name) \in {0, 1} /\ (bit(name) = 1 <=> name \in flags)
  OBVIOUS
<1>. HIDE DEF bit, byte
<1>3. (byte \div 4) % 2 = bit("I") /\ (byte \div 8) % 2 = bit("D")
  BY <1>1, <1>2
<1>4. DOMAIN FlagBit = Flags
  BY DEF FlagBit, Flags
<1>5. \A name \in Flags : (byte \div FlagBit[name]) % 2 = bit(name)
  BY <1>3 DEF FlagBit, Flags
<1>6. NamesIn(byte, FlagBit) = flags
  BY <1>2, <1>4, <1>5 DEF NamesIn
<1>. QED
  BY <1>6 DEF byte

LEMMA WordReadsBack ==
  ASSUME NEW word \in Nat
  PROVE  (word \div 256) * 256 + (word % 256) = word
OBVIOUS

LEMMA CursorReadsBack ==
  ASSUME NEW at \in Cursors
  PROVE  Cursor(at) \in Nat /\ CursorIn(Cursor(at)) = at
<1>1. at \in 0 .. 2111
  BY DEF Cursors, Index, MicrocodePerSlot, SlotIrq
<1> DEFINE digit == ModelNumber[Model]
<1>2. digit \in 0 .. 4
  BY ModelAssumption DEF Models, ModelNumber
<1>3. Cursor(at) = digit * 4096 + at
  BY DEF Cursor
<1>. HIDE DEF digit
<1>4. (digit * 4096 + at) % 4096 = at /\ digit * 4096 + at \in Nat
  BY <1>1, <1>2
<1>. QED
  BY <1>3, <1>4 DEF CursorIn

-----------------------------------------------------------------------------
(* The image, byte by byte.                                                *)
Image == [WriteCpu(Blank, 4) EXCEPT ![20] = tick]

LEMMA ImageBytes ==
  /\ DOMAIN Image = 0 .. 23
  /\ Image[6] = Cursor(microcode) \div 256 /\ Image[7] = Cursor(microcode) % 256
  /\ Image[10] = latch_data
  /\ Image[11] = IF hijack THEN 1 ELSE 0
  /\ Image[12] = advance \div 256 /\ Image[13] = advance % 256
  /\ Image[18] = FlagByte(P)
  /\ Image[19] = InterruptByte(interrupts)
  /\ Image[20] = tick
<1> DEFINE first == WriteU16(Blank, 6, Cursor(microcode))
           words == WriteU16(first, 12, advance)
<1>1. /\ first = [o \in 0 .. 23 |-> IF o = 6 THEN Cursor(microcode) \div 256
                                     ELSE IF o = 7 THEN Cursor(microcode) % 256 ELSE 0]
  BY DEF WriteU16, Blank
<1>2. words = [o \in 0 .. 23 |-> IF o = 12 THEN advance \div 256
                                 ELSE IF o = 13 THEN advance % 256 ELSE first[o]]
  <2>. HIDE DEF first
  <2>1. DOMAIN first = 0 .. 23
    BY <1>1
  <2>. QED
    BY <1>1, <2>1 DEF WriteU16
<1>3. Image = [words EXCEPT ![4] = ModelNumber[Model],
                            ![10] = latch_data,
                            ![11] = IF hijack THEN 1 ELSE 0,
                            ![18] = FlagByte(P),
                            ![19] = InterruptByte(interrupts),
                            ![20] = tick]
  BY DEF Image, WriteCpu
<1>. HIDE DEF first, words
<1>. QED
  BY <1>1, <1>2, <1>3

(* What a load reads is what the save wrote.                               *)
Context ==
  [ microcode |-> microcode, latch_data |-> latch_data, hijack |-> hijack,
    advance |-> advance, P |-> P, interrupts |-> interrupts ]

LEMMA ReadsBack ==
  ASSUME TypeOK, NoHole
  PROVE  /\ ReadCpu(Image, 4) = Context
         /\ Image[20] = tick
         /\ Image # NoImage
<1>1. microcode \in Cursors
  BY FilledIsCursor DEF NoHole, TypeOK, ExecutionTypeOK
<1>2. /\ P \in SUBSET Flags /\ interrupts \in SUBSET InterruptBits
      /\ hijack \in BOOLEAN /\ advance \in Nat
  BY DEF TypeOK, ExecutionTypeOK
<1>3. CursorIn(ReadU16(Image, 6)) = microcode
  BY <1>1, ImageBytes, CursorReadsBack, WordReadsBack DEF ReadU16
<1>4. ReadU16(Image, 12) = advance
  BY <1>2, ImageBytes, WordReadsBack DEF ReadU16
<1>5. (Image[11] # 0) = hijack
  BY <1>2, ImageBytes
<1>6. NamesIn(Image[18], FlagBit) = P
  BY <1>2, ImageBytes, FlagsReadBack
<1>7. NamesIn(Image[19], InterruptBit) = interrupts
  BY <1>2, ImageBytes, InterruptsReadBack
<1>8. Image # NoImage
  <2>1. 0 \in DOMAIN Image
    BY ImageBytes
  <2>. QED
    BY <2>1 DEF NoImage
<1>9. ReadCpu(Image, 4) = [ microcode |-> CursorIn(ReadU16(Image, 6)), latch_data |-> Image[10],
                            hijack |-> Image[11] # 0, advance |-> ReadU16(Image, 12),
                            P |-> NamesIn(Image[18], FlagBit),
                            interrupts |-> NamesIn(Image[19], InterruptBit) ]
  BY DEF ReadCpu
<1>. HIDE DEF Image
<1>. QED
  BY <1>3, <1>4, <1>5, <1>6, <1>7, <1>8, <1>9, ImageBytes DEF Context

-----------------------------------------------------------------------------
(* What the core and the image can hold.                                   *)

(* A context the core can go on from with a request pending.               *)
Sound(cpu, request) ==
  /\ cpu.microcode \in Nat /\ OpAt(cpu.microcode) # "empty"
  /\ cpu.P \subseteq Flags /\ cpu.latch_data \in Nat /\ cpu.advance \in Nat
  /\ request \in Requests
  /\ cpu.interrupts \subseteq InterruptBits /\ cpu.hijack \in BOOLEAN
  /\ Pending(cpu.interrupts) => cpu.hijack
  /\ cpu.hijack => "sampling" \notin cpu.interrupts

SnapshotInv ==
  /\ TypeOK /\ NoHole /\ PendingHijacks /\ NoStaleSampling
  /\ image # NoImage => Sound(ReadCpu(image, 4), image[20])

LEMMA SoundContext ==
  Sound(Context, tick) <=> TypeOK /\ NoHole /\ PendingHijacks /\ NoStaleSampling
BY DEF Sound, Context, TypeOK, ExecutionTypeOK, NoHole, PendingHijacks, NoStaleSampling

(* A step of the core leaves the image alone or drops it.                  *)
LEMMA AgeingKeepsImage ==
  ASSUME Ageing
  PROVE  image' = image \/ image' = NoImage
BY DEF Ageing

LEMMA LoadsContext ==
  ASSUME Load
  PROVE  Context' = ReadCpu(image, 4) /\ tick' = image[20] /\ image # NoImage /\ image' = image
BY DEF Load, Context, ReadCpu

LEMMA SavesContext ==
  ASSUME Save, TypeOK, NoHole
  PROVE  ReadCpu(image, 4)' = Context /\ image'[20] = tick /\ image' # NoImage
<1>1. image' = Image
  BY DEF Save, Image
<1>2. ReadCpu(image, 4)' = ReadCpu(image', 4)
  BY DEF ReadCpu, ReadU16, CursorIn, NamesIn, FlagBit, InterruptBit
<1>. QED
  BY <1>1, <1>2, ReadsBack

LEMMA SnapshotInvInitially ==
  ASSUME SnapshotInit
  PROVE  SnapshotInv
<1>1. TypeOK
  BY RestartedType DEF SnapshotInit, Init, TypeOK, ExecutionTypeOK
<1>2. NoHole
  BY ClosedAssumption DEF SnapshotInit, Init, Restarted, NoHole, Closed, Running
<1>3. PendingHijacks /\ NoStaleSampling
  BY DEF SnapshotInit, Init, PendingHijacks, NoStaleSampling, Pending, TakenBits
<1>. QED
  BY <1>1, <1>2, <1>3 DEF SnapshotInv, SnapshotInit

LEMMA SnapshotInvInductive ==
  ASSUME SnapshotInv, [SnapshotNext]_snapshotVars
  PROVE  SnapshotInv'
<1> DEFINE CoreInv == TypeOK /\ NoHole /\ PendingHijacks /\ NoStaleSampling
           ImageInv == image # NoImage => Sound(ReadCpu(image, 4), image[20])
<1>1. CASE Next /\ Ageing
  <2>1. CoreInv'
    BY <1>1, TypeKept, FillingKept, HookKept, SamplingKept DEF SnapshotInv
  <2>2. ImageInv'
    BY <1>1, AgeingKeepsImage DEF SnapshotInv
  <2>. QED
    BY <2>1, <2>2 DEF SnapshotInv
<1>2. CASE Save
  <2>1. CoreInv'
    BY <1>2, TypeKept, FillingKept, HookKept, SamplingKept DEF SnapshotInv, Save
  <2>2. ImageInv'
    BY <1>2, SavesContext, SoundContext DEF SnapshotInv
  <2>. QED
    BY <2>1, <2>2 DEF SnapshotInv
<1>3. CASE Load
  <2>1. Sound(Context', tick')
    BY <1>3, LoadsContext DEF SnapshotInv
  <2>2. CoreInv'
    BY <2>1 DEF Sound, Context, TypeOK, ExecutionTypeOK, NoHole, PendingHijacks,
                NoStaleSampling
  <2>3. ImageInv'
    BY <1>3, LoadsContext DEF SnapshotInv
  <2>. QED
    BY <2>2, <2>3 DEF SnapshotInv
<1>4. CASE UNCHANGED snapshotVars
  <2>1. CoreInv'
    BY <1>4, TypeKept, FillingKept, HookKept, SamplingKept DEF SnapshotInv, snapshotVars
  <2>2. ImageInv'
    BY <1>4 DEF SnapshotInv, snapshotVars, vars
  <2>. QED
    BY <2>1, <2>2 DEF SnapshotInv
<1>. QED
  BY <1>1, <1>2, <1>3, <1>4 DEF SnapshotNext

(* The resolver stays hooked in while an interrupt is pending, and no      *)
(* sampling bit is left for it, also in a core that loads snapshots of     *)
(* itself between any two ticks, for every model and host.                 *)
THEOREM SnapshotsKeepHook == SnapshotSpec => [](PendingHijacks /\ NoStaleSampling)
<1>1. SnapshotInv => PendingHijacks /\ NoStaleSampling
  BY DEF SnapshotInv
<1>. QED
  BY <1>1, SnapshotInvInitially, SnapshotInvInductive, PTL DEF SnapshotSpec

-----------------------------------------------------------------------------
(* The refinement.                                                         *)

(* NmiLevelKnown of the core in a context.                                 *)
LevelKnownIn(cpu) ==
  (~cpu.hijack \/ "sampling_off" \in cpu.interrupts) /\ "nmi_last" \in cpu.interrupts
    => "nmi_pin" \in cpu.interrupts

LevelInv ==
  /\ NmiLevelKnown
  /\ image # NoImage => LevelKnownIn(ReadCpu(image, 4))

LEMMA LevelInContext == LevelKnownIn(Context) <=> NmiLevelKnown
BY DEF LevelKnownIn, Context, NmiLevelKnown

LEMMA LevelInvInductive ==
  ASSUME SnapshotInv, LevelInv, [PatientSnapshotNext]_snapshotVars
  PROVE  LevelInv'
<1>0. RefinementInv
  BY DEF SnapshotInv, LevelInv, RefinementInv
<1>1. CASE PatientNext /\ Ageing
  <2>1. NmiLevelKnown'
    BY <1>0, <1>1, RefinementInvInductive DEF RefinementInv
  <2>. QED
    BY <1>1, <2>1, AgeingKeepsImage DEF LevelInv
<1>2. CASE Save
  <2>1. NmiLevelKnown'
    BY <1>2 DEF Save, LevelInv, NmiLevelKnown, vars
  <2>. QED
    BY <1>2, <2>1, SavesContext, LevelInContext DEF SnapshotInv, LevelInv
<1>3. CASE Load
  <2>1. LevelKnownIn(Context')
    BY <1>3, LoadsContext DEF LevelInv
  <2>2. NmiLevelKnown'
    BY <2>1 DEF LevelKnownIn, Context, NmiLevelKnown
  <2>. QED
    BY <1>3, <2>2, LoadsContext DEF LevelInv
<1>4. CASE UNCHANGED snapshotVars
  BY <1>4 DEF snapshotVars, vars, LevelInv, NmiLevelKnown
<1>. QED
  BY <1>1, <1>2, <1>3, <1>4 DEF PatientSnapshotNext

(* The mapping, step by step.                                              *)
LEMMA KeptOfImage ==
  /\ image' = image => Kept' = Kept
  /\ image' = NoImage => Kept' = {}
<1>1. ASSUME image' = image PROVE Kept' = Kept
  <2>1. ReadCpu(image, 4)' = ReadCpu(image, 4) /\ NoImage' = NoImage
    BY <1>1 DEF ReadCpu, NoImage, ReadU16, CursorIn, NamesIn, FlagBit, InterruptBit
  <2>. QED
    BY <1>1, <2>1 DEF Kept
<1>2. ASSUME image' = NoImage PROVE Kept' = {}
  BY <1>2 DEF Kept, NoImage
<1>. QED
  BY <1>1, <1>2

LEMMA SaveTakes ==
  ASSUME SnapshotInv, Save
  PROVE  Take
<1>1. ReadCpu(image, 4)' = Context /\ image'[20] = tick /\ image' # NoImage
  BY SavesContext DEF SnapshotInv
<1>2. Kept' = {Present}
  BY <1>1 DEF Kept, Present, Context
<1>. QED
  BY <1>2 DEF Take, Save, vars, Polled!vars

LEMMA LoadRestores ==
  ASSUME Load
  PROVE  Restore
<1>1. Present' \in Kept
  BY LoadsContext DEF Kept, Present, Context
<1>. QED
  BY <1>1, KeptOfImage, LoadsContext DEF Restore

LEMMA SnapshotStepRefines ==
  ASSUME SnapshotInv, LevelInv, [PatientSnapshotNext]_snapshotVars
  PROVE  [CheckpointNext]_<<Polled!vars, Kept>>
<1>1. CASE PatientNext /\ Ageing
  <2>1. Polled!Next
    BY <1>1, StepIsPolled DEF SnapshotInv, LevelInv, RefinementInv
  <2>. QED
    BY <1>1, <2>1, AgeingKeepsImage, KeptOfImage DEF CheckpointNext
<1>2. CASE Save
  BY <1>2, SaveTakes DEF CheckpointNext
<1>3. CASE Load
  BY <1>3, LoadRestores DEF CheckpointNext
<1>4. CASE UNCHANGED snapshotVars
  BY <1>4, KeptOfImage DEF snapshotVars, vars, Polled!vars
<1>. QED
  BY <1>1, <1>2, <1>3, <1>4 DEF PatientSnapshotNext

(* A snapshot taken between any two ticks holds the whole state of the     *)
(* core: qe6502_load() resumes where qe6502_save() was called, and the     *)
(* core goes on like one that looks at its lines in every cycle, for every *)
(* model and every host that does not release NMI while the core is deaf.  *)
THEOREM PatientSnapshots == PatientSnapshotSpec => ResumesFromSnapshot
<1>1. SnapshotInit => SnapshotInv /\ LevelInv
  BY SnapshotInvInitially DEF SnapshotInit, Init, LevelInv, NmiLevelKnown
<1>2. [PatientSnapshotNext]_snapshotVars => [SnapshotNext]_snapshotVars
  BY DEF PatientSnapshotNext, SnapshotNext, PatientNext, Next
<1>3. SnapshotInv /\ [PatientSnapshotNext]_snapshotVars => SnapshotInv'
  BY <1>2, SnapshotInvInductive
<1>4. SnapshotInit => Polled!Init /\ Kept = {}
  BY SameRestarted DEF SnapshotInit, Init, Polled!Init, Kept
<1>. QED
  BY <1>1, <1>3, <1>4, LevelInvInductive, SnapshotStepRefines, PTL
     DEF PatientSnapshotSpec, ResumesFromSnapshot

(* The CMOS models are never deaf, so that it holds of them for any host.  *)
AwakeInv ==
  /\ NeverDeaf
  /\ image # NoImage => "sampling_off" \notin ReadCpu(image, 4).interrupts

LEMMA AwakeInvInductive ==
  ASSUME Model \in {"wdc", "rw", "st"}, SnapshotInv, AwakeInv, [SnapshotNext]_snapshotVars
  PROVE  AwakeInv'
<1>1. CASE Next /\ Ageing
  <2>1. NeverDeaf'
    BY <1>1, CmosStepNeverDeaf DEF SnapshotInv, AwakeInv
  <2>. QED
    BY <1>1, <2>1, AgeingKeepsImage DEF AwakeInv
<1>2. CASE Save
  BY <1>2, SavesContext DEF Save, vars, SnapshotInv, AwakeInv, NeverDeaf, Context
<1>3. CASE Load
  BY <1>3, LoadsContext DEF AwakeInv, NeverDeaf, Context
<1>4. CASE UNCHANGED snapshotVars
  BY <1>4 DEF snapshotVars, vars, AwakeInv, NeverDeaf
<1>. QED
  BY <1>1, <1>2, <1>3, <1>4 DEF SnapshotNext

(* The same on the CMOS models, for every host.                            *)
THEOREM CmosSnapshots ==
  ASSUME Model \in {"wdc", "rw", "st"}
  PROVE  SnapshotSpec => ResumesFromSnapshot
<1>1. SnapshotInit => SnapshotInv /\ AwakeInv
  BY SnapshotInvInitially DEF SnapshotInit, Init, AwakeInv, NeverDeaf
<1>2. AwakeInv /\ [SnapshotNext]_snapshotVars => [PatientSnapshotNext]_snapshotVars
  BY DEF AwakeInv, NeverDeaf, SnapshotNext, PatientSnapshotNext, Next, PatientNext,
         ReleasesNmiWhileDeaf
<1>3. SnapshotInv /\ AwakeInv /\ [SnapshotNext]_snapshotVars => SnapshotInv' /\ AwakeInv'
  BY SnapshotInvInductive, AwakeInvInductive
<1>4. SnapshotSpec => PatientSnapshotSpec
  BY <1>1, <1>2, <1>3, PTL DEF SnapshotSpec, PatientSnapshotSpec
<1>. QED
  BY <1>4, PatientSnapshots
=============================================================================
