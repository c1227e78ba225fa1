------------------------------ MODULE Snapshot ------------------------------
(***************************************************************************)
(* Saving and loading the core between any two ticks (qe6502_save and      *)
(* qe6502_load, through qe6502abi_save and qe6502abi_load).  The image is  *)
(* the bytes at their offsets; the registers, which the core's control     *)
(* does not depend on, have none here, and neither has the magic number,   *)
(* which the load copies into the context and does not check.  PC is       *)
(* counted from the last opcode fetched, as in `advance'.                  *)
(***************************************************************************)
EXTENDS Qe6502Polled

CONSTANT MaxAge     \* steps of the core between a save and the load, a bound

ASSUME MaxAgeAssumption == MaxAge \in Nat

VARIABLES
  image,      \* the snapshot: a function from offsets to bytes
  age         \* steps of the core since it was taken

snapshotVars == <<vars, image, age>>

NoImage == <<>>     \* no snapshot has been taken

Blank == [offset \in 0 .. 23 |-> 0]     \* the host's buffer, as far as it is used

-----------------------------------------------------------------------------
ModelNumber == [nmos |-> 0, nes |-> 1, wdc |-> 2, rw |-> 3, st |-> 4]

InterruptBit ==
  [ sampling |-> 1, nmi_pin |-> 2, nmi_last |-> 4, nmi_edge |-> 8, nmi_taken |-> 16,
    irq_pin |-> 32, irq_taken |-> 64, sampling_off |-> 128 ]

FlagBit == [I |-> 4, D |-> 8]

(* The bytes with the bits of a set of names, and the names in a byte.     *)
InterruptByte(ints) ==
  LET bit(name) == IF name \in ints THEN InterruptBit[name] ELSE 0
  IN  bit("sampling") + bit("nmi_pin") + bit("nmi_last") + bit("nmi_edge")
        + bit("nmi_taken") + bit("irq_pin") + bit("irq_taken") + bit("sampling_off")
FlagByte(flags) ==
  LET bit(name) == IF name \in flags THEN FlagBit[name] ELSE 0
  IN  bit("I") + bit("D")
NamesIn(byte, bit) == { name \in DOMAIN bit : (byte \div bit[name]) % 2 = 1 }

(* Mutant: the low byte comes first.                                       *)
WriteLowFirst(bytes, offset, value) ==
  [bytes EXCEPT ![offset + 1] = value \div 256, ![offset] = value % 256]

(* qe6502abi_write_u16, qe6502abi_read_u16: the high byte comes first.     *)
WriteU16(bytes, offset, value) ==
  [bytes EXCEPT ![offset] = value \div 256, ![offset + 1] = value % 256]
ReadU16(bytes, offset) == bytes[offset] * 256 + bytes[offset + 1]

(* QE6502_IDX: qe6502_t.microcode, with the model in its highest digit.    *)
Cursor(at) == ModelNumber[Model] * 4096 + at
CursorIn(word) == word % 4096

(* Mutant: a field of the context that is not written.                     *)
WriteCpuWithoutHijack(bytes, offset) ==
  LET words == WriteU16(WriteU16(bytes, offset + 2, Cursor(microcode)), offset + 8, advance)
  IN  [words EXCEPT ![offset]      = ModelNumber[Model],
                    ![offset + 6]  = latch_data,
                    ![offset + 14] = FlagByte(P),
                    ![offset + 15] = InterruptByte(interrupts)]

(* qe6502abi_write_cpu                                                     *)
WriteCpu(bytes, offset) ==
  LET words == WriteU16(WriteU16(bytes, offset + 2, Cursor(microcode)), offset + 8, advance)
  IN  [words EXCEPT ![offset]      = ModelNumber[Model],
                    ![offset + 6]  = latch_data,
                    ![offset + 7]  = IF hijack THEN 1 ELSE 0,
                    ![offset + 14] = FlagByte(P),
                    ![offset + 15] = InterruptByte(interrupts)]

(* Mutant: to be safe, the resolver is hooked after every load.            *)
ReadCpuHooks(bytes, offset) ==
  [ microcode  |-> CursorIn(ReadU16(bytes, offset + 2)),
    latch_data |-> bytes[offset + 6],
    hijack     |-> TRUE,
    advance    |-> ReadU16(bytes, offset + 8),
    P          |-> NamesIn(bytes[offset + 14], FlagBit),
    interrupts |-> NamesIn(bytes[offset + 15], InterruptBit) ]

(* qe6502abi_read_cpu, and the tick that goes with the context: four bytes *)
(* of which the request is what the host can tell apart.                   *)
ReadCpu(bytes, offset) ==
  [ microcode  |-> CursorIn(ReadU16(bytes, offset + 2)),
    latch_data |-> bytes[offset + 6],
    hijack     |-> bytes[offset + 7] # 0,
    advance    |-> ReadU16(bytes, offset + 8),
    P          |-> NamesIn(bytes[offset + 14], FlagBit),
    interrupts |-> NamesIn(bytes[offset + 15], InterruptBit) ]

-----------------------------------------------------------------------------
(* qe6502_save(): the host passes the tick it was given last.              *)
Save ==
  /\ image' = [WriteCpu(Blank, 4) EXCEPT ![20] = tick]
  /\ age' = 0
  /\ UNCHANGED vars

(* qe6502_load(): the context, whatever it was, becomes the saved one, and *)
(* the host goes on from the saved tick.                                   *)
Load ==
  /\ image # NoImage
  /\ LET cpu == ReadCpu(image, 4)
     IN  /\ microcode' = cpu.microcode
         /\ latch_data' = cpu.latch_data
         /\ hijack' = cpu.hijack
         /\ advance' = cpu.advance
         /\ P' = cpu.P
         /\ interrupts' = cpu.interrupts
  /\ tick' = image[20]
  /\ age' = 0
  /\ UNCHANGED image

(* A snapshot grown too old to be loaded is dropped.                       *)
Ageing ==
  IF image = NoImage \/ age = MaxAge
  THEN image' = NoImage /\ age' = 0
  ELSE age' = age + 1 /\ UNCHANGED image

SnapshotInit == Init /\ image = NoImage /\ age = 0

SnapshotNext == (Next /\ Ageing) \/ Save \/ Load

SnapshotSpec == SnapshotInit /\ [][SnapshotNext]_snapshotVars

(* The same with a host that does not release NMI while the detector is    *)
(* off.                                                                    *)
PatientSnapshotNext == (PatientNext /\ Ageing) \/ Save \/ Load

PatientSnapshotSpec == SnapshotInit /\ [][PatientSnapshotNext]_snapshotVars

-----------------------------------------------------------------------------
(* What a snapshot promises, told of PolledCore: a core with a checkpoint. *)

Present ==
  [ microcode |-> microcode, P |-> P, latch_data |-> latch_data, advance |-> advance,
    tick |-> tick, lines |-> interrupts \ {"sampling"} ]

(* The state in the image, if there is one.                                *)
Kept ==
  IF image = NoImage
  THEN {}
  ELSE LET cpu == ReadCpu(image, 4)
       IN  { [ microcode |-> cpu.microcode, P |-> cpu.P, latch_data |-> cpu.latch_data,
               advance |-> cpu.advance, tick |-> image[20],
               lines |-> cpu.interrupts \ {"sampling"} ] }

(* Taking a checkpoint changes nothing, and restoring it puts the core, as *)
(* far as a host can tell, exactly where it was when it was taken.         *)
Take == Kept' = {Present} /\ UNCHANGED Polled!vars

Restore == Present' \in Kept /\ UNCHANGED Kept

CheckpointNext ==
  (Polled!Next /\ Kept' \in {Kept, {}}) \/ Take \/ Restore

(* Wherever between two ticks it is taken and whatever the core does       *)
(* before the load, a snapshot holds the whole state: the core resumes as  *)
(* if nothing had happened since the save, and goes on from there like one *)
(* that looks at its lines in every cycle.                                 *)
ResumesFromSnapshot ==
  Polled!Init /\ Kept = {} /\ [][CheckpointNext]_<<Polled!vars, Kept>>
=============================================================================
