CONSTANTS
  Model = "nes"
  Opcodes <- NmosOpcodes
SPECIFICATION TracedSpec
INVARIANTS
  TypeOK
  PendingHijacks
  NoStaleSampling
  NoHole
PROPERTIES
  InterruptFrame
  ReturnAddress
