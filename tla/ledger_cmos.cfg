CONSTANTS
  Model = "rw"
  Opcodes <- CmosOpcodes
SPECIFICATION LedgerSpec
INVARIANTS
  NmiNeverForgotten
PROPERTIES
  ImplementsPolledCore
  NmiIsEdge
  TakenOnTime
