CONSTANTS
  Model = "nmos"
  Opcodes <- NmosOpcodes
SPECIFICATION LedgerSpec
INVARIANT
  NmiNeverForgotten
