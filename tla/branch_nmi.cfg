CONSTANTS
  Model = "nmos"
  Opcodes <- NmosOpcodes
SPECIFICATION LedgerSpec
PROPERTY
  NmiBeatsIrq
