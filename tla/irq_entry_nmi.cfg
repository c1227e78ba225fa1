CONSTANTS
  Model = "wdc"
  Opcodes <- CmosOpcodes
SPECIFICATION LedgerSpec
PROPERTY
  NmiOutlivesIrqEntry
