CONSTANTS
  Model = "nmos"
  Opcodes <- NmosPollingOpcodes
SPECIFICATION FairLedgerSpec
PROPERTIES
  IrqIsServiced
  NmiIsServiced
