CONSTANTS
  Model = "nmos"
  Opcodes <- AdapterOpcodes
  Counts <- AdapterCounts
  MaxInstructions = 4
  ShamFetchAtStart = FALSE
SPECIFICATION PromiseSpec
INVARIANTS
  AdapterTypeOK
  ReturnsAtBoundary
  NmiServedByNextCall
  IrqFollowsCall
PROPERTIES
  IrqLineContract
  NmiLineContract
  AdapterIsPatient
