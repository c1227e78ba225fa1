CONSTANTS
  Model = "nmos"
  Opcodes <- Documented
  Bytes <- EdgeBytes
  Indexes <- EdgeIndexes
  Contexts <- EdgeContexts
SPECIFICATION PathSpec
PROPERTIES
  InstructionCycles
  OperandAddress
  NextInstruction
  WritesInPlace
