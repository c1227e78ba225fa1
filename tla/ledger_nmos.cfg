CONSTANTS
  Model = "nmos"
  Opcodes <- NmosOpcodes
SPECIFICATION PatientLedgerSpec
INVARIANTS
  NmiLevelKnown
  NmiNeverForgotten
  DeafOnlyBetweenPushAndVector
PROPERTIES
  ImplementsPolledCore
  NmiIsEdge
  TakenOnTime
