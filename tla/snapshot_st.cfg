CONSTANTS
  Model = "st"
  Opcodes <- SnapshotOpcodes
  MaxAge = 1
SPECIFICATION SnapshotSpec
INVARIANTS
  PendingHijacks
  NoStaleSampling
PROPERTIES
  ResumesFromSnapshot
