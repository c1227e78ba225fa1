CONSTANTS
  Capacity = 2
  Handles = {h1, h2, h3, h4}
  Cores = {blank, a}
  Blank = blank
  Unborn = Unborn
  Disposed = Disposed
  NoSnapshot = NoSnapshot
SPECIFICATION JsSpec
INVARIANTS
  PoolWellFormed
  NoLeak
PROPERTIES
  KeepsCpusApart
