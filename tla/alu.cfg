CONSTANTS
  Operands <- EdgeOperands
SPECIFICATION AluSpec
INVARIANTS
  DecimalAddition
  DecimalSubtraction
  SubtractionUndoesAddition
  ComparesLikeSubtraction
  OverflowIsSigned
