SPECIFICATION Spec
CONSTANTS
  P = 7
  ToNumber <- MCToNumber
  Builtins = {"none"}
  ArrayLimit = 16
  RangeBound = 2
  RangeBound96 = 2
  KeccakBound = 2
  Compute <- MCCompute
  decodeInstruction <- MCDecode
  Programs <- MCPrograms
  Allowed <- MCAllowed
  RelocateOffset = 1
  MaxSteps = 4
  MaxStatements = 4
INVARIANT AssertedCellsAreEqual
CHECK_DEADLOCK FALSE
