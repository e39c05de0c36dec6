SPECIFICATION Spec
CONSTANTS
  P = 2
  ToNumber <- MCToNumber
  Builtins = {"pedersen", "range_check"}
  ArrayLimit = 2
  RangeBound = 1
  RangeBound96 = 1
  KeccakBound = 1
  Compute <- MCCompute
  CallerValues <- MCCallerValues
  Offsets = {0, 1, 2}
  MaxSegments = 2
  MaxBatch = 2
INVARIANTS TypeOK DeducedOutputsAgree ValidatedCells
PROPERTY ImplementsWriteOnce
