SPECIFICATION Spec
CONSTANTS
  P = 2
  ToNumber <- MCToNumber
  Builtins = {"keccak"}
  ArrayLimit = 16
  RangeBound = 2
  RangeBound96 = 2
  KeccakBound = 2
  Compute <- MCCompute
  CallerValues <- MCCallerValues
  Offsets = {0, 8}
  MaxSegments = 1
  MaxBatch = 1
INVARIANT KeccakOutputsAgree
