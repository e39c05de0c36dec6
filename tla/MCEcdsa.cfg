SPECIFICATION Spec
CONSTANTS
  P = 5
  ToNumber <- MCToNumber
  Builtins = {"none"}
  ArrayLimit = 100
  RangeBound = 4
  RangeBound96 = 4
  KeccakBound = 4
  Compute <- MCCompute
  recoverY <- MCrecoverY
  verify <- MCverify
  Offsets <- MCOffsets
  Asserted <- MCAsserted
  Given <- MCGiven
INVARIANTS TypeOK PairsAreSigned
PROPERTIES RefusalsAreJustified ImplementsWriteOnce
