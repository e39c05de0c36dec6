SPECIFICATION Spec
CONSTANTS
  P = 61
  ToNumber <- MCToNumber
  Builtins = {"none", "segment_arena", "range_check"}
  ArrayLimit = 100
  RangeBound = 4
  RangeBound96 = 4
  KeccakBound = 4
  Compute <- MCCompute
  Keys = {2, 3, 9}
  NewValues <- MCNewValues
  AheadValues <- MCAheadValues
  Limits <- MCTwoSquashes
INVARIANT KeysAreStillToSquash
CHECK_DEADLOCK FALSE
