SPECIFICATION Spec
CONSTANTS
  P = 29
  ToNumber <- MCToNumber
  Builtins = {"none", "range_check"}
  ArrayLimit = 100
  RangeBound = 4
  RangeBound96 = 4
  KeccakBound = 4
  Compute <- MCCompute
  Frame <- MCFrame
  Pointers <- MCPointers
  Numbers <- MCNumbers
  Addresses <- MCAddresses
  CallLimit = 2
  DecimalBound = 20
  ExponentText <- MCExponentText
INVARIANT FirstArcFlagTells
CHECK_DEADLOCK FALSE
