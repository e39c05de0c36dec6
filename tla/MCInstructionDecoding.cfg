SPECIFICATION Spec
CONSTANTS
  P = 2
  ToNumber <- MCToNumber
  OffsetRange = 2
INVARIANTS DecodingInvertsEncoding EveryInstructionDecodes
CHECK_DEADLOCK FALSE
