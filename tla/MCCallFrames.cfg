SPECIFICATION Spec
CONSTANTS
  P = 31
  ToNumber <- MCToNumber
  Builtins = {"none", "pedersen"}
  ArrayLimit = 24
  RangeBound = 8
  RangeBound96 = 4
  KeccakBound = 16
  Compute <- MCCompute
  decodeInstruction <- MCDecode
  Programs <- MCPrograms
  Allowed <- MCAllowed
  RelocateOffset = 1
  MaxSteps = 7
  MaxStatements = 3
INVARIANTS MachineTypeOK NoDanglingPointer AssertedResultsHold RelocationKeepsProgram BuiltinSegmentsAreFound
PROPERTY ImplementsCallStack
CHECK_DEADLOCK FALSE
