SPECIFICATION Spec
CONSTANTS
  P = 101
  ToNumber <- MCToNumber
  WordSize = 4
  ByteSize = 2
  Memories <- MCMemories
  Foreign <- MCForeign
  Traces <- MCTraces
  aMemory = aMemory bMemory = bMemory cMemory = cMemory
  aTrace = aTrace bTrace = bTrace
  MemoryNames = {aMemory, bMemory, cMemory}
  TraceNames = {aTrace, bTrace}
INVARIANTS MemoryVerdictsAreTrue SmallTraceVerdictsAreTrue ReportedFilesAreThere
SYMMETRY MCSymmetry
