\* The promise of the poll loop of sqrt_hw.
SPECIFICATION Spec
CONSTANTS
  ByteSize = 128
  ASize = 16777216
  XBits = 28
  RegIds <- UsedRegs
  CycleSize = 1
  Operands <- SqrtOnly
  Simulated = FALSE
PROPERTY RootCallReturns
