\* The promise of mult_hw.
SPECIFICATION Spec
CONSTANTS
  ByteSize = 128
  ASize = 16777216
  XBits = 28
  RegIds <- UsedRegs
  CycleSize = 1
  Operands <- MultOnly
  Simulated = FALSE
INVARIANT ReturnsProduct
