\* Each driver called over and over, at the real sizes.
SPECIFICATION Spec
CONSTANTS
  ByteSize = 128
  ASize = 16777216
  XBits = 28
  RegIds <- UsedRegs
  CycleSize = 1
  Operands <- EveryDriver
  Simulated = FALSE
INVARIANT ProductOrCleared
INVARIANT PhaseDecides
INVARIANT ReturnsQuotient
INVARIANT RootOrCleared
INVARIANT AlwaysLate
PROPERTY CallReturns
