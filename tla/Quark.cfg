\* Every instruction from many states, and sequences of instructions with
\* resets between any two edges.
SPECIFICATION Spec
CONSTANTS
  ByteSize = 2
  ASize = 8
  XBits = 4
  RegIds = {0, 1, 2}
  CycleSize = 2
  RamWords = 2
  Scenarios <- MCScenarios
  Code <- MCCode
  Stale <- MCStale
  Budget <- MCBudget
  InitRegs <- MCRegs
  InitRams <- MCRams
  InitPCs <- MCPCs
INVARIANT TypeOK
PROPERTY ImplementsIsa
PROPERTY Retires
CHECK_DEADLOCK FALSE
