\* Every arithmetic unit with its wrapper: every operand written and a reset
\* at any moment.
SPECIFICATION MCSpec
CONSTANTS
  Simulated = TRUE
  Size = 4
  DoneHold = 1
  PowerUp <- MCPowerUp
  Data <- MCData
INVARIANT ProductWhenDone
INVARIANT ResultsWhenDone
INVARIANT UnitsInv
PROPERTY EveryUnitCompletes
