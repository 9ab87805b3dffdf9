SPECIFICATION Spec
CONSTANTS
  Simulated = TRUE
  divisor = 2
  Width = 2
  Sent <- MCSent
  Prompt <- MCPrompt
  SenderBits = {30, 36}
  Gap = 48
  MinPause = 1
  MaxPause = 1
  Resets = 1
INVARIANTS
  EchoTypeOK
  EchoesInOrder
  NothingLost
PROPERTIES
  SeenBeforeAcknowledged
  EveryByteAnswered
