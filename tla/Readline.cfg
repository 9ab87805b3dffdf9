SPECIFICATION Spec
CONSTANTS
  HIST_MAX = 3
  HIST_DEPTH = 3
  Size = 3
  Chars = {"a", "b"}
  Bang = "b"
  Nul = Nul
  Junk = Junk
  Space = Space
  Lines <- MCLines
  Blank <- MCBlank
  Commands <- MCCommands
INVARIANTS
  TypeOK
  ScreenShowsLine
  LineWasTyped
  TabAddsCommonPart
PROPERTIES
  ImplementsRecall
  TailKept
  ShowsRecalled
CHECK_DEADLOCK FALSE
