SPECIFICATION Spec
CONSTANTS
  CommandLines <- McCommandLines
  NoName = NoName
  Bad = Bad
INVARIANTS WritesWhatWasRead 
CHECK_DEADLOCK FALSE
