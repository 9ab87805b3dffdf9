SPECIFICATION Spec
CONSTANTS
  Magic <- MCMagic
  Cancel = "Q"
  Other = "?"
  Uploads <- MCUploads
  MaxPayload = 3
  MAX_FAILURES = 3
  Faults = 1
INVARIANTS
  TypeOK
  JumpsIntoWholeImage
  AcknowledgedIsLoaded
  MagicFound
  OnlyEmptyOverruns
PROPERTIES
  BootEnds
CHECK_DEADLOCK FALSE
