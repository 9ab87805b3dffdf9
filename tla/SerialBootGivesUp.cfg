SPECIFICATION Spec
CONSTANTS
  Magic <- MCMagic
  Cancel = "Q"
  Other = "?"
  Uploads <- MCUploads
  MaxPayload = 3
  MAX_FAILURES = 3
  Faults = 4
INVARIANT GivesUp
CHECK_DEADLOCK FALSE
