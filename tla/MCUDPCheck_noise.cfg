CONSTANTS
  Players = {a}
  Noise = TRUE
  MaxSends = 1
  MaxFaults = 0
SPECIFICATION CheckSpec
CHECK_DEADLOCK FALSE
PROPERTIES
  ServerStopsWhenTold
