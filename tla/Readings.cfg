SPECIFICATION Spec
CONSTANTS
  Base = 10
  Config <- MCConfig
  Raws <- MCRaws
  SetValues <- MCSetValues
  PreValueUse = TRUE
  MaxAge = 0
  MaxTime = 1
  Beyond = 1000
  Limit = 9999
  N = N
  Damaged = Damaged
  Devices <- MCDevices
  Gaps <- MCGaps
  Readings = 3
  Segments = 3
  Meters <- MCMeters
  Positions <- MCPositions
  Unsure = Unsure
  None = None
INVARIANTS ReadoutTrue PreviousKept TotalsBounded
