SPECIFICATION Spec
CONSTANTS
  unlimited = unlimited
  limited = limited
  Name <- MCName
  Identity = {"polar1"}
  MaxBoot = 3
  MaxCapture = 2
  GenLimit = 4
  Missing = Missing
  Torn = Torn
  None = None
CHECK_DEADLOCK FALSE
INVARIANTS ConflictMeansContradiction
