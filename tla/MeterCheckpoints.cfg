SPECIFICATION Spec
CONSTANTS
  unlimited = unlimited
  limited = limited
  Name <- MCName
  Identity = {"polar1", "polar2"}
  MaxBoot = 3
  MaxCapture = 3
  GenLimit = 3
  Missing = Missing
  Torn = Torn
  None = None
CHECK_DEADLOCK FALSE
INVARIANTS TypeOK PersistedMeansOnDisk SegmentsSound
PROPERTIES RecordsProtected ImplementsLedger
