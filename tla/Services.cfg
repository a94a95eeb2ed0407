SPECIFICATION Spec
CONSTANTS
  Packages <- MCPackages
  Passwords = {p1, p2}
  Codes = 3
  Jobs = 1
  a1 = a1
  a2 = a2
  Signal <- MCSignal
  Addresses = {i1, i2}
  Pending = 2
  Tries = 2
  ConfigFiles <- MCConfigFiles
  Supported <- MCSupported
  Inits = 2
  Memory = 9
  Today = 10
  Halves = 1
  Winter = 11
  Retention = 2
  MaxFiles = 2
  Runs = 1
  LogLines = 3
  CardFiles <- MCCardFiles
  Versions = {v1}
  Chunks = 1
  Gone = Gone
  Part = Part
  Names <- MCNames
  Lines <- MCLines
  Sections <- MCSections
  UploadImg = 1
  MaxTime = 2
  Places <- MCPlaces
  Window <- MCWindow
  Count = 2
  Fits = {1}
  Setups <- MCSetups
  Networks = {"Digit100"}
  Unset = Unset
  Rounds = 2
  None = None
INVARIANTS LegacyKept AccessTrue WlanTrue ConfigurationTrue LogsTrue OutputsTrue RecognitionTrue
           
PROPERTIES FilesTrue
CHECK_DEADLOCK FALSE
