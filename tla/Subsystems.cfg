SPECIFICATION Spec
CONSTANTS
  Period = 2
  LateLimit = 3
  CopyLimit = 2
  Intensities = {1, 2}
  Announcements = 2
  Values = 2
  r1 = r1
  r2 = r2
  r3 = r3
  Revision = {r1, r2, r3}
  Scale <- MCScale
  Absent = Absent
  Torn = Torn
  Workers = {w1, w2}
  Versions = {v1, v2}
  Network = {n1, n2}
  Installers = {i1, i2}
  MaxOverlaps = 1
  Hosts = {h1, h2}
  Levels = {l1, l2}
  FirstHost = h1
  MaxLosses = 1
  Unset = Unset
  c1 = c1
  c2 = c2
  day = day
  Capture <- MCPair
  Settings = {day}
  SettingsOf <- MCPairOf
  Healthy = {c1}
  Capacity = 3
  MaxBoot = 1
  None = None
INVARIANTS RoundsKept CameraKept MqttHonest ReceiptMeansKept InstallKept StartHonest
PROPERTIES SettingsRegister RequestsAnswered
