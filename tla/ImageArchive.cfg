SPECIFICATION Spec
CONSTANTS
  c1 = c1
  c2 = c2
  c3 = c3
  c4 = c4
  day = day
  night = night
  None = None
  Capture <- MCCapture
  Settings = {day, night}
  SettingsOf <- MCSettingsOf
  Healthy = {}
  Capacity = 3
  MaxBoot = 3
SYMMETRY MCSymmetry
INVARIANTS TypeOK CardConsistent OneBuffer
PROPERTIES DeliveryKept
