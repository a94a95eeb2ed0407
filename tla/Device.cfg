SPECIFICATION Spec
CONSTANTS
  factory = factory
  b1 = b1
  b2 = b2
  old = old
  new = new
  None = None
  Factory = factory
  App = {old, new}
  Bundle <- MCBundle
  AppOf <- MCAppOf
  Retained = 1
  Needed = 2
  Followed <- MCFollowed
  QueueLimit = 1
  Pending = 1
  Inits = 2
INVARIANTS SettingsTrue GpioTrue
PROPERTIES UpdatesWhole ImplementsManagedUpdate AcceptedOnEvidence Decided
