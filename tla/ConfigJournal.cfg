SPECIFICATION Spec
CONSTANTS
  old1 = old1
  old2 = old2
  new1 = new1
  new2 = new2
  Config <- MCConfig
  Migrated <- MCMigrated
  Partial = Partial
  Empty = Empty
  Missing = Missing
  None = None
INVARIANTS TypeOK PromiseKept DamageRepairable
PROPERTIES NothingLost AtomicRegister
