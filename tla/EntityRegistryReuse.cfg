CONSTANTS
  Threads = {t1, t2}
  Addresses = {a1}
  MaxEntities = 2
  MaxUses = 0
SPECIFICATION Spec
INVARIANT ReadyIsTracked
CHECK_DEADLOCK FALSE
