CONSTANTS
  Threads = {t1, t2}
  Addresses = {a1, a2}
  MaxEntities = 3
  MaxUses = 4
SYMMETRY Symmetry
SPECIFICATION Spec
INVARIANTS
  TypeOK
  NoStaleEntry
  NeverMisattributed
  UndisturbedIsTracked
  EntryIsOwnOrRaced
  OnlyFailedPublishComesLate
\* The entities are finitely many.
CHECK_DEADLOCK FALSE
