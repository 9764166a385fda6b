\* Two threads, each with two publishes of up to two events, five clock readings.
CONSTANTS
  Threads = {t1, t2}
  MaxCalls = 2
  MaxReads = 5
  MaxBatch = 2
SYMMETRY ThreadSymmetry
SPECIFICATION Spec
INVARIANTS
  TypeOK
  StampAgreement
  StampedIsTraced
  SentInCallOrder
  LeftoverIsFailed
\* The calls and the readings are bounded.
CHECK_DEADLOCK FALSE
