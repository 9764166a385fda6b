\* One thread is enough to send a message that was never written.
CONSTANTS
  Threads = {t1}
  MaxCalls = 2
  MaxReads = 3
  MaxBatch = 1
SPECIFICATION Spec
INVARIANT OnlyStampedIsTraced
CHECK_DEADLOCK FALSE
