\* Liveness needs no symmetry and fewer events: three events, a channel of one.
CONSTANTS
  Threads = {t1, t2}
  Events = {e1, e2, e3}
  BufferSize = 1
SPECIFICATION FairSpec
PROPERTIES
  LossIsReported
  AcceptedIsHandled
  ImplementsLiveLog
CHECK_DEADLOCK FALSE
