\* Three threads, six events, a channel of two: it fills while the worker is
\* connecting and again while it is handling, and all three threads may be
\* reporting at once.
CONSTANTS
  Threads = {t1, t2, t3}
  Events = {e1, e2, e3, e4, e5, e6}
  BufferSize = 2
SYMMETRY Symmetry
SPECIFICATION Spec
INVARIANTS
  TypeOK
  AcceptedInOrder
  ReportedOncePerThread
  ClosedIsAnnounced
PROPERTY ImplementsLog
\* The process may exit, and the events are finitely many.
CHECK_DEADLOCK FALSE
