\* Two threads send four events of two nodes through a channel of one.
CONSTANTS
  other = other
  create = create
  serve = serve
  reply = reply
  talk = talk
  n1 = n1
  n2 = n2
  g1 = g1
  Threads = {t1, t2}
  BufferSize = 1
  NoGid = NoGid
  NoTimeline = NoTimeline
  MaxFailures = 1
  Occurrences = {other, create, reply, talk}
  Shape <- MCShape
SPECIFICATION FairSpec
INVARIANTS
  TypeOK
  EveryEventAccountedFor
  RecordFollowsAcceptance
  NamelessMeansCreationLost
PROPERTY AcceptedReachesBackend
\* The process may exit, and the events are finitely many.
CHECK_DEADLOCK FALSE
