\* Two nodes, one of them without topics; a channel of one; no call fails.
CONSTANTS
  other = other
  create = create
  serve = serve
  reply = reply
  talk = talk
  n1 = n1
  n2 = n2
  g1 = g1
  Threads = {t1}
  BufferSize = 1
  NoGid = NoGid
  NoTimeline = NoTimeline
  MaxFailures = 0
  Occurrences = {other, create, serve, reply}
  Shape <- MCShape
SPECIFICATION Spec
INVARIANT TimelinesHaveNames
CHECK_DEADLOCK FALSE
