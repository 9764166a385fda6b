\* Four events of eight kinds on two timelines, two failing calls.
CONSTANTS
  n1 = n1
  n2 = n2
  g1 = g1
  g2 = g2
  NoGid = NoGid
  NoTimeline = NoTimeline
  Events <- MCEvents
  MaxEvents = 4
  MaxFailures = 2
SPECIFICATION Spec
INVARIANTS
  TypeOK
  OwnTimeline
  GaplessOrdering
  RecordedInOrder
  OnlyFailuresLose
  NamedBeforeEvents
  AdvertisedBeforePublish
\* The events are finitely many.
CHECK_DEADLOCK FALSE
