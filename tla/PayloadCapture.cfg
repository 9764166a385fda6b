CONSTANTS
  Types <- MCTypes
  Fields <- AllFields
  Depth <- MCDepth
  Decimal <- MCDecimal
  Shapes <- MCShapes
  MessageShapes <- MCMessageShapes
  Environments <- MCEnvironments
  Topics <- MCTopics
  Services <- MCServices
  Messages <- MCMessages
  JunkNumbers <- MCJunkNumbers
  Address = 99
  UsizeLimit = 128
  DefaultArrayLen = 2
  DefaultBufferSize = 4
SPECIFICATION Spec
INVARIANTS
  TypeOK
  FaithfulPayload
  LossIsLocal
  ConfigIsHonoured
  OneEventPerStatus
\* One message is handled.
CHECK_DEADLOCK FALSE
