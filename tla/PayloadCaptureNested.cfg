CONSTANTS
  Types <- MCTypes
  Fields <- AllFields
  Depth <- MCDepth
  Decimal <- MCDecimal
  Shapes <- MCShapes
  MessageShapes <- MCMessageShapes
  Environments <- PoseEnvironments
  Topics <- PoseTopics
  Services = {}
  Messages <- PoseMessages
  JunkNumbers = {0}
  Address = 99
  UsizeLimit = 128
  DefaultArrayLen = 2
  DefaultBufferSize = 4
SPECIFICATION Spec
INVARIANT PayloadAsDocumented
CHECK_DEADLOCK FALSE
