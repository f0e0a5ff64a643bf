SPECIFICATION Spec
CONSTANTS
  AttributeCap = 2
  EventCap = 1
  LinkCap = 1
  HeaderNames <- CapturedNames
  HeaderTexts <- CapturedTexts
  Wide <- WideNumbers
  Fields <- SomeFields
  Events <- SomeEvents
  Contexts <- OneContext
  ServiceName <- NoService
  ResourceAttributes <- Deployment
  MaxWord = 15
  NanosPerMicro = 2
  Heads <- TwoHeads
  MaxCalls = 4
INVARIANT
  MessageNamesEvent
CHECK_DEADLOCK FALSE
