SPECIFICATION Spec
CONSTANTS
  AttributeCap = 2
  EventCap = 1
  LinkCap = 1
  HeaderNames <- CapturedNames
  HeaderTexts <- CapturedTexts
  Wide <- WideNumbers
  Fields <- SomeFields
  Events <- SomeEvents
  Contexts <- OneContext
  ServiceName <- NoService
  ResourceAttributes <- Deployment
  MaxWord = 15
  NanosPerMicro = 2
  Heads <- TwoHeads
  MaxCalls = 5
INVARIANTS
  TypeOK
  StoredIsLatest
  ProtectedKept
  LossAccounted
  EarliestKept
  FirstErrorExplains
  OtlpFaithful
  ExportersAgree
CHECK_DEADLOCK FALSE
