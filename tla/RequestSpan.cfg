SPECIFICATION Spec
CONSTANTS
  AttributeCap = 16
  EventCap = 8
  LinkCap = 4
  TraceIdLength = 32
  SpanIdLength = 16
  MaxTraceStateLen = 512
  HeaderNames <- CapturedNames
  HeaderTexts <- CapturedTexts
  Wide <- WideNumbers
  Requests <- SomeRequests
  Responses <- SomeResponses
  HandlerEvents <- SomeEvents
  HandlerFields <- SomeFields
  RandomIds <- DrawnIds
  MaxHandled = 2
  CapturePrefixes <- TwoPrefixes
  Decoded <- KeyNames
  Lower <- UpperX
  Secrets <- TwoSecrets
INVARIANTS
  SecretsStayOut
  ContextArrives
  OutcomeKept
  FailureExplained
CHECK_DEADLOCK FALSE
