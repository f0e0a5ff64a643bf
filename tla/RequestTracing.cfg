SPECIFICATION Spec
CONSTANTS
  t1 = t1
  t2 = t2
  r1 = r1
  r2 = r2
  s1 = s1
  s2 = s2
  s3 = s3
  NoSpan = NoSpan
  Threads <- TwoThreads
  Requests <- TwoRequests
  Spans <- ThreeSpans
  Inbound = {"unsampled"}
  Outcomes = {"failed"}
  MaxDepth = 2
  MaxHeld = 1
  MaxOwn = 2
  MaxTotal = 4
SYMMETRY Symmetry
INVARIANTS
  TypeOK
  TracesSeparate
  InboundAdopted
  OutcomeExported
  ChildrenFirst
CHECK_DEADLOCK FALSE
