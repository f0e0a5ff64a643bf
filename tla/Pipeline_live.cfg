SPECIFICATION FairSpec
CONSTANTS
  s1 = s1  s2 = s2  s3 = s3  s4 = s4
  c1 = c1  c2 = c2
  Spans <- ThreeSpans
  Callers <- OneCaller
  Capacity = 2
  MaxBatch = 2
PROPERTIES AcceptedSettles DropStopsWorker ShutdownReturns
CHECK_DEADLOCK FALSE
