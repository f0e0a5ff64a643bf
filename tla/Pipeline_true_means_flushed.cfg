SPECIFICATION Spec
CONSTANTS
  s1 = s1  s2 = s2  s3 = s3  s4 = s4
  c1 = c1  c2 = c2
  Spans <- TwoSpans
  Callers <- TwoCallers
  Capacity = 2
  MaxBatch = 2
INVARIANT TrueMeansFlushed
CHECK_DEADLOCK FALSE
