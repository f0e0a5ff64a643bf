SPECIFICATION Spec
CONSTANTS
  s1 = s1  s2 = s2  s3 = s3  s4 = s4
  c1 = c1  c2 = c2
  Spans <- FourSpans
  Callers <- TwoCallers
  Capacity = 2
  MaxBatch = 2
SYMMETRY Symmetry
INVARIANTS
  TypeOK
  FifoConservation
  AcceptedIffInFlight
  PendingIffBatch
  ExportSized
  FlushedMeansDrained
  OneShutdownOwner
PROPERTIES
  PartialExportJustified
  ImplementsDelivery
CHECK_DEADLOCK FALSE
