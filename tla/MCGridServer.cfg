SPECIFICATION FairSpec
CONSTANTS
  n1 = n1
  n2 = n2
  n3 = n3
  n4 = n4
  s1 = s1
  s2 = s2
  s3 = s3
  s4 = s4
  Absent = Absent
  Null = Null
  Text = Text
  None = None
  Nodes <- FourNodes
  Sessions <- FourSessions
  Owner <- OneEach
  Readings <- TwoReadings
  Faulty <- OfNodeOne
  Budget <- FewRecords
  Window = 1
  FuzzyInfer <- TableInfer
INVARIANTS
  StoreTracksTrust
  UntrustedOut
PROPERTIES
  AnomalyNeedsHalf
  UntrustedStarved
CHECK_DEADLOCK FALSE
