SPECIFICATION Spec
CONSTANTS
  Nodes = {n1}
  Ids = {i1, i2}
  Placeholder = i1
  Runs = {r1, r2}
  MaxKey = 2
  MaxCalls = 2
  MaxIdB = 2
  Other = Other
  None = None
  Torn = Torn
INVARIANTS
  FlashedNeverServed
  OneIdentity
PROPERTIES
  LostOnlyByOverlap
CHECK_DEADLOCK FALSE
SYMMETRY Symmetric
