SPECIFICATION FairSpec
CONSTANTS
  Sends = 3
  Faults = {"reset", "silent", "crash"}
  Kinds = {"pc_client", "node", "stranger"}
  Numbers = {2, 7}
  Padding = 2
INVARIANTS
  TypeOK
  ChainsAgree
  BacklogBounded
PROPERTIES
  HonestNeverRefused
  ImplementsAuditLog
  ClientEnds
  SessionEnds
CHECK_DEADLOCK FALSE
