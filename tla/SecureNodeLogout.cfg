SPECIFICATION Spec
CONSTANTS
  Sends = 1
  Faults = {}
  Kinds = {"pc_client"}
  Numbers = {}
  Padding = 0
PROPERTIES
  LogoutAnswered
CHECK_DEADLOCK FALSE
