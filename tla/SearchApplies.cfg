SPECIFICATION SearchSpec
CONSTANTS
  MAX_EVENTS = 1
  Tables = {"", "a"}
  Operations = {""}
  Words = {"x", "a"}
PROPERTY SearchApplies
CHECK_DEADLOCK FALSE
