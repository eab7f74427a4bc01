SPECIFICATION Spec
CONSTANTS
  c1 = c1
  Capability = {c1}
  None = None
  MaxDaemon = 2
  MaxCalls = 1
  MaxConnect = 2
INVARIANTS ClientTypeOK StaleIsNoticed CallsGoOn NamesReleased
PROPERTY StartedListens
CHECK_DEADLOCK FALSE
