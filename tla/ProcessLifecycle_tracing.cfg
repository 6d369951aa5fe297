SPECIFICATION Spec
CONSTANTS
  Kinds = {"worker"}
  Signal = {s1}
  MaxRequests = 0
  Slots = 1
  Retries = {3}
  Faults = {}
INVARIANT CompletesJobs
CHECK_DEADLOCK FALSE
