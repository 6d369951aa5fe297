SPECIFICATION FairSpec
CONSTANTS
  Kinds = {"api", "worker"}
  Signal = {s1, s2}
  MaxRequests = 2
  Slots = 2
  Retries = {0, 3}
  Faults = {"setup", "database", "email", "disconnect", "network", "redis"}
INVARIANT LifecycleInv
PROPERTY DbOutlivesWork
PROPERTY SignalledEnds
PROPERTY StartSettles
CHECK_DEADLOCK FALSE
