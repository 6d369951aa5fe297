SPECIFICATION ServiceSpec
CONSTANTS
  j1 = j1
  j2 = j2
  w1 = w1
  a = a
  b = b
  Job = {j1, j2}
  Worker = {w1}
  Slot <- MCSlot
  WorkerOf <- MCWorkerOf
  DeadLetters = {w1}
  Attempts = 2
  WorkerAttempts = 2
  MaxStalled = 1
  MaxAdds = 1
  MaxOutages = 3
  Outages = {"stop", "drain"}
  LocksMayExpire = FALSE
  QueueFaults = {"slow", "lost"}
  None = None
INVARIANT GracefulStopStallsNothing
INVARIANT FailedIsDeadLettered
INVARIANT ServiceInv
SYMMETRY MCSymmetry
CHECK_DEADLOCK FALSE
