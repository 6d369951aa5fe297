SPECIFICATION FairSpec
CONSTANTS
  j1 = j1
  j2 = j2
  w1 = w1
  w2 = w2
  a = a
  b = b
  c = c
  Job = {j1}
  Worker = {w1, w2}
  Slot <- MCSlot
  WorkerOf <- MCWorkerOf
  DeadLetters = {w1, w2}
  Attempts = 2
  WorkerAttempts = 2
  MaxStalled = 1
  MaxAdds = 2
  MaxOutages = 2
  Outages = {"crash", "stop", "drain"}
  LocksMayExpire = TRUE
  None = None
INVARIANT QueueInv
INVARIANT DeadLetteredOnce
PROPERTY FinishedIsFinal
PROPERTY ImplementsMailQueue
PROPERTY JobsSettle
PROPERTY StopEnds
CHECK_DEADLOCK FALSE
