SPECIFICATION Spec
CONSTANTS
  Reg = {r1, r2}
  Ver = {v1, v2}
  Address <- MCAddress
  Mailbox <- MCMailbox
  Normalize <- MCNormalize
  Faults = {"redis", "mongo"}
  None = None
INVARIANT AuthInv
INVARIANT OneSignUpPerMailbox
INVARIANT SignUpIsDurable
INVARIANT VerifiedReplyIsTrue
PROPERTY ConsumedStaysConsumed
PROPERTY ExpiredMeansStuck
PROPERTY ImplementsLifecycle
SYMMETRY MCSymmetry
CHECK_DEADLOCK FALSE
