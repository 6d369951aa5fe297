SPECIFICATION Spec
CONSTANTS
  Reg = {r1, r2}
  Ver = {v1, v2}
  Address <- MCAddress
  Mailbox <- MCMailbox
  Normalize <- MCNormalize
  Faults = {"mongo"}
  None = None
INVARIANT SignUpIsVerifiable
INVARIANT NotFoundIsTruthful
CHECK_DEADLOCK FALSE
