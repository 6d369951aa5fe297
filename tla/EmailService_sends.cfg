SPECIFICATION ServiceSpec
CONSTANTS
  resend = resend
  mailersend = mailersend
  Call = {c1, c2}
  Provider = {resend, mailersend}
  Rank <- MCRank
  Resend = resend
  Faults = {"provider", "slow", "mongo", "files"}
  Fates = {}
  RawBody = TRUE
  None = None
INVARIANT ServiceInv
PROPERTY ImplementsSendAttempt
PROPERTY CallsSettle
CHECK_DEADLOCK FALSE
