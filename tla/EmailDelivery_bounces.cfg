SPECIFICATION Spec
CONSTANTS
  resend = resend
  mailersend = mailersend
  Call = {c1}
  Provider = {resend, mailersend}
  Rank <- MCRank
  Resend = resend
  Faults = {"provider", "slow", "mongo", "rotation"}
  Fates = {"delivered", "complained", "soft", "hard"}
  RawBody = TRUE
  None = None
INVARIANT DeliveryInv
PROPERTY AnswerIsFinal
CHECK_DEADLOCK FALSE
