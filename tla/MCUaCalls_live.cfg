SPECIFICATION FairSpec
CONSTANTS
  c1 = c1
  c2 = c2
  c3 = c3
  Call = {c1, c2, c3}
  Notifier = {}
  LineMax = 2
  MaxCalls = 0
  SubMax = 0
  LocalTimeout = TRUE
  RtpTimeout = TRUE
  UseMnat = TRUE
  AnswerMode = "MANUAL"
  AppProgress = FALSE
  HandlerHangup = FALSE
INVARIANTS
  TypeOK
  StateMatchesSession
PROPERTIES
  IncomingTimesOut
