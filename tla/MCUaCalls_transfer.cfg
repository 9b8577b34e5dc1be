SPECIFICATION Spec
CONSTANTS
  c1 = c1
  c2 = c2
  n1 = n1
  n2 = n2
  Call = {c1, c2}
  Notifier = {n1, n2}
  LineMax = 2
  MaxCalls = 0
  SubMax = 2
  LocalTimeout = TRUE
  RtpTimeout = TRUE
  UseMnat = FALSE
  AnswerMode = "AUTO"
  AppProgress = TRUE
  HandlerHangup = TRUE
SYMMETRY Symmetry
INVARIANTS
  TransferPending
  EarlyMediaMatchesTone
  TimerOnlyIncoming
PROPERTIES
  ImplementsEvents
