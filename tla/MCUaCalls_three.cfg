SPECIFICATION Spec
CONSTANTS
  c1 = c1
  c2 = c2
  c3 = c3
  Call = {c1, c2, c3}
  Notifier = {}
  LineMax = 3
  MaxCalls = 0
  SubMax = 0
  LocalTimeout = FALSE
  RtpTimeout = FALSE
  UseMnat = FALSE
  AnswerMode = "MANUAL"
  AppProgress = TRUE
  HandlerHangup = FALSE
SYMMETRY Symmetry
INVARIANTS
  ListHoldsLive
  LinesDistinct
PROPERTIES
  CurrentCallStrategy
  CloseResumesLast
