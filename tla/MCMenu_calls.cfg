SPECIFICATION AllSpec
CONSTANTS
  c1 = c1
  c2 = c2
  c3 = c3
  Call = {c1, c2, c3}
  RedialAttempts = 2
  RingbackDisabled = FALSE
  Bell = TRUE
  Manual = TRUE
  GtkCalls = 2
  GtkQueue = 1
CHECK_DEADLOCK FALSE
INVARIANTS
  TonesHaveCalls
  CallIsShown
  RedialsAreRight

  
