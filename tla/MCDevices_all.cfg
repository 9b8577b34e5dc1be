SPECIFICATION AllSpec
CONSTANTS
  Cameras = {"c1", "c2", "c3"}
  MaxSources = 2
  Drivers <- MCDrivers
  Plays = {"p1", "p2"}
  Srcs = {"s1", "s2"}
  WriteBuffers = 4
  Writes = 5
  PlayBuffers = 2
  RecBuffers = 2
  MaxRestart = 2
  MaxBuffer = 5
  HeadLen = 2
  MetaInt = 2
  MetaSizes = {0, 1, 2}
  Named = TRUE
  MaxSent = 12
  MaxConn = 3
  Rates = 3
  Coded = TRUE
CHECK_DEADLOCK FALSE
INVARIANTS
  AllTypesOK
  
  
PROPERTIES
  UsedAsSent
  
