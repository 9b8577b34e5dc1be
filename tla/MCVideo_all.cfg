SPECIFICATION AllSpec
CONSTANTS
  Codec = {"c1", "c2"}
  MaxPackets = 2
  MaxMuted = 2
  Decodable = {"c1", "c2"}
  Interval = 2
  Silence = 3
  Rates = {"r1", "r2"}
  EncFrames <- MCEncFrames
  DecFrames <- MCDecFrames
  PktSize = 8
  MaxSize = 30
  Kinds = {"video", "video1"}
  Params = {"p1", "p2"}
  Cap = 2
  Sizes = {"z1", "z2"}
CHECK_DEADLOCK FALSE
INVARIANTS
  AllTypesOK
  
PROPERTIES
  AsksUntilIntra
  FramesGoOn
  FramesArriveWhole
