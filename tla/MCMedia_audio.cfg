SPECIFICATION AllSpec
CONSTANTS
  Thread = {"t1", "t2", "t3"}
  Codec = {"pcmu", "pcma", "opus"}
  Rate <- MCRate
  Mode = "thread"
  MaxLevel = 3
  MaxPacket = 2
  Payload = {"0", "107"}
  CodecOf <- MCCodecOf
  Wrap = 8
  Gap = 3
  Last = 20
  MaxWraps = 3
  Filter <- MCFilter
  Encodes = {"speex_aec", "vumeter"}
  Decodes = {"speex_aec", "vumeter", "plc"}
  Stream = {"audio", "video"}
  Timeout = 1
  Interval = 1
  Large = 3
  Period = 1
  Method = "stun"
  Seq16 = {65437, 65534, 65535, 0, 1, 2, 3000, 3001, 3002}
  Few = {65534, 65535, 0, 1}
  Ssrc = {1, 2}
  JbufMin = 1
  JbufMax = 3
CHECK_DEADLOCK FALSE
INVARIANTS
  AllTypesOK
  BufferOutlivesAll
  FramesInOrder
PROPERTIES
  
  ReceptionIsExact
  SilenceIsDetected
