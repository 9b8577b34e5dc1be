SPECIFICATION AllSpec
CONSTANTS
  Media = {"audio", "video"}
  Method = {"stun", "turn", "ice", "lite"}
  AtOnce = {"stun", "turn", "ice"}
  Remaps = FALSE
  MapsProto = {"natpmp", "pcp"}
  MapsComps = {1}
  Life = 4
  Renew = 3
  GiveUp = 2
  Delay = 0
  Uptime = 3
  SdesKinds = {"srtp", "libsrtp"}
  Early = {"srtp"}
  Wraps = {"srtp"}
  Changes <- MCChanges
  MaxPackets = 2
  Order <- MCOrder
  Parallels = {{}, {"a"}, {"a", "b"}}
  MaxStarts = 4
  Hashes = {"right", "wrong"}
  NatbdProto = {"udp"}
  ByAddress = {}
  MaxProbes = 1
  MaxTag = 4
  MaxReqs = 2
  Contact = {"c1", "c2"}
  P2p = {"c1"}
  MaxFail = 4
  BookMaxFail = 2
  Ua = {"u1", "u2"}
  Watcher = {"w1", "w2"}
  Local = {"u2"}
CHECK_DEADLOCK FALSE
INVARIANTS
  AllTypesOK
  AddressesAreRight
PROPERTIES
  PeersAgree
  AllEnd
