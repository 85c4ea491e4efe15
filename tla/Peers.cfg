SPECIFICATION Spec
CONSTANTS
  Node = {1, 2, 3, 4}
  Conn = {c1, c2}
  Network <- MCNetwork
  Strangers = {4}
  Loopback = {2}
  Unaware = {1}
  Seeds <- Ring
  MaxPeers = 1
  MaxInbound = 1
  TargetOutbound = 1
  BanThreshold = 2
  MaxFailures = 1
  MaxKnownPeers = 2
  Points = {1}
  MaxFaults = 1
  MaxOffences = 1
CHECK_DEADLOCK FALSE
SYMMETRY Names
INVARIANTS PeerTypeOK TableLive
PROPERTY OverfullByEviction
