SPECIFICATION PeerFairSpec
CONSTANTS
  Node = {1, 2}
  Conn = {c1, c2, c3}
  Network <- MCNetwork
  Strangers = {}
  Loopback = {1, 2}
  Unaware = {}
  Seeds <- AllSeeds
  MaxPeers = 2
  MaxInbound = 2
  TargetOutbound = 2
  BanThreshold = 2
  MaxFailures = 2
  MaxKnownPeers = 5
  Points = {1}
  MaxFaults = 0
  MaxOffences = 0
CHECK_DEADLOCK FALSE
PROPERTY MutualDialSettles
