SPECIFICATION FairSpec
CONSTANTS
  Address <- MCAddress
  TxId = {}
  Tx <- NoTx
  Universe <- LimitUniverse
  Hash <- MCHash
  Genesis = "g"
  Block <- MCBlock
  NextDifficulty <- MCNextDifficulty
  Allocation <- MCAllocation
  Replay <- MCReplay
  Sound <- MCSound
  BlockReward = 5
  MaxSupply = 22
  CoinbaseMaturity = 2
  MtpWindow = 3
  MaxFutureSeconds = 2
  DynamicDifficulty = TRUE
  LwmaWindow = 2
  MempoolMaxTxs = 3
  MempoolMaxPerSender = 2
  MempoolTimestampWindow = 2
  MaxReorgDepth = 1
  MaxSideBlocks = 1
  MaxOrphans = 1
  MaxClock = 2
  MaxCrashes = 1
 
PROPERTIES FollowsBestChain CallsReturn
