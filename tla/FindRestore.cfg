SPECIFICATION Spec
CONSTANTS
  Address <- MCAddress
  TxId = {"t1", "t2"}
  Tx <- TwoTx
  Universe <- MempoolUniverse
  Hash <- MCHash
  Genesis = "g"
  Block <- MCBlock
  NextDifficulty <- MCNextDifficulty
  Allocation <- MCAllocation
  Replay <- MCReplay
  Sound <- MCSound
  BlockReward = 5
  MaxSupply = 22
  CoinbaseMaturity = 2
  MtpWindow = 3
  MaxFutureSeconds = 3
  DynamicDifficulty = TRUE
  LwmaWindow = 2
  MempoolMaxTxs = 3
  MempoolMaxPerSender = 2
  MempoolTimestampWindow = 2
  MaxReorgDepth = 3
  MaxSideBlocks = 3
  MaxOrphans = 2
  MaxClock = 0
  MaxCrashes = 0
PROPERTY RestoredWhenValid
