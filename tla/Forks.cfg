SPECIFICATION Spec
CONSTANTS
  Address <- MCAddress
  TxId = {"t1", "t2", "u1", "r1"}
  Tx <- MCTx
  Universe <- ForkUniverse
  Hash <- MCHash
  Genesis = "g"
  Block <- MCBlock
  NextDifficulty <- MCNextDifficulty
  Allocation <- MCAllocation
  Replay <- MCReplay
  Sound <- MCSound
  BlockReward = 5
  MaxSupply = 22
  CoinbaseMaturity = 3
  MtpWindow = 3
  MaxFutureSeconds = 3
  DynamicDifficulty = TRUE
  LwmaWindow = 2
  MempoolMaxTxs = 3
  MempoolMaxPerSender = 2
  MempoolTimestampWindow = 2
  MaxReorgDepth = 3
  MaxSideBlocks = 3
  MaxOrphans = 2
  MaxClock = 0
  MaxCrashes = 1
INVARIANTS TypeOK Inv StateIsReplay DatabaseVerifies SupplyConserved ImmatureUnspent BestTipSound
           MempoolMineable PoolRight 
PROPERTIES TipWorkRises FollowsBestChain
