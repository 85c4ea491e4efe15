SPECIFICATION Spec
CONSTANTS
  InitialDifficulty = 4
  MinDifficulty = 1
  MaxDifficulty = 24
  TargetSpacing = 3
  LwmaWindow = 2
  TsFilter = 3
  Tx <- MCTx
  Order <- MCOrder
  Funds <- MCFunds
  MaxTxs = 2
  MtpWindow = 3
  MaxFutureSeconds = 2
  Start <- MCStart
  Steps = {10}
  Workers = 2
  Good = {2}
  Blocks = 2
  MaxBlocks = 7
  MaxNow = 29
  MaxNonce = 2
CHECK_DEADLOCK FALSE
INVARIANTS DifficultySound RetargetDirection TemplateFull FreshAccepted MerkleCommits SearchLives
