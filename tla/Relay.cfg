SPECIFICATION Spec
CONSTANTS
  Node = {1, 2, 3}
  Tx <- MCTx
  Sender <- MCSender
  Nonce <- MCNonce
  Home <- MCHome
  Unfunded = {"t2"}
  Miner = {1}
  MempoolMax = 3
  MempoolPerSender = 2
  FutureMax = 1
  FuturePerSender = 2
  MaxBlocks = 1
  MaxFaults = 1
CHECK_DEADLOCK FALSE
INVARIANTS ParkedBounded PoolGapless 
