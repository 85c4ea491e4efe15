SPECIFICATION Spec
CONSTANTS
  Key = {k1, k2}
  Password = {p, q}
  Name <- MCName
  Wallet = "wallet"
  Staged = "new"
  Second = {1, 2}
  Copy <- MCCopy
  None = None
  Torn = Torn
  MaxCommands = 4
  Timeout = 2
CHECK_DEADLOCK FALSE
INVARIANTS KeyKept ExpiredNotRevived
PROPERTY Watched
