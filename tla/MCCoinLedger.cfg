SPECIFICATION Spec
CONSTANTS
  N = 3
  Ts <- MCTs
  Price <- MCPrice
  Addresses = {a1, a2}
  Values = {0, 1}
  MaxMints = 2
  MaxCoins = 4
INVARIANTS
  BalanceIsUnspent
  RowsChain
  NewInFirstBlock
  NetTransferExact
  TransactionPerBlock
  TradePerBlock
SYMMETRY Symmetry
CHECK_DEADLOCK FALSE
