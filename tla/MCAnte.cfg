SPECIFICATION Spec
CHECK_DEADLOCK FALSE
CONSTANTS
  n1 = n1
  n2 = n2
  alice = alice
  bob = bob
  Nodes = {n1, n2}
  Accounts = {alice, bob}
  Txs <- MCTxs
  Balances <- MCBalances
  Allowances <- MCAllowances
  MinFee <- MCMinFee
  SimulationGas <- MCSimulationGas
  None = None
  PoolSize = 2
  MaxHeight = 2
INVARIANTS
  SettingsStayLocal
  ChargesInOrder
  MempoolCanRun
  GoodTxsCharged
