SPECIFICATION Spec
CHECK_DEADLOCK FALSE
SYMMETRY DelegatorSymmetry
CONSTANTS
  o1 = o1
  o2 = o2
  o3 = o3
  k1 = k1
  k2 = k2
  k3 = k3
  d1 = d1
  d2 = d2
  a1 = a1
  a2 = a2
  Operators = {o1, o2, o3}
  Keys = {k1, k2, k3}
  NewKeys = {k1, k3}
  Delegators = {d1, d2}
  Accounts = {a1, a2}
  Blocked = {a2}
  Chain <- MCChain
  FundLists <- MCFundLists
  Unparsable = Unparsable
  valVotingPower = 9
  BondedPower = 3
  None = None
  MaxCalls = 2
  MaxPeriod = 4
  MaxHeight = 3
INVARIANTS
  BlocksExecute
  PowersAgree
  DelegationsWithdraw
  FundedOnce
