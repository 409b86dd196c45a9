SPECIFICATION Spec
CONSTANTS
  Validators = {1, 2}
  d1 = d1
  d2 = d2
  d3 = d3
  Delegations = {d1, d2, d3}
  To <- Recipients
  Entries = {e1}
  MaxValidators = 1
  Height = 5
  Unit = 2
  Tokens = {0, 1}
  Commissions = {0, 3}
  Currents = {1}
  Rewards = {0, 3}
  Dusts = {1}
  AllowLists <- Lists
  Malformed = malformed
  Periods = 2
INVARIANTS
  TypeOK
  EscrowCovered
  PaidInFull
  RecordsFitTogether
  FailsForAReason
CHECK_DEADLOCK FALSE
