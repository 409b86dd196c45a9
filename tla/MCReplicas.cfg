SPECIFICATION Spec
CONSTANTS
  blue = blue
  Denoms <- MCDenoms
  BadDenoms = {bad}
  EmptyDenom = empty
  DefaultDenom = blue
  DefaultAmount = 2
  NilInt = NilInt
  MaxInt = 100
  NoParams = NoParams
  ConfigAuthority = ""
  GenesisParams <- Genesis
  GenesisSupply <- Supply
  Fee <- FeeBlue
  SendAmounts = {3}
  UpdateChoices <- Updates
  VotingPeriod = 1
  InvCheckPeriodA = 1
  InvCheckPeriodB = 0
  MaxCrashesA = 1
  MaxCrashesB = 0
  MaxHeight = 2
INVARIANT Agreement
