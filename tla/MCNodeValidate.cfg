SPECIFICATION NodeSpec
CONSTANTS
  blue = blue
  stake = stake
  bad = bad
  Denoms <- MCDenoms
  BadDenoms <- MCBadDenoms
  EmptyDenom = empty
  DefaultDenom = blue
  DefaultAmount = 2
  NilInt = NilInt
  MaxInt = 100
  NoParams = NoParams
  ConfigAuthority = ""
  GenesisParams <- GenesisGood
  GenesisSupply <- Supply
  Fee <- FeeBlue
  SendAmounts = {3}
  UpdateChoices <- UpdatesAny
  VotingPeriod = 1
  InvCheckPeriod = 0
  MaxHeight = 3
  MaxCrashes = 1
INVARIANT ValidatedParamsCanBeMinted
