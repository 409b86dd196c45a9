SPECIFICATION NodeSpec
CONSTANTS
  blue = blue
  stake = stake
  bad = bad
  Denoms <- MCDenoms
  BadDenoms <- MCBadDenoms
  EmptyDenom = empty
  DefaultDenom = blue
  DefaultAmount = 2
  NilInt = NilInt
  MaxInt = 7
  NoParams = NoParams
  ConfigAuthority = "users"
  GenesisParams <- GenesisAny
  GenesisSupply <- Supply
  Fee <- FeeBlue
  SendAmounts = {1}
  UpdateChoices <- UpdatesAny
  VotingPeriod = 1
  InvCheckPeriod = 3
  MaxHeight = 3
  MaxCrashes = 1

PROPERTIES
  ParamsChangeOnlyByAuthority
  DoomIsPermanent
  LedgerSpec
