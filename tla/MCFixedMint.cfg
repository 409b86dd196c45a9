SPECIFICATION Spec
CONSTANTS
  Denoms = {blue, stake}
  BadDenoms = {bad}
  EmptyDenom = empty
  DefaultDenom = blue
  DefaultAmount = 1
  NilInt = NilInt
  MaxInt = 2
  NoParams = NoParams
  ConfigAuthority = ""
INVARIANTS
  TypeOK
  SupplyIsHeld
  ResidualIsDonated
PROPERTY BaseAccountEndsMinting
CHECK_DEADLOCK FALSE
