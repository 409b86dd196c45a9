SPECIFICATION Spec
CONSTANTS
  blue = blue
  bad = bad
  long = long
  empty = empty
  minus = minus
  zero = zero
  one = one
  spelled = spelled
  large = large
  word = word
  gov = gov
  user = user
  noone = noone
  Unparsable = Unparsable
  OutOfRange = OutOfRange
  Denoms = {blue, long}
  BadDenoms = {bad}
  EmptyDenom = empty
  EmptyText = empty
  DefaultDenom = blue
  DefaultAmount = 1
  NilInt = NilInt
  MaxInt = 1
  LengthOf <- MCLengthOf
  ParseInt <- MCParseInt
  FormatInt <- MCFormatInt
  Gov = gov
  User = user
  Configurations = {empty, user}
  Foreign <- MCForeign
  Typed <- MCTyped
  Requests <- MCRequests
  Additions <- MCAdditions
  NoProposal = NoProposal
INVARIANTS
  CodecsAgree
  MeantIsApplied
  RepliesAgree
PROPERTY RegisterSpec
CHECK_DEADLOCK FALSE
