SPECIFICATION Spec
CONSTANTS
  MaxNodes = 3
  MaxCalls = 2
  StakeLists <- MCStakes
  PortLists <- MCPorts
  Unparsable = unparsable
  Broken = broken
  Nothing = nothing
INVARIANTS
  GenesisFilesAgree
  ValidatorsAreNodes
  NodesAreValidators
  PortsDistinct
CHECK_DEADLOCK FALSE
