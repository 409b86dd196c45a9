SPECIFICATION Spec
CHECK_DEADLOCK FALSE
CONSTANTS
  n1 = n1
  n2 = n2
  fixedmint = fixedmint
  wasm = wasm
  Procs = {n1, n2}
  Faults = {"none", "wasm config", "streaming", "vm locked"}
  Old = Old
  New_ = New_
  Handlers <- MCHandlers
  Versions <- MCVersions
  Modules = {fixedmint, wasm}
  Manual = {wasm}
  PlanNames = {"v1.1.0", "v9"}
  MaxHeight = 3
INVARIANTS
  ConstructionOrdered
  MigratedOnce
  BlocksOnRightCode
  NoDeadEnd
