SPECIFICATION GenpySpec
CONSTANTS
  Names <- MCNames
  MaxDepth = 6
  Machines <- MCMachines
  Targets <- MCTargets
  Loadable = {"geo", "nav", "loose"}
  MaxCalls = 2
  MaxRecords = 2
INVARIANTS
  DepsExact
  HistoryFree
  SameMd5SameWire
  SelfContained
  LayoutRight
