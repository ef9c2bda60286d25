SPECIFICATION Spec
CONSTANTS
  Dims = {"a", "b"}
  ExtraDims = {"b"}
  Weight <- MCWeight
  LimitBands <- MCLimitBands
  DqsBands <- MCDqsBands
  None = None
  All = All
  ClassLevel <- MCClassLevel
  Unit = 512
  Graphs <- MCGraphs
  Wants <- MCWants
INVARIANTS OnlyAgrees SpreadOfTheValue ReconciledTotal
CHECK_DEADLOCK FALSE
