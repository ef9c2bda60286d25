SPECIFICATION Spec
CONSTANTS
  early = early
  later = later
  both = both
  Unit = 100
  Declared <- MCDeclared
  Catchall <- MCCatchall
  Alias <- MCAlias
  SymbolToElement <- MCSymbolToElement
  DefaultQuality <- MCDefaultQuality
  Corrections <- MCCorrections
  EmYearTol = 1
  Dataset <- MCDataset
  Exports <- BothExports
  FleetMin = 1980
  FleetMax = 2050
  Routers = {r1}
  Absent = Absent
  Torn = Torn
  Idle = Idle
  MaxCalls = 2
  MaxRemoved = 0
  MaxDigests = 2
INVARIANT CanonicalConserves
CHECK_DEADLOCK FALSE
