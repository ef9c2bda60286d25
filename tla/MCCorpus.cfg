SPECIFICATION Spec
CONSTANTS
  early = early
  later = later
  both = both
  Unit = 200
  Declared <- MCDeclared
  Catchall <- MCCatchall
  Alias <- MCAlias
  SymbolToElement <- MCSymbolToElement
  DefaultQuality <- MCDefaultQuality
  Corrections <- MCCorrections
  EmYearTol = 1
  Dataset <- MCDataset
  Exports <- MCExports
  FleetMin = 1980
  FleetMax = 2050
  Routers = {r1}
  Absent = Absent
  Torn = Torn
  Idle = Idle
  MaxCalls = 2
  MaxRemoved = 1
  MaxDigests = 2
INVARIANTS RouterGivesBack ServedOnce OneMakeUp EntryTrue
PROPERTY DigestRepairs
CHECK_DEADLOCK FALSE
