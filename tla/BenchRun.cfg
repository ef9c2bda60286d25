\* Three launches over two cases, one of them with an escalation model.
CONSTANTS
  Case = {c1, c2}
  EscCase = {c1}
  NoCase = NoCase
  MaxLaunches = 3
SPECIFICATION FairSpec
INVARIANTS TypeOK OwnDir CompleteAtExit ResultsMatchFiles
PROPERTIES VerdictKept RunEnds IsChecklist
\* the bounded number of launches is used up
CHECK_DEADLOCK FALSE
