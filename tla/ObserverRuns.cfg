\* Two processes, two requests at a time and a stop over two cases.
SPECIFICATION Spec
CONSTANTS
  Case = {c1, c2}
  NoCase = NoCase
  Request = {r1, r2}
  MaxRuns = 2
  MaxStops = 1
INVARIANTS TypeOK OneAtATime NoOrphan TakesNoVerdict
\* the bounded number of processes is used up
CHECK_DEADLOCK FALSE
