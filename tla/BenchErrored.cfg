\* What --continue takes for done after a case errored.
CONSTANTS
  Case = {c1, c2}
  EscCase = {c1}
  NoCase = NoCase
  MaxLaunches = 2
SPECIFICATION Spec
INVARIANT OnlyVerdictsAreDone
CHECK_DEADLOCK FALSE
