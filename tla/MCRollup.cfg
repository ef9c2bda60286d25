SPECIFICATION Spec
CONSTANTS
  Shapes <- MCShapes
  Mixes <- Mixed
  Whole <- MCWhole
  Scores = {1, 2}
  Families = {"class", "component", "partof"}
INVARIANTS Complete Conserved ExactInNameOrder TwinsFollowValue
CHECK_DEADLOCK FALSE
