\* Three overlapping clicks and the requests of pages in between.
SPECIFICATION WebSpec
CONSTANTS
  Click = {c1, c2, c3}
  Entered <- MCEntered
  ApiEnv <- MCApiEnv
SYMMETRY MCSymmetry
INVARIANTS
  NeverActsForAnother
  UndisturbedResetIsFresh
