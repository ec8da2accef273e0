SPECIFICATION Spec
CONSTANTS
  k1 = k1
  k2 = k2
  k3 = k3
  Keys = {k1, k2, k3}
  Limits = {1, 2}
  QueryWindow = 1
  ResponseWindow = 1
  MatchAge = 2
  Skew = 1
  MaxTime = 4
  MaxQueries = 3
  Restarts = 1
  MaxPageSize = 1
SYMMETRY KeySymmetry
INVARIANTS PendingExact NewestRetained OldestAnsweredFirst CopiesCountOnce
PROPERTIES AnswersAreFinal PagesMoveBack
