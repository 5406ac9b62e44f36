CONSTANTS
  p1 = p1
  p2 = p2
  Tasks <- ThreeTasks
  NoTask = 0
  MaxApiAdds = 1
  MaxApiCloses = 0
  Players = {p1, p2}
  Transient = {p2}
  NumOrigins = 1
  MaxPlays = 1
  Lossy = TRUE
SPECIFICATION Spec
INVARIANTS
  PullsOwned
CHECK_DEADLOCK FALSE
