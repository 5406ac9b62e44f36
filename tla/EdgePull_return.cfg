CONSTANTS
  p1 = p1
  p2 = p2
  Tasks <- TwoTasks
  NoTask = 0
  MaxApiAdds = 0
  MaxApiCloses = 0
  Players = {p1, p2}
  Transient = {}
  NumOrigins = 1
  MaxPlays = 1
  Lossy = FALSE
SPECIFICATION Spec
PROPERTY ReturningPlayerIsSafe
CHECK_DEADLOCK FALSE
