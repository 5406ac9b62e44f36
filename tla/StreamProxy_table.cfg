CONSTANTS
  Tasks = {t1, t2, t3}
  NoTask = NoTask
  MaxApiAdds = 3
  MaxApiCloses = 1
SPECIFICATION TalkingProxySpec
INVARIANTS
  TableHonest
PROPERTIES
  TableRefined StopEndsTask
CHECK_DEADLOCK FALSE
