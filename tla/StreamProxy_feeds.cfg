CONSTANTS
  Tasks = {t1, t2}
  NoTask = NoTask
  MaxApiAdds = 2
  MaxApiCloses = 0
SPECIFICATION ProxySpec
INVARIANT PullFeedsRegistry
CHECK_DEADLOCK FALSE
