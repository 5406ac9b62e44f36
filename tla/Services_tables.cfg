\* Two concurrent requests of each service.
SPECIFICATION Spec
CONSTANTS
  FfKeys = {"a", "b"}
  FfCalls = {1, 2}
  MaxProcesses = 3
  TtCalls = {1, 2}
  MaxSessions = 4
  HookUrls = {"none", "u1"}
  Retries = {0, 1}
  Intervals = {0, 1, 2}
  HookCalls = {1}
  Setters = {1, 2}
  MaxSets = 2
  MaxCalls = 1
  Devices = {"d1"}
  Channels = {"a"}
  CallPlans <- SipInstances
  CallIds = {1, 2}
  MaxMedia = 2
  Queries <- OneQuery
  LastPort = 2
  CounterSize = 4
  FirstMedia = {0, 2}
  SegKinds = {"hls", "cmaf", "dash"}
  Viewers = {1, 2}
  Scripts <- SegmentScripts
  MaxRequests = 1
  MaxTasks = 2
  SegWindow = 1
  Target = 1
  AskedFor = {0, 1}
INVARIANTS
  FfAccounted TtReachable HookConsistent DialogMediaOwned CacheConsistent
PROPERTY
  CacheFollowsSource
CHECK_DEADLOCK FALSE
