\* Two consumers of a source, three senders, two receivers, a transcoding pipe, a
\* WebRTC session with two PATCH requests.
SPECIFICATION SessionsSpec
CONSTANTS
  p1 = p1
  p2 = p2
  r1 = r1
  r2 = r2
  Publishers = {p1}
  Emits <- VideoEmits
  Readers = {r1, r2}
  Profile <- Overrun
  MaxGopFrames = 2
  ChannelCap = 1
  MaxFrames = 2
  Requests <- SendInstances
  MaxGop = 1
  MaxPackets = 2
  MaxQueue = 1
  MaxSourceFrames = 1
  PortSpace = 4
  PortBase = 3
  Receivers = {1, 2}
  OpenPlans <- OpenInstances
  MaxIngest = 2
  GopLens = {0, 2, 9}
  LiveFrames = 2
  ChanCap = 1
  PipeCap = 1
  WrPosts = {1}
  WrPatches = {1, 2}
  SdpFragments <- SdpInstances
  MaxFlaps = 3
INVARIANTS
  SendersAccounted ReceiversAccounted TpConserved WrSessionsExact
PROPERTIES
  CloseEndsReaders
  SendersEndWithSource ClosedEnds TpDeathEnds WrGoneCleaned
CHECK_DEADLOCK FALSE
