CONSTANTS
  p1 = p1
  p2 = p2
  r1 = r1
  r2 = r2
  Publishers = {p1}
  Emits <- VideoEmits
  Readers = {r1}
  Profile <- OneMp4Recorder
  MaxGopFrames = 2
  ChannelCap = 2
  MaxFrames = 3
SPECIFICATION Spec
INVARIANT ReplayLosesNothing
CHECK_DEADLOCK FALSE
