\* A source and the eight media paths, each with lossy, torn or foreign input where it has any.
SPECIFICATION FormatsSpec
CONSTANTS
  p1 = p1
  p2 = p2
  r1 = r1
  r2 = r2
  Publishers = {p1, p2}
  Emits <- AVEmits
  Readers = {r1}
  Profile <- OneFlvRecorder
  MaxGopFrames = 2
  ChannelCap = 2
  MaxFrames = 4
  SeqSpace = 16
  Window = 3
  Mtu = 5
  FirstSeqs = {0, 14}
  Units <- RtpUnits
  Copies = 2
  HeadLen = 6
  MaxPes = 6
  TailLen = 1
  MaxBuf = 18
  PsPlans <- PsInstances
  PsPieces = {1, 3, 4}
  MaxPsLoss = 1
  PacketLen = 12
  Cap = 8
  PesHead = 3
  MinPayload = 2
  AdtsHead = 3
  TsPlans <- TsInstances
  TornPrefixes = {0, 5}
  Pieces = {7, 12, 24}
  MaxTsLoss = 1
  Mp4Frames <- Mp4Inputs
  MaxMp4Frames = 4
  ForeignFiles <- ForeignInstances
  SeekTimes = {0, 30, 1000}
  MoovLen = 100
  FragFrames <- FragmentInputs
  MaxFragFrames = 4
  MaxSegments = 2
  FlvStreams <- FlvInstances
  Modes = {"chunked", "plain"}
  PartSizes = {7, 40}
  StampMod = 16
  OffsetMax = 7
  RtmpPlans <- RtmpInstances
  Csids = {4, 6}
  FirstSize = 2
  ServerSize = 4
  TsLimit = 50
  HlsPlans <- HlsInstances
  PlaylistWindow = 3
  FirstSequence = 7
  SeenLimit = 3
  MaxClears = 1
INVARIANTS
  GopIsExact NoGap ConfigFirst
  RtpExact PsExact TsExact Mp4Exact Mp4SeekComplete FragExact FlvExact
  RtmpExact HlsExact
PROPERTY
  PsSkipsNoStart
CHECK_DEADLOCK FALSE
