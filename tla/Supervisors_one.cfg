\* One session that publishes again and again; the recorder or the relay watches.
SPECIFICATION FairSpec
CONSTANTS
  a = a
  r1 = r1
  r2 = r2
  t1 = t1
  t2 = t2
  Sessions <- OneSession
  Protocols = {"rtmp", "srt"}
  Watchers = {"recorder", "relay"}
  Attached = {{"recorder"}, {"relay"}}
  BusCap = 2
  MaxSources = 2
  MaxCloses = 1
  Recordings <- TwoRecordings
  NoRecording = NoRecording
  Formats = {"flv"}
  AutoRecord = {"flv"}
  MaxCmds = 1
  Relays <- TwoRelays
  NoRelay = NoRelay
INVARIANTS
  OneRecording
  OneRelay
PROPERTIES
  RecordersEnd
  RelayStops
CHECK_DEADLOCK FALSE
