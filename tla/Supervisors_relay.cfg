\* The relay of a stream that the API closes and its client publishes again.
SPECIFICATION FairSpec
CONSTANTS
  a = a
  r1 = r1
  r2 = r2
  t1 = t1
  t2 = t2
  Sessions <- OneSession
  Protocols = {"rtmp"}
  Watchers = {"recorder", "relay"}
  Attached = {{"relay"}}
  BusCap = 2
  MaxSources = 2
  MaxCloses = 1
  Recordings <- TwoRecordings
  NoRecording = NoRecording
  Formats = {"flv"}
  AutoRecord = {"flv"}
  MaxCmds = 0
  Relays <- TwoRelays
  NoRelay = NoRelay
PROPERTIES
  RelayWhilePublished
CHECK_DEADLOCK FALSE
