\* Two sessions, two pushers, an event bus that overruns at the second event.
SPECIFICATION PusherSpec
CONSTANTS
  a = a
  b = b
  t1 = t1
  t2 = t2
  Sessions <- TwoSessions
  Protocols <- Announcing
  Pushers <- TwoPushers
  NoPusher = NoPusher
  Watchers = {"pusher"}
  Attached = {{"pusher"}}
  BusCap = 1
  MaxSources = 2
  MaxCloses = 1
SYMMETRY Same
INVARIANTS
  NoOrphan
  UnpublishedIsGone
  NoMissedPublish
CHECK_DEADLOCK FALSE
