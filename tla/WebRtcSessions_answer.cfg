\* One POST, no PATCH.
SPECIFICATION WrSpec
CONSTANTS
  WrPosts = {1}
  WrPatches = {}
  SdpFragments = {}
  MaxFlaps = 2
PROPERTY WrPostAnswered
CHECK_DEADLOCK FALSE
