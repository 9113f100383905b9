SPECIFICATION MCSpec
CONSTANTS
  Nodes = {1, 2, 3, 4}
  Sources = {1, 4}
  Links <- MCLinks
  CacheSize = 1
  NoKey = NoKey
  SeqModulus = 2
  TtlLimit = 3
  Ttls = {1, 5}
  MaxSends = 1
  MaxLosses = 1
  Stations = {s1, s2, s3}
  CwMin = 1
  CwMax = 7
  BlockSize = 2
  MaxRetx = 1
  Blocks = 2
  MaxReplies = 2
  MaxDropped = 2
  WcdWords <- MCWords
  WcdFrames <- MCFrames
  WcdCodes <- MCCodes
  WfrTypes = {8, 136, 264, 520, 776, 904, 33672, 33544, 128, 180, 196, 212, 164, 12, 2049}
  WfrLengths = {10, 23, 24, 26, 28, 30, 32, 34, 40}
  WfrBatches <- MCBatches
  WfrLimits = {20, 36, 60, 100, 2346, 4000}
  WpyPrefixes = {0, 16}
  WpyNoises <- MCNoises
  WpyGains <- MCGains
  WpyCbps = {16, 48, 96, 192, 288}
  BtbAddresses <- MCAddresses
  BtbBad <- MCBad
  BtbClocks = {0, 200, 268435450}
  BtbOffsets = {0, 65}
  BtbSlots = 6
  BtbSends = 2
  BllParams <- MCConnections
  BllMaps <- MCMaps
  BllHops = {8, 13}
  BllEvents = 38
  BlhNames = {0, 1, 10, 11, 29, 35}
  BlhMfg = {0, 5, 24, 40}
  BlhRooms = {2, 3, 5, 12, 31, 60}
  BlhSeeds = {5, 88}
  BlhTexts = {0, 1, 16, 35}
  BlhAttrs = 2
  BlhWrites = 3
  WbcPayloads = {0, 1, 3, 100, 1500}
  WbcIntents = {0, 7, 15}
  WbcDrifts <- MCDrifts
INVARIANTS RelayedOnce OvertakenBounded NoFalseAck BleLinkSound WirelessSound
PROPERTIES FloodEnds AllHear DcfNobodyStarves BaAllDelivered
CHECK_DEADLOCK FALSE
