SPECIFICATION MCSpec
CONSTANTS
  Budget = 2
  Ratio = 2
  Toas = {1, 2}
  Senders = {s1, s2}
  Snrs <- MCSnrs
  Delay = 3
  CntMod = 5
  LsAppKey <- MCAppKey
  LsNonces <- MCNonces
  LsAddr <- MCAddr
  LsConfirmed = {FALSE}
  LsLengths = {7, 8}
  LsMaxCnt = 2
  LpConfigs <- MCConfigs
  LpPayloads <- MCPayloads
  NbT3324 = 3
  NbT3412 = 9
  NbTau = 2
  NbSteps = {1, 4}
  NbCells = {0, 7, 391, 398}
  LrpMeters <- MCMeters
  LrpTrackers <- MCTrackers
  LrpSensors <- MCSensors
  LrpRooms = {12, 13, 19, 20}
  LpkModels <- MCModels
  LpkSenders <- MCSenders
  LpkSettings <- MCSettings
  NbaBlocks <- MCBlocks
  NbaCells = {0, 1, 2, 100, 123, 503}
  NbaPulses <- MCPulses
  PlsSites <- MCSites
  PlsNear = 5
  PlsFar = 50000
INVARIANTS WindowBudget OverrunBounded TwoWindowsAtMost PoorLinkAnswered SessionSound PacketSound NodeSound LowPowerSound
PROPERTIES RefusalEnds AdrSettles
CHECK_DEADLOCK FALSE
