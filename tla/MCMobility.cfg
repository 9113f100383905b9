SPECIFICATION MCSpec
CONSTANTS
  Cells = {c1, c2}
  NoCell = NoCell
  CountMod = 4
  MaxProcs = 3
  MaxRecoveries = 2
  CellIds = {1, 2, 3}
  Levels = {0, 1, 2}
  Hys = 1
  Offset0 <- MCOffset0
  OffsetLimit = 30
  CioLimit = 24
  Ttt0 = 80
  TttMin = 40
  TttMax = 120
  Period = 40
  Window = 3
  HistLen = 3
  AgeCap = 3
  MaxCorrections = 1
  Neighbours = {1, 2, 3}
  RelLevels = {0, 1, 2}
  Samples = 3
  Stable = TRUE
  NcLifts <- MCLifts
  NcBuffers <- MCBuffers
  NcPolars <- MCPolars
  NcPatterns <- MCPatterns
  NbwBandwidths <- MCBandwidths
  NbwParts <- MCParts
  NbwBlocks <- MCLoads
  NbwGrids <- MCGrids
  NccSpaces <- MCSpaces
  NccDcis <- MCDcis
  NccParts <- MCDciParts
  NccBlocks <- MCBlocks
  NssCells <- MCCells
  NssTimings = {0, 8}
  NssPayloads <- MCPayloads
  NslLevels = {70, 75, 80}
  NslHys = {0, 3}
  NslMatrices <- MCMatrices
  NslWeights <- MCWeights
  NslMihs <- MCMihs
  HasLists <- MCLists
  HasTracks <- MCTracks
  HasLoads <- MCCellLoads
  HasNeighbors <- MCNeighbors
  HasTrials = 4
  MobWidth = 4
  MobHeight = 3
  MobSpeeds <- MCWalkSpeeds
  MobTurns <- MCTurns
  MobPlaces <- MCPlaces
  MobFlights = {1, 4, 20}
  MobSteps = 3
  SgtLevels <- MCRxLevels
  SgtNoises <- MCNoises
  SgtFilters <- MCFilters
  SgtSamples = 4
  SgtWeights = {0, 20, 50, 100}
  DmoStride = 20
  DmoShadows <- MCShadows
  CplGrids <- MCHexGrids
  CplReuses = {1, 2, 3, 4, 7, 9, 13}
  CplRelations = 2
  CplEvents = 3
  CplTraffics <- MCOffered
  CplTargets <- MCBlockings
  CplSites <- MCCandidates
  CplRadius = 500
  CplAreas = {0, 1, 30}
  CrdDistances <- MCDistances
  CrdBudgets = {0, 9000, 12000, 14000, 16000, 18000}
  CrdSinrs <- MCSinrs
  CrdLosses = {8000, 12500, 14000}
  CrdCommands = 4
  CrdGains <- MCGains
  CrdPowers <- MCTotals
  CrdLevels <- MCEngineLevels
  CrdFilters = {0, 4, 8}
  CrdReports = 6
  CrsIds = {1, 2}
  CrsLevels <- MCUserLevels
  CrsPlaces = 3
  CrsRbs = 7
  CrsEvents = 5
INVARIANTS ProcedureSound TargetAdmitted NoFalseAlarm TargetHeld NetworkSound
PROPERTIES ImplementsMobilityService RequestEnds Spaced Settles NotStuck NoneMissed
CHECK_DEADLOCK FALSE
