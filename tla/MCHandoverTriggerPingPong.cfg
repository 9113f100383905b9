SPECIFICATION HoSpec
CONSTANTS
  CellIds = {1, 2, 3}
  Levels = {0, 1, 2}
  Hys = 1
  Offset0 = 0
  OffsetLimit = 30
  CioLimit = 24
  Ttt0 = 80
  TttMin = 40
  TttMax = 160
  Period = 40
  Window = 4
  HistLen = 3
  AgeCap = 4
  MaxCorrections = 0
INVARIANT PingPongFlagged
