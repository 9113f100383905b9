SPECIFICATION MCSpec
CONSTANTS
  Pmks = {p1, p2}
  Nonces = {n1, n2, n3}
  ZeroNonce = n0
  NoPTK = NoPTK
  Bytes = {0, 1}
  GtkLen = 2
  Gtks <- MCGtks
  GtkIds = {0, 1}
  CtrMod = 4
  MaxDups = 0
  MaxStarts = 1
  MaxInits = 0
  WhLengths = {0, 55, 56, 120}
  WhPieces = {1, 55}
  WcKeyBits = {128, 192, 256}
  WcLengths = {1, 16, 21}
  WsLengths = {1, 16}
  WsNumbers = {1, 258}
  KhNonces = {1, 2}
  KhMaxRekeys = 1
  SpScalars = {1, 2}
  SpPasswords = {3, 4}
  SpMaxCommits <- MCCommits
  IdWindow = 2
  IdSteps = {0, 1, 3}
INVARIANTS KeysMatch  HashSound CiphersSound
PROPERTY MCExchangeEnds
CHECK_DEADLOCK FALSE
