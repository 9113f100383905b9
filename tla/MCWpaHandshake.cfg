SPECIFICATION Spec
CONSTANTS
  Pmks = {p1, p2}
  Nonces = {n1, n2}
  ZeroNonce = n0
  NoPTK = NoPTK
  Bytes = {0, 1}
  GtkLen = 2
  Gtks <- MCGtks
  GtkIds = {1}
  CtrMod = 4
  MaxDups = 1
  MaxStarts = 2
  MaxInits = 1
INVARIANTS HandshakeInv CompleteIsConfirmed GroupKeyProvenance CountersEchoed
PROPERTY ImplementsKeyAgreement
SYMMETRY Symmetry
CHECK_DEADLOCK FALSE
