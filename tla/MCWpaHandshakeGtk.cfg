SPECIFICATION Spec
CONSTANTS
  Pmks = {p1, p2}
  Nonces = {n1, n2, n3}
  ZeroNonce = n0
  NoPTK = NoPTK
  Bytes = {0, 1}
  GtkLen = 2
  Gtks <- MCGtks
  GtkIds = {0, 1}
  CtrMod = 4
  MaxDups = 0
  MaxStarts = 1
  MaxInits = 0
INVARIANT GroupKeyDelivered
CHECK_DEADLOCK FALSE
