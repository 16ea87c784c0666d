SPECIFICATION Spec
CONSTANTS
  r1 = r1
  r2 = r2
  r3 = r3
  k1 = k1
  k2 = k2
  k3 = k3
  c1 = c1
  c2 = c2
  c3 = c3
  c4 = c4
  NULL = NULL
  Receivers <- AllReceivers
  Keys <- AllKeys
  Cells <- AllCells
  Uses <- BothUses
SYMMETRY Symmetry
CHECK_DEADLOCK FALSE
INVARIANTS TypeOK Linked FreesItsOwn WalkMeetsLive WalkMissesNobody
PROPERTIES IsMap
