SPECIFICATION Spec
CONSTANTS
  p1 = p1
  p2 = p2
  i1 = i1
  i2 = i2
  n1 = n1
  n2 = n2
  n3 = n3
  n4 = n4
  Producers <- TwoProducers
  Item <- TwoItems
  Nodes <- FourNodes
  NULL = NULL
  CountSize = 4
  MaxItems = 5
CHECK_DEADLOCK FALSE
INVARIANTS TypeOK Linked SizeIsLength NeverNull
PROPERTIES InOrder AllTaken
