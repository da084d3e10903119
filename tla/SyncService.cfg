SPECIFICATION FairSpec
CONSTANTS
  t1 = t1
  t2 = t2
  t3 = t3
  r1 = r1
  None = None
  Threads <- MCPair
  Rids <- MCRids
  MaxVersion = 3
INVARIANTS
  ExportIsMarked
  FavoriteKept
PROPERTIES
  UpdatesMoveOn
  CardsAreDone
