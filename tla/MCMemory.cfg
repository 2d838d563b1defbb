SPECIFICATION MemorySpec
CONSTANTS
  Blocks = {b1, b2, b3}
  Slices = {a1, a2}
  Plain = Plain
  Null = Null
  Wild = Wild
  NoNode = NoNode
  Sizes = {"slist", "list"}
  Big = "big"
  Data = {x, y}
  MaxCached = 2
  Width = 4
  MaxRefs = 2
SYMMETRY Symmetric
INVARIANTS TypeOK NothingLost CachedExact GoesBack NodesOwned LinksInverse
PROPERTIES SListIsSequence ListIsSequence
CHECK_DEADLOCK FALSE
