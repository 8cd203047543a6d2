\* Five modules around module 3, two of which are elected: one more than the
\* table of known modules has room for, at three distances.
SPECIFICATION Spec
CONSTANTS
  Module = {1, 2, 3, 4, 5, 6}
  Self = 3
  Position = {0, 1, 2}
  Metric <- OnALine
  K = 2
  MaxKnown = 4
  MinNeighbors = 1
  Period = 4
INVARIANTS
  TypeOK
  NearestElected
  NeighborsTold
PROPERTIES
  AnnouncesForEver
