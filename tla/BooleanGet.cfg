SPECIFICATION Spec
CONSTANTS
  num_of_docs = 7
  static_num_of_docs = 6
  w1 = w1
  w2 = w2
  Words <- MCWords
  Entries <- MCEntries
  Levels = {2}
  Skips <- MCSkips
  Junk = {0}
  MaxRebuilds = 2
  MaxOps = 3
INVARIANTS
  TypeOK
  NeverLost
  ListsRight
  RebuildKeeps
PROPERTY HopsAhead
SYMMETRY Symmetry
\* A query is bounded.
CHECK_DEADLOCK FALSE
