SPECIFICATION Spec
CONSTANTS
  num_of_docs = 7
  static_num_of_docs = 6
  w1 = w1
  w2 = w2
  Words <- MCWords
  Entries <- MCEntries
  Levels = {1}
  Skips <- MCSkips
  Junk = {0, 5}
  MaxRebuilds = 1
  MaxOps = 2
INVARIANT NeverLost
SYMMETRY Symmetry
CHECK_DEADLOCK FALSE
