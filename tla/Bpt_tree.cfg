SPECIFICATION Spec
CONSTANTS
  PageNo <- Pages
  LeafOrder = 3
  BranchOrder = 4
  MaxKey = 9
  Entries <- Stored
  Starts <- Files
  MaxChanges = 2
  MaxMatches = 3
  MaxLoops = 1
  Allocs = {1, 9}
  Moves = {"first", "last", "next", "prev"}
  SplitPast = FALSE
  EmptyLeaf = FALSE
VIEW View
INVARIANTS Verified PagesBalanced FindComplete CursorRange
PROPERTIES WalkInOrder ImplementsTable
CHECK_DEADLOCK FALSE
