SPECIFICATION Spec
CONSTANTS
  PageNo <- Pages
  LeafOrder = 3
  BranchOrder = 4
  MaxKey = 9
  Entries <- Stored
  Starts <- Files
  MaxChanges = 2
  MaxMatches = 3
  MaxLoops = 1
  Allocs = {1, 9}
  Moves = {"next"}
  SplitPast = TRUE
  EmptyLeaf = FALSE
VIEW View
INVARIANT RepeatsTogether
CHECK_DEADLOCK FALSE
