SPECIFICATION FairSpec
CONSTANTS
  Params = 2
  Literals = {"0", "1"}
  Consts = {"c", "d"}
  Loop = "loop"
  Theorems <- MCTheorems
INVARIANTS ClosedProofIsValid FindsShortest
PROPERTIES Ends
CHECK_DEADLOCK FALSE
