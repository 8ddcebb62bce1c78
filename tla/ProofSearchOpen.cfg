SPECIFICATION Spec
CONSTANTS
  Params = 1
  Literals = {"0", "1"}
  Consts = {"c"}
  Loop = "loop"
  Theorems <- Small
INVARIANTS ProofIsValid
CHECK_DEADLOCK FALSE
