SPECIFICATION Spec
CONSTANTS
  Oracles <- MCOracles
  Tree <- MCTree
  Admitted = {}
  Invariants <- MCInvariants
  Injectivity <- MCInjectivity
  Name <- MCName
  Parallel = 1
  Requests <- MCTwice
INVARIANTS TranscriptsAreSaved
CHECK_DEADLOCK FALSE
