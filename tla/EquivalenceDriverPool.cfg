SPECIFICATION Spec
CONSTANTS
  Oracles <- MCOracles
  Tree <- MCTree
  Admitted <- MCAdmitted
  Invariants <- MCInvariants
  Injectivity <- MCInjectivity
  Name <- MCName
  Parallel = 1
  Requests <- MCRequests
INVARIANTS SolversWithinParallel
CHECK_DEADLOCK FALSE
