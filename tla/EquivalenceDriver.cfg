SPECIFICATION FairSpec
CONSTANTS
  Oracles <- MCOracles
  Tree <- MCTree
  Admitted <- MCAdmitted
  Invariants <- MCInvariants
  Injectivity <- MCInjectivity
  Name <- MCName
  Parallel = 1
  Requests <- MCRequests
INVARIANTS OkMeansProved BarsAreTruthful TranscriptsAreOwn
PROPERTIES ImplementsVerdict Finishes
CHECK_DEADLOCK FALSE
