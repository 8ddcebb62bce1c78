SPECIFICATION ClaimsSpec
CONSTANTS
  EqualAborts = "equal-aborts"
  NoAbort = "no-abort"
  Invariant = "invariant"
  SameOutput = "same-output"
  Name <- MCName
  LemmaLines <- MCLines
  MaxLines = 3
  World <- MCWorld
  Arg <- MCArg
  Values <- MCValues
  RelationNames <- MCRelations
  InvariantNames <- MCInvariants
  Abort = Abort
  MaxCalls = 2
INVARIANTS AcceptedIsSound RejectedIsJustified 
  ViewsEqual InvariantsKept CouplingIsFair
CHECK_DEADLOCK FALSE
PROPERTIES Terminates
