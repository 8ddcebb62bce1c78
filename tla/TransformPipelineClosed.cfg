CONSTANTS
    Loops = "closed"
    Edges <- MCEdges
    Exports = {1}
    Games <- MCGames
    StateVars <- MCStateVars
    GameConsts <- MCGameConsts
    Params <- MCParams
    Inputs <- MCInputs
SPECIFICATION Spec
INVARIANTS MeaningPreserved
CHECK_DEADLOCK FALSE
