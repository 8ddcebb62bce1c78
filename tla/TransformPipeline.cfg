CONSTANTS
    Loops = "half_open"
    Edges <- MCEdges
    Exports = {1}
    Games <- MCGames
    StateVars <- MCStateVars
    GameConsts <- MCGameConsts
    Params <- MCParams
    Inputs <- MCInputs
SPECIFICATION Spec
INVARIANTS MeaningPreserved NormalForm SamplesAccounted OnlyLoopsFail SmtMeansSame
CHECK_DEADLOCK FALSE
