CONSTANTS
    LeftName = "left"
    RightName = "right"
    Assumption = {"real", "ideal"}
    Imports <- MCImports
    Typings <- MCTypings
    GamesOf <- MCGamesOf
    EntrySets <- MCEntrySets
SPECIFICATION Spec
INVARIANTS WiredLikeAssumption
