CONSTANTS
    Inputs <- MCInputs
    ReadType <- MCReadType
    ReadExpression <- MCReadExpression
    WithLengths <- MCWithLengths
    CannotReplace <- MCCannotReplace
    TypeFor <- MCTypeFor
    ExpressionFor <- MCExpressionFor
    CodeFor <- MCCodeFor
    SameType <- MCSameType
    NamesAType <- MCNamesAType
    ReadPackageSpec <- MCReadPackageSpec
    SortsAreNamed <- MCSortsAreNamed
SPECIFICATION Spec
INVARIANTS InferenceIsExact AcceptedIsTyped PathsComplete BareNamesUnique
    WiresComplete SignaturesAgree InstanceIsSubstitution HybridSides
    SuccessIsEarned LengthsAreConstants
