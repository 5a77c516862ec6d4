SPECIFICATION Spec
CONSTANTS
    SortedNames <- MCNames
    Selectors <- MCSelectors
    BadSelectors <- MCBadSelectors
    Requests <- MCRequests
    NoName = ""
    Nil = Nil
INVARIANTS TypeOK VerdictRight DependenciesFirst CycleReported RecursionBounded UpdateKeepsStarted
CHECK_DEADLOCK FALSE
