CONSTANTS
    o1 = o1
    o2 = o2
    dell = dell
    lg = lg
    NoEdid = NoEdid
SPECIFICATION Spec
VIEW StateUpToNames
INVARIANTS
    PreviousIsTheOneLeft
    SavedIsCurrent
PROPERTIES
    ColumnsStay
\* The model stops at a panic.
CHECK_DEADLOCK FALSE
