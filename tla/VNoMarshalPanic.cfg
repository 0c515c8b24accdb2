\* Expected violation: marshal of a tree after OccupiedEntry::remove.
CONSTANTS
    Trees <- MCRemovedTrees
    CanFail = FALSE
    MaxNodes = 13
SPECIFICATION Spec
INVARIANT NoMarshalPanic
CHECK_DEADLOCK FALSE
