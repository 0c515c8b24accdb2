\* marshal over every small tree from_iter builds, with process failures,
\* under the executor's and the Marshaller's progress.
CONSTANTS
    Trees <- MCTrees
    CanFail = TRUE
    MaxNodes = 13
SPECIFICATION FairSpec
INVARIANT TypeOK
INVARIANT MarshalCorrect
INVARIANT ChildrenFirst
PROPERTY MarshalEnds
\* marshal's future resolves and nothing more happens.
CHECK_DEADLOCK FALSE
