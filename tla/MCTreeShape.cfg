\* Tree with remove: the arena stays a tree.
CONSTANTS
    Names = {1, 2}
    Content <- MCContent
    Paths <- MCPaths
    Entries <- MCEntries
    RootEntries <- MCRootEntries
    AllowRemove = TRUE
    MaxNodes = 8
SPECIFICATION Spec
INVARIANT TreeShaped
\* A failed assertion ends the program.
CHECK_DEADLOCK FALSE
