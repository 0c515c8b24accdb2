\* Tree without remove: the arena is a tree and implements the path map.
CONSTANTS
    Names = {1, 2}
    Content <- MCContent
    Paths <- MCPaths
    Entries <- MCEntries
    RootEntries <- MCRootEntries
    AllowRemove = FALSE
    MaxNodes = 8
SPECIFICATION Spec
INVARIANT TypeOK
PROPERTY Refinement
