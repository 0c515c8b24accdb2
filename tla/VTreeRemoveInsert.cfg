\* Tree with remove: does the tree still implement the path map?
CONSTANTS
    Names = {1, 2}
    Content <- MCContent
    Paths <- MCPaths
    Entries <- MCEntries
    RootEntries <- MCRootEntries
    AllowRemove = TRUE
    MaxNodes = 8
SPECIFICATION Spec
PROPERTY Refinement
\* A failed assertion ends the program.
CHECK_DEADLOCK FALSE
