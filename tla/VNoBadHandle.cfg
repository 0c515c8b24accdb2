\* Expected violation: load of a handle resolve returned fails.
CONSTANTS
    Threads = {t1, t2}
    Digests = {"d1", "d2"}
    NoThread = NoThread
    Refs <- MCRefs
    MaxCopies <- MCMaxCopies
    MaxCrashes = 0
SPECIFICATION Spec
INVARIANT NoBadHandle
CHECK_DEADLOCK FALSE
