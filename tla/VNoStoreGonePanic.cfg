\* Expected violation: a handle is loaded after its store was dropped.
CONSTANTS
    Threads = {t1, t2}
    Digests = {"d1", "d2"}
    NoThread = NoThread
    Refs <- MCRefs
    MaxCopies <- MCMaxCopies
    MaxCrashes = 0
SPECIFICATION Spec
INVARIANT NoStoreGonePanic
CHECK_DEADLOCK FALSE
