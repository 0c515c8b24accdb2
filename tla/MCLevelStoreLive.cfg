\* Liveness of store calls: no crashes, so every call runs to its end.
CONSTANTS
    Threads = {t1, t2}
    Digests = {"d1", "d2"}
    NoThread = NoThread
    Refs <- MCRefs
    MaxCopies <- MCMaxCopies
    MaxCrashes = 0
SPECIFICATION FairSpec
PROPERTY OpsComplete
\* A thread that panicked stops for good; when both have, nothing runs.
CHECK_DEADLOCK FALSE
