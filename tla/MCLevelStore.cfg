CONSTANTS
    Threads = {t1, t2}
    Digests = {"d1", "d2"}
    NoThread = NoThread
    Refs <- MCRefs
    MaxCopies <- MCMaxCopies
    MaxCrashes = 1
SPECIFICATION Spec
INVARIANT TypeOK
INVARIANT QuiescentCoherence
INVARIANT HandedOutLoadable
CHECK_DEADLOCK FALSE
