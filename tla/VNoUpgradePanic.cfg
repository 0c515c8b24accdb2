\* Expected violation: the unwrap after the objects upsert panics.
CONSTANTS
    Threads = {t1, t2}
    Digests = {"d1", "d2"}
    NoThread = NoThread
    Refs <- MCRefs
    MaxCopies <- MCMaxCopies
    MaxCrashes = 0
SPECIFICATION Spec
INVARIANT NoUpgradePanic
CHECK_DEADLOCK FALSE
