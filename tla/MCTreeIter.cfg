\* from_iter / into_iter round trip over all prefix-free path sets.
CONSTANTS
    Names = {1, 2, 3}
    MaxLen = 2
SPECIFICATION Spec
INVARIANT RoundTrip
INVARIANT DuplicateOneWins
\* Each state is one input; no step changes it.
CHECK_DEADLOCK FALSE
