\* Round trips of the store codec and of the marshalled object kinds.
CONSTANTS
    AlgoName <- MCAlgoName
    DigestSize = 2
SPECIFICATION Spec
INVARIANT CodecRoundTrip
INVARIANT TruncationFails
INVARIANT ObjectRoundTrip
\* Each state is one input; no step changes it.
CHECK_DEADLOCK FALSE
