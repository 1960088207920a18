\* Short texts with -E b.
SPECIFICATION Spec
CONSTANTS
    MaxLen = 4
    Cases <- EofCases
    Fresh <- Zeroed
    Ends = {"zero"}
CHECK_DEADLOCK FALSE
INVARIANTS
    EofEnds
