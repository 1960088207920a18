\* All texts of four characters and fewer; pools of one to three.
SPECIFICATION FairSpec
CONSTANTS
    MaxLen = 4
    Cases <- AllCases
    Fresh <- Anything
    Ends = {"zero", "other", "126", "127", "255", "signal"}
\* xargs exits.
CHECK_DEADLOCK FALSE
INVARIANTS
    WordsInOrder
    RunsFit
    PoolIsTold
PROPERTIES
    Terminates
