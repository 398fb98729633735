SPECIFICATION FairSpec
CONSTANTS
    Jobs = {1}
    Stride = 2
    NotThere = NotThere
    Trees <- MCTrees
    Nothing = Nothing
    MaxEntries = 2
    MaxQueue = 2
INVARIANTS AnswersAreHeard
CHECK_DEADLOCK FALSE
