SPECIFICATION FairSpec
CONSTANTS
    MaxStreams = 3
    MaxChunks = 4
INVARIANT WordsAbsolute
INVARIANT TailIsKept
PROPERTY EndedCompletes
CHECK_DEADLOCK FALSE
