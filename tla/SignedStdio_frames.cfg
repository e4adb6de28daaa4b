SPECIFICATION FairSpec
CONSTANTS
    MaxFrames = 4
    MaxCounter = 2
INVARIANTS
    FreshCounters
    InOrder
PROPERTIES
    SilentAfterTeardown
    EveryFrameTaken
CHECK_DEADLOCK FALSE
