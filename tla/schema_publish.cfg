SPECIFICATION FairSpec
CONSTANTS
    Directories = {1, 2, 3}
    Hand = 2
    MaxVersion = 2
    MaxPushes = 3
    MaxFailures = 2
    MaxReruns = 1
    None = None
INVARIANT NoDanglingPointer
INVARIANT StampMeansCurrentAsPrescribed
PROPERTY PinnedImmutable
PROPERTY PointersNeverGoBack
PROPERTY PublishCatchesUp
CHECK_DEADLOCK FALSE
