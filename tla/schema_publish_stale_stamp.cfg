SPECIFICATION Spec
CONSTANTS
    Directories = {1, 2, 3}
    Hand = 2
    MaxVersion = 2
    MaxPushes = 2
    MaxFailures = 2
    MaxReruns = 1
    None = None
INVARIANT StampMeansCurrent
CHECK_DEADLOCK FALSE
