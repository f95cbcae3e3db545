SPECIFICATION Spec
CONSTANTS
    Resources = {"connector"}
    Contents = {c1, c2, c3}
    Packages = {k1, k2}
    Versions <- MCFewVersions
    p1 = p1
    p2 = p2
    Prs = {p1, p2}
    None = None
    MaxOpened = 2
    MaxRunning = 2
    MaxFailures = 1
SYMMETRY Symmetry
INVARIANT EveryReleaseWhole
PROPERTY PinnedForever
PROPERTY OverrideHonoured
CHECK_DEADLOCK FALSE
