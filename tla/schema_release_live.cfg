SPECIFICATION FairSpec
CONSTANTS
    Resources = {"connector"}
    Contents = {c1, c2}
    Packages = {k1}
    Versions <- MCFewVersions
    p1 = p1
    p2 = p2
    Prs = {p1, p2}
    None = None
    MaxOpened = 2
    MaxRunning = 2
    MaxFailures = 1
PROPERTY ReleasesCatchUp
CHECK_DEADLOCK FALSE
