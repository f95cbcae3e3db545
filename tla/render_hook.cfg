SPECIFICATION Spec
CONSTANTS
  Versions = {0, 1}
  MaxEdits = 2
  MaxCommits = 2
INVARIANTS WriteSettles
PROPERTY HookKeepsFresh
CHECK_DEADLOCK FALSE
