SPECIFICATION Spec
CONSTANTS
  Requests <- MCRequests
INVARIANTS CrashStaysContained PassMeansRunnable CleanMeansResolved WorkspaceIsItsParts
PROPERTY ChecksSeeTheWholeSet
