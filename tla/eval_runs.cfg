SPECIFICATION Spec
CONSTANTS
  Scenarios <- MCScenarios
  Refusals = {"refusal"}
  Networked = {"refusal"}
  BadPatch = {"refusal"}
  NoPlugin = {"build"}
  Runs <- TwiceThenOnce
  TornWrites = TRUE
  MaxKills = 1
  MaxRaises = 1
INVARIANTS BrokenRunsAreRecorded KillCostsTheNextAtMost PassIsEarned GateAgreesWithLog NoSilentLitter
CHECK_DEADLOCK FALSE
