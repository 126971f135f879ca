SPECIFICATION Spec
CONSTANTS
  Ranks <- MCRanks
  Node <- MCNode
  Commands = 2
  MaxTimeouts = 1
INVARIANTS
  RunsAtMostOnce
  RunsOnlySentCommands
  LaunchedServerIsUp
  ForecastOfThisStep
  NoServerLeft
PROPERTIES
  EndsUnlessKilled
\* A rank whose MATLAB was killed by another rank's launch waits for ever.
CHECK_DEADLOCK FALSE
