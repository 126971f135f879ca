SPECIFICATION EverySpec
CONSTANTS
  NRanks = 3
  Nens = 3
  BatchSize = 3
  nt = 5
  m_obs = 2
  obs_index <- MCTwo
  checkpoint_every = 1
INVARIANTS
  FailuresContained
PROPERTIES
  RoundsAreCycles
\* A rank that failed leaves the others waiting for ever.
CHECK_DEADLOCK FALSE
