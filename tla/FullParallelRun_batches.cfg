SPECIFICATION Spec
CONSTANTS
  NRanks = 3
  Nens = 3
  BatchSize = 2
  nt = 4
  m_obs = 2
  obs_index <- MCTwo
  checkpoint_every = 1
INVARIANTS
  ForecastsFromCompleteState
  HistoryIntact
  CheckpointedStepComplete
  ResultComplete
  CollectivesAligned
  MeanInCurrentBatch
PROPERTIES
  Finishes
  ImplementsCycle
