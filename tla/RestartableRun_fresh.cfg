SPECIFICATION Spec
CONSTANTS
  nt = 4
  m_obs = 2
  obs_index <- MCTwo
  BatchSize = 2
  restart_enabled = TRUE
  force_fresh_start = TRUE
  checkpoint_every = 1
  enforce_contiguous_history = TRUE
  k_start_override <- MCNoOverride
  MaxFailures = 2
INVARIANTS
  ResultComplete
  CheckpointTruthful
  CursorNeverBehind
PROPERTIES
  LaunchEnds
