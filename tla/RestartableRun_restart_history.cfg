SPECIFICATION Spec
CONSTANTS
  nt = 4
  m_obs = 2
  obs_index <- MCTwo
  BatchSize = 2
  restart_enabled = TRUE
  force_fresh_start = FALSE
  checkpoint_every = 1
  enforce_contiguous_history = TRUE
  k_start_override <- MCNoOverride
  MaxFailures = 1
INVARIANTS
  RestartsOnCheckpointedHistory
