SPECIFICATION Spec
CONSTANTS
  nt = 6
  m_obs = 3
  obs_index <- MCThree
  BatchSize = 2
  restart_enabled = TRUE
  force_fresh_start = FALSE
  checkpoint_every = 1
  enforce_contiguous_history = FALSE
  k_start_override <- MCNoOverride
  MaxFailures = 2
INVARIANTS
  CursorNeverAhead
