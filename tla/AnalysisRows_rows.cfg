SPECIFICATION Spec
CONSTANTS
  WorldSizes = {1, 2, 3, 4}
  BlockSizes = {1, 2, 3}
  vec_inputs <- MCVariables
  num_state_vars = 2
  all_observed <- MCObserved
  m_obs = 2
INVARIANTS
  SumsCountEachRowOnce
  EveryRowCorrectedOnce
  OneRankTouchesTheRightRows
