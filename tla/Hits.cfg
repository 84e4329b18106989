SPECIFICATION HitsSpec
CONSTANTS
  Builds = {"S6", "DIBAS", "FAST"}
  MaxHitsKeys = {1, 2}
  MAXHITS = 2
  POWER_THRESH = 1
  SMOOTH_SCALE = 1
  N_FINE_CHAN = 5
  N_COARSE_CHAN_PER_BORS = 2
  Bors = 2
  Noise = 1
  Line = 9
  MaxLines = 2
INVARIANTS RowsAreDetections NothingLostBelowLimit CcPowersArePerPol
