CONSTANTS
  wide60 = wide60
  wide75 = wide75
  tall60 = tall60
  small90 = small90
  eDP = eDP
  DP = DP
  HDMI = HDMI
  NULL = NULL
  Modes <- MCModes
  ModeInfo <- MCModeInfo
  Announced <- MCAnnounced
  Heads <- MCHeads
  Screens <- MCScreens
  LayoutCfgs <- MCLayoutCfgs
  MaxRounds = 2
  INF_TO_INT32 <- MCInfinite
SPECIFICATION MCSpec
INVARIANTS MaxOfSeen Tiled OrderAsListed AutoScaleInRange
CHECK_DEADLOCK FALSE
