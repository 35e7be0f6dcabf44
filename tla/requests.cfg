CONSTANTS
  eDP = eDP
  HDMI = HDMI
  e1 = e1
  h1 = h1
  h2 = h2
  h3 = h3
  s1 = s1
  s2 = s2
  NULL = NULL
  Modes <- MCModes
  ModeInfo <- MCModeInfo
  Preferred <- MCPreferred
  Scales <- MCScales
  Rounded <- MCRounded
  Removable = {HDMI}
  Heads = {HDMI}
  Offer <- TwoModes
  Cfgs <- CfgsUser
  MAX_CANCELLATION_RETRIES = 1
  MaxInputs = 2
  Scenario = {"ipc_disabled", "lid", "reload", "ipc_cfg"}
SPECIFICATION Spec
INVARIANTS ScreensAsDesired
PROPERTIES IpcDoneWhenApplied
CHECK_DEADLOCK FALSE
