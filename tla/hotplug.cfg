CONSTANTS
  eDP = eDP
  HDMI = HDMI
  e1 = e1
  h1 = h1
  h2 = h2
  h3 = h3
  s1 = s1
  s2 = s2
  NULL = NULL
  Modes <- MCModes
  ModeInfo <- MCModeInfo
  Preferred <- MCPreferred
  Scales <- MCScales
  Rounded <- MCRounded
  Removable = {HDMI}
  Heads = {eDP, HDMI}
  Offer <- TwoModes
  Cfgs <- CfgsLid
  MAX_CANCELLATION_RETRIES = 1
  MaxInputs = 1
  Scenario = {"unplug", "lid", "mode_finished"}
SPECIFICATION Spec
INVARIANTS TypeOK OneConfiguration ScreensAsDesired LonePanelLit
PROPERTIES AppliedExists
CHECK_DEADLOCK FALSE
