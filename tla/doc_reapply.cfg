CONSTANTS
  eDP = eDP
  HDMI = HDMI
  e1 = e1
  h1 = h1
  h2 = h2
  h3 = h3
  s1 = s1
  s2 = s2
  NULL = NULL
  Modes <- MCModes
  ModeInfo <- MCModeInfo
  Preferred <- MCPreferred
  Scales <- MCScales
  Rounded <- MCRounded
  Removable = {HDMI}
  Heads = {HDMI}
  Offer <- TwoModes
  Cfgs <- CfgsBase
  MAX_CANCELLATION_RETRIES = 2
  MaxInputs = 1
  Scenario = {"reapply"}
SPECIFICATION FairSpec
PROPERTIES ReapplyDisables
CHECK_DEADLOCK FALSE
