CONSTANTS
  eDP = eDP
  HDMI = HDMI
  e1 = e1
  h1 = h1
  h2 = h2
  h3 = h3
  s1 = s1
  s2 = s2
  NULL = NULL
  Modes <- MCModes
  ModeInfo <- MCModeInfo
  Preferred <- MCPreferred
  Scales <- MCScales
  Rounded <- MCRounded
  Removable = {HDMI}
  Heads = {HDMI}
  Offer <- TwoModes
  Cfgs <- CfgsVrrOff
  MAX_CANCELLATION_RETRIES = 1
  MaxInputs = 1
  Scenario = {"refuse_mode", "unplug", "other_client", "reapply"}
SPECIFICATION FairSpec
PROPERTIES Settles IpcAnswered
CHECK_DEADLOCK FALSE
