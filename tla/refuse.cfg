CONSTANTS
  eDP = eDP
  HDMI = HDMI
  e1 = e1
  h1 = h1
  h2 = h2
  h3 = h3
  s1 = s1
  s2 = s2
  NULL = NULL
  Modes <- MCModes
  ModeInfo <- MCModeInfo
  Preferred <- MCPreferred
  Scales <- MCScales
  Rounded <- MCRounded
  Removable = {HDMI}
  Heads = {HDMI}
  Offer <- ThreeModes
  Cfgs <- CfgsBase
  MAX_CANCELLATION_RETRIES = 2
  MaxInputs = 2
  Scenario = {"refuse_mode", "refuse_vrr", "refuse_other", "vrr_ignored", "silent_mode", "plug_disabled", "reapply", "signal", "client_gone"}
SPECIFICATION Spec
INVARIANTS ChangeIsEnabled DeltaMatchesConfig
PROPERTIES IsExchange
CHECK_DEADLOCK FALSE
