CONSTANTS
  NULL = NULL
  Absent = Absent
  Bad = Bad
  home = home
  etc = etc
  Candidates <- MCCandidates
  Names <- MCNames
  LidName = "!^eDP"
  Clashes <- MCClashes
  ScaleValues = {1, 2}
  Saved <- MCSaved
  Requests <- MCRequests
  MaxEdits = 2
  MaxRequests = 2
SPECIFICATION Spec
INVARIANTS ValidCfg FileRestores WrittenHasEvent WatchFollowsFile
PROPERTIES OwnWriteNotReloaded
