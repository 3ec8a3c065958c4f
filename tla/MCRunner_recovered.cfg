\* A restart within the stale timeout.
CONSTANTS
  TaskIds = {1}
  Keys = {}
  NoKey = NoKey
  Ordinals = {}
  Names = {}
  NoName = NoName
  Clients = {tr, w1}
  Levels = {0, 1, 2, 3}
  StaleAfter = 0
  MaxTime = 2
  MaxClaims = 2
  Workers = {w1}
  Users = {}
  UserTargets = {}
  Trigger = tr
  Playbook <- OneStep
  BranchNames = {"fallback"}
  NoPolicy = NoPolicy
  NoBranch = NoBranch
  NoStep = NoStep
  Oneshot = FALSE
  ReconcilePolicy = "retry"
  MaxCrashes = 1
SPECIFICATION FairSpec
PROPERTY CrashIsRecovered
CHECK_DEADLOCK FALSE
