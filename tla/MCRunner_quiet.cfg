\* Two one-shot commands drain one queue; nobody interferes.
CONSTANTS
  TaskIds = {1, 2}
  Keys = {}
  NoKey = NoKey
  Ordinals = {}
  Names = {}
  NoName = NoName
  Clients = {tr, w1, w2}
  Levels = {0, 1, 2, 3}
  StaleAfter = 0
  MaxTime = 0
  MaxClaims = 2
  Workers = {w1, w2}
  Users = {}
  UserTargets = {}
  Trigger = tr
  Playbook <- TwoSteps
  BranchNames = {"headless", "fallback"}
  NoPolicy = NoPolicy
  NoBranch = NoBranch
  NoStep = NoStep
  Oneshot = TRUE
  ReconcilePolicy = "retry"
  MaxCrashes = 0
SPECIFICATION FairSpec
INVARIANT RunsAlone LevelIsRung
PROPERTY EveryTaskSettles
CHECK_DEADLOCK FALSE
