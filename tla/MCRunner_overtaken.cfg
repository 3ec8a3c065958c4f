\* A user cancels the task that the worker is about to end.
CONSTANTS
  TaskIds = {1}
  Keys = {}
  NoKey = NoKey
  Ordinals = {}
  Names = {}
  NoName = NoName
  Clients = {tr, w1, u1}
  Levels = {0, 1, 2, 3}
  StaleAfter = 0
  MaxTime = 0
  MaxClaims = 1
  Workers = {w1}
  Users = {u1}
  UserTargets = {"skipped"}
  Trigger = tr
  Playbook <- OneStep
  BranchNames = {"fallback"}
  NoPolicy = NoPolicy
  NoBranch = NoBranch
  NoStep = NoStep
  Oneshot = FALSE
  ReconcilePolicy = "retry"
  MaxCrashes = 0
SPECIFICATION FairSpec
PROPERTY LifecycleSpec
CHECK_DEADLOCK FALSE
