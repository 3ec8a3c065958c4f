\* A user retries and cancels the task under way; the process crashes twice.
CONSTANTS
  TaskIds = {1}
  Keys = {}
  NoKey = NoKey
  Ordinals = {}
  Names = {}
  NoName = NoName
  Clients = {tr, w1, u1}
  Levels = {0, 1, 2, 3}
  StaleAfter = 0
  MaxTime = 1
  MaxClaims = 2
  Workers = {w1}
  Users = {u1}
  UserTargets = {"pending", "skipped"}
  Trigger = tr
  Playbook <- RetryAndSkip
  BranchNames = {"headless"}
  NoPolicy = NoPolicy
  NoBranch = NoBranch
  NoStep = NoStep
  Oneshot = FALSE
  ReconcilePolicy = "retry"
  MaxCrashes = 2
SPECIFICATION FairSpec
INVARIANT FlaggedClimbedLadder DoneIsEarned BranchAfterExhaustion
PROPERTY WorkerComesBack
CHECK_DEADLOCK FALSE
