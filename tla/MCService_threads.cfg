\* Two threads call the manager; no start raises.
SPECIFICATION FairSpec
CONSTANTS
  v1 = v1
  c2 = c2
  c1 = c1
  Callers = {c1, c2}
  Versions = {v1}
  NoVersion = NoVersion
  MaxServices = 2
  Outcomes = {"unloadable", "problems", "ok"}
INVARIANTS CleanStopDrained
PROPERTIES PendingSettles
CHECK_DEADLOCK FALSE
