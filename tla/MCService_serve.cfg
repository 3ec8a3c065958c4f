\* One caller, as ordine serve: the event loop; every outcome of loading and starting.
SPECIFICATION Spec
CONSTANTS
  v2 = v2
  v1 = v1
  loop = loop
  Callers = {loop}
  Versions = {v1, v2}
  NoVersion = NoVersion
  MaxServices = 3
  Outcomes = {"unloadable", "problems", "unstartable", "ok"}
INVARIANTS OneWorker PausedIsStopped RunningIsServed DegradedWindsDown
SYMMETRY Symmetry
CHECK_DEADLOCK FALSE
