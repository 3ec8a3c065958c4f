\* Two sessions on two versions of one pipeline, two samples; the sample directory changes once, the server ends once.
SPECIFICATION Spec
CONSTANTS
  Books <- TwoVersions
  Pipelines = {"p"}
  Results = {"ok", "pass", "skip", "torn", "raise"}
  MaxSamples = 2
  MaxSessions = 2
  MaxChanges = 1
  MaxStops = 1
INVARIANT PointerIsProgress ArtifactsKept OneRehearsal
PROPERTY RunsLikeTheRunner
CHECK_DEADLOCK FALSE
