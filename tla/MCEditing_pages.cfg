\* One browser tab, two pipelines, three versions, one form of the user and one stop of the worker.
SPECIFICATION Spec
CONSTANTS
  Names = {"p", "q"}
  Tabs = {t1}
  Starter <- TheStarter
  First <- TheFirst
  Texts <- TheTexts
  Advice <- TheAdvice
  Typed <- TheTyped
  Steps <- TheSteps
  Stripped <- TheStripped
  MaxVersions = 3
  MaxInputs = 1
  MaxStops = 1
INVARIANT TreeShowsAll
PROPERTY NoLostUpdate RoundTrip FormKeepsBook SummaryTellsAll NothingHidden
CHECK_DEADLOCK FALSE
