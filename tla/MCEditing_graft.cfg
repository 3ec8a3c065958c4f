\* A suggested branch is grafted on a step that uses the policy of the playbook.
SPECIFICATION Spec
CONSTANTS
  Names = {"p", "q"}
  Tabs = {t1}
  Starter <- TheStarter
  First <- TheFirst
  Texts <- TheTexts
  Advice <- TheAdvice
  Typed <- TheTyped
  Steps <- TheSteps
  Stripped <- TheStripped
  MaxVersions = 3
  MaxInputs = 1
  MaxStops = 0
INVARIANT CurrentLoads
CHECK_DEADLOCK FALSE
