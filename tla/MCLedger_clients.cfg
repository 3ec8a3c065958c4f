\* Two clients admit, claim, move and recover tasks and bind names between each other's steps.
CONSTANTS
  TaskIds = {1, 2}
  Keys = {k1}
  NoKey = NoKey
  Ordinals = {1, 2}
  Names = {n1, n2}
  NoName = NoName
  Clients = {c1, c2}
  Levels = {}
  StaleAfter = 0
  MaxTime = 1
  MaxClaims = 1
  MaxEvents = 3
SPECIFICATION Spec
SYMMETRY Symmetry
CONSTRAINT FewEvents
INVARIANT TypeOK AdmittedOnce ArrivalOrder GivenUpIsFlagged
PROPERTY FirstNameWins QueueSpec
CHECK_DEADLOCK FALSE
