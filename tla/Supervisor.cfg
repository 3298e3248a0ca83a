SPECIFICATION FairSpec
CONSTANTS
  Heirs = {"group", "escaped"}
  Builds = {TRUE, FALSE}
  MaxInterrupts = 2
  Limit = 2
  MaxTotal = 3
INVARIANTS ResultTruthful LeavesNoChild
PROPERTIES SignalsOnlyTheUnseen Ends
CHECK_DEADLOCK FALSE
