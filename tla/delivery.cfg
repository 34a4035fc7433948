SPECIFICATION Spec
CONSTANTS
  Views = {v1}
  Scripts <- ThreeScripts
  Answers <- EveryAnswer
  MaxVisits = 2
  OneAtATime = TRUE
  Copies = 2
  StatScripts = {"initstat"}
  WhiteLists = {FALSE}
  MaxClicks = 1
INVARIANTS TypeOK CountsAreTrue ClickPerVisit CountedOnce PvBelongsToShow
PROPERTIES VisitCounted HiddenFrameGoes 
CHECK_DEADLOCK FALSE
