SPECIFICATION Spec
CONSTANTS
  Views = {v1, v2, v3}
  StatScripts = {"vldsp", "initstat"}
  WhiteLists = {FALSE, TRUE}
  OneAtATime = TRUE
  MaxClicks = 1
INVARIANTS OnePerMinute OnlyGrantedCount
PROPERTY FrequencyKeyGoes
CHECK_DEADLOCK FALSE
