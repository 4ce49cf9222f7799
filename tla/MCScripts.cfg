SPECIFICATION BotLife
CONSTANTS
  Label = {"A", "B"}
  Conf <- MCConf
  MaxRehash = 2
  MaxSess = 1
  MaxArgs = 6
  NULL = NULL
  Undefined = Undefined
  Junk = Junk
  None = None
INVARIANTS
  CallsDoWhatTheySay
  CallsReachTheirNetwork
  EveryScriptIsHeard
CHECK_DEADLOCK FALSE
