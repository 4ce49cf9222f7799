SPECIFICATION Spec
CONSTANTS
  Block = {1,2,3,4,5,6,7,8,9,10,11,12,13,14,15,16,17,18,19,20,21,22,23,24,25,26,27,28,29,30,31,32,33,34,35,36}
  NULL = NULL
  Key <- MCKey
  Value <- MCValue
  Star = "*"
  Quiet = ""
  Marked = {"@server"}
  Plain <- MCPlain
  Host <- MCHost
  Port <- MCPort
  Slots = 3
  World <- MCWorld
CHECK_DEADLOCK FALSE
INVARIANTS
  MergeIsUnion
  WrittenIsRead
  FirstValueWins
