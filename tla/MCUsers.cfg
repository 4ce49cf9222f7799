SPECIFICATION Spec
CONSTANTS
  Name <- MCName
  Fold <- MCFold
  Password = {p, dash}
  Dash = dash
  HashType = {"sha512", "md5"}
  Works = {"sha512"}
  StartConf <- MCStartConf
  OwnConf <- MCOwnConf
  HasFile = TRUE
  MaxUsers = 3
  NULL = NULL
  Emptied = Emptied
  Earlier = Earlier
INVARIANTS
  ToldIsSaved
  LoginsWereTold
PROPERTIES
  NobodyIsForgotten
CONSTRAINT Bound
