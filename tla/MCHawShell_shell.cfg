\* the shell and room for two more processes
CONSTANTS
  Shell = shell
  Pids = {c1, c2}
  NoPid = none
  Tokens <- SomeTokens
  Programs <- Found
  Directories <- Paths
  Home = home
  BUFFER = 5
  Scripts <- SomeScripts
  ForkMayFail = TRUE
SPECIFICATION FairSpec
INVARIANTS
  TypeOK
  OneReader
  ForegroundWaited
  LinesInOrder
  CwdIsLastCd
PROPERTIES
  CommandsGoOn
CHECK_DEADLOCK FALSE
