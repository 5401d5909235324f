\* the shell and room for two more processes
CONSTANTS
  Shell = shell
  Pids = {c1, c2}
  NoPid = none
  Tokens <- SomeTokens
  Programs <- Found
  Directories <- Paths
  Home = home
  BUFFER = 5
  Scripts <- SomeScripts
  ForkMayFail = FALSE
SPECIFICATION Spec
INVARIANTS
  OnlyQuitEnds
CHECK_DEADLOCK FALSE
