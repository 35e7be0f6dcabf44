CONSTANTS
  o1 = o1
  o2 = o2
  NULL = NULL
  Outputs = {o1, o2}
  CapLists = {"startup", "operation"}
  StartCfgs <- MCStartCfgs
  CliThresholds = {0, 3}
  Greetings <- MCGreetings
  MaxLines = 1
  MaxEvents = 3
SPECIFICATION Spec
INVARIANTS StartupLogged LidTracked Released
CHECK_DEADLOCK FALSE
