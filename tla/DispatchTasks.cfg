CONSTANTS
  a = a b = b c = c
  Tasks = {a, b, c}
  Root = root
  ParentOf <- Launcher
  MaxTries = 2
  Limits <- TaskLimits
SPECIFICATION Spec
INVARIANTS InflightTrue ToldOnce
PROPERTIES ParentWaits ListenersHear
CHECK_DEADLOCK FALSE
