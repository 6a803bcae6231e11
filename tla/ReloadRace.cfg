SPECIFICATION Spec
CONSTANTS
  Requests = {r1, r2}
  Boot = Boot
  PortSets = {P, Q}
  None = None
  Method = "line"
CHECK_DEADLOCK FALSE
INVARIANT RegisteredIsServed
