SPECIFICATION LifecyclesSpec
CONSTANTS
  Requests = {1, 2, 3}
  Boot = Boot
  PortSets = {P, Q}
  None = None
  Method = "line"
  DevRequests = {d1, d2}
  DevBoot = DevBoot
  NoBridge = NoBridge
  Clicks = {c1, c2, c3}
  Radios = {A, B}
  NoJob = NoJob
  NoRadio = NoRadio
  Refreshes = {o1, o2}
  Names = {A, B}
  Absent = Absent
  Logins = {u1, u2}
  Browsers = {b1, b2}
  NoName = NoName
  MaxAsked = 5
  MaxText = 3
  MaxStrokes = 3
  Starts = {n1, n2}
  ComPorts = {p1, p2}
  NoOne = NoOne
  MaxLines = 2
  RadioNames = {A, B}
  Channels = {"control", "audio"}
  Slots = 2
  Forms = {f1, f2}
  Operators = {u1, u2}
  NoOperator = NoOperator
  MaxArmed = 2
  MaxViewers = 3
  Nobody = Nobody
CHECK_DEADLOCK FALSE
INVARIANTS
  LifecyclesTypeOK
  PortsAccounted ServedInTurns OnAirIsHeld
  BridgesAreKnown NoneLeftBehind
  SessionInOrder
  ListInOrder
  AccountsInOrder
  SnifferInOrder
  PlanInOrder
  QuietIsOff HolderIsServed
  ViewsAgree
PROPERTY CwInOrder
