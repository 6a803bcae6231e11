SPECIFICATION ChannelsSpec
CONSTANTS
  Stations = {s1, s2}
  Methods = {"line", "civ"}
  Tails = {TRUE, FALSE}
  MaxQueue = 2
  MaxTimers = 2
  CatStations = {s1, s2}
  NoConn = NoConn
  MaxCatEvents = 3
  MaxPlugEvents = 4
  PortCount = 3
  MaxCommands = 3
  MaxTurns = 2
  MaxAudioEvents = 4
  Controls = {"freq", "agc"}
  MaxValue = 1
  MaxCode = 2
  Unread = Unread
  Typed = Typed
  MaxInFlight = 2
  MaxPanelEvents = 3
  MaxPanelChanges = 3
  Statuses = {1, 2}
  Errors = {0, 2, 3}
  MaxUpsets = 2
CHECK_DEADLOCK FALSE
INVARIANTS
  ChannelsTypeOK
  NotLeftKeyed FollowedWithoutTail
  CatInOrder
  ShownIsSelected
  LinksAgree
  NothingInvented
PROPERTIES
  ReleaseUnderWayUnkeys EveryStationFed PlugFollowsRadio LinkHeals
  PanelSettles RowSettles FaultSettles
