SPECIFICATION CatSpec
CONSTANTS
  CatStations = {s1, s2}
  NoConn = NoConn
  MaxCatEvents = 3
CHECK_DEADLOCK FALSE
PROPERTY RelayRecovers
