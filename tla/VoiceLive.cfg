SPECIFICATION FairSpec
CONSTANTS
  NoUser = NoUser
  Users = {u1, u2}
  Conns = {c1, c2}
  PttUsers = {u1, u2}
  CwUsers = {}
  CwLine = "ptt"
  HasTail = TRUE
  AmpLinked = FALSE
  SharedLogin = TRUE
  Resets = TRUE
  MaxTails = 2
CHECK_DEADLOCK FALSE
PROPERTIES VanishedHolderUnkeyed ButtonUpFreesRadio
