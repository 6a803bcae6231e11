SPECIFICATION Spec
CONSTANTS
  NoUser = NoUser
  Users = {u1, u2}
  Conns = {c1, c2, c3}
  PttUsers = {u1, u2}
  CwUsers = {u1}
  CwLine = "ptt"
  HasTail = FALSE
  AmpLinked = FALSE
  SharedLogin = FALSE
  Resets = FALSE
  MaxTails = 2
CHECK_DEADLOCK FALSE
PROPERTY NobodyKeysOverAnother
