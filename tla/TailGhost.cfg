SPECIFICATION Spec
CONSTANTS
  NoUser = NoUser
  Users = {u1, u2}
  Conns = {c1, c2, c3}
  PttUsers = {u1, u2}
  CwUsers = {}
  CwLine = "ptt"
  HasTail = TRUE
  AmpLinked = FALSE
  SharedLogin = FALSE
  Resets = FALSE
  MaxTails = 2
CHECK_DEADLOCK FALSE
INVARIANT HolderKeyed
