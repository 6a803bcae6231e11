SPECIFICATION Spec
CONSTANTS
  NoUser = NoUser
  Users = {u1, u2}
  Conns = {c1, c2}
  PttUsers = {u1}
  CwUsers = {u2}
  CwLine = "cw"
  HasTail = FALSE
  AmpLinked = FALSE
  SharedLogin = TRUE
  Resets = FALSE
  MaxTails = 2
CHECK_DEADLOCK FALSE
INVARIANT KeyedOnlyWhileHeld
