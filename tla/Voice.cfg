SPECIFICATION Spec
CONSTANTS
  NoUser = NoUser
  Users = {u1, u2}
  Conns = {c1, c2, c3}
  PttUsers = {u1, u2}
  CwUsers = {}
  CwLine = "ptt"
  HasTail = FALSE
  AmpLinked = TRUE
  SharedLogin = TRUE
  Resets = TRUE
  MaxTails = 1
CHECK_DEADLOCK FALSE
SYMMETRY ConnSymmetry
INVARIANTS TypeOK HolderKeyed HolderConnected
PROPERTY LockSpec
