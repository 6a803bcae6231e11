SPECIFICATION Spec
CONSTANTS
  NoUser = NoUser
  Users = {u1, u2, k}
  Conns = {c1, c2, c3}
  PttUsers = {u1, u2}
  CwUsers = {k}
  CwLine = "ptt"
  HasTail = TRUE
  AmpLinked = FALSE
  SharedLogin = FALSE
  Resets = TRUE
  MaxTails = 2
CHECK_DEADLOCK FALSE
SYMMETRY ConnSymmetry
INVARIANTS TailHoldsChannel HandleNamesEveryTail OpenRowsAreOnAir KeyedOnlyWhileHeld
