SPECIFICATION SessionSpec
CONSTANTS
  Clicks = {c1, c2, c3}
  Radios = {A, B}
  NoJob = NoJob
  NoRadio = NoRadio
CHECK_DEADLOCK FALSE
INVARIANT TeardownLeavesNoDriver
