SPECIFICATION AudioSpec
CONSTANT MaxAudioEvents = 4
CHECK_DEADLOCK FALSE
INVARIANT ChangePickedUp
