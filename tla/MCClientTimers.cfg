CONSTANTS
  View = {v1, v2, v3}
  Countdown = {v3}
  Units <- ShortUnits
  Time = {0, 4, 8}
  MaxTime = 13
  MaxGap = 2
SPECIFICATION TimerSpec
CHECK_DEADLOCK FALSE
INVARIANTS
  TimerTypeOK
  OneTickEach
  ShownInTime
