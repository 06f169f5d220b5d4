SPECIFICATION ClockSpec
CONSTANT
  MaxResets = 1
PROPERTY
  SetRtcRuns
CHECK_DEADLOCK FALSE
