SPECIFICATION TFairSpec
CONSTANTS
  c1 = c1
  c2 = c2
  CPU = {c1, c2}
  BSP = c1
  Width = 17
  Bit <- MCBit
  Interval = {1, 2, 50, 120, 200, 255}
  Rate = {1, 20, 120, 200}
  Jitter = {0, 2}
  Micro = 9
  PitTime = 8
  Milli = 2
  HalfCount = 128
  MaxCount = 255
CHECK_DEADLOCK FALSE
INVARIANTS QuotientCorrect ArmedByActivate IntervalAsAsked
PROPERTIES TimersRun
