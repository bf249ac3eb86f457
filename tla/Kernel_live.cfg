SPECIFICATION KFairSpec
CONSTANTS
  c1 = c1
  c2 = c2
  t1 = t1
  t2 = t2
  t3 = t3
  watch = watch
  keyboard = keyboard
  assassin = assassin
  panic = panic
  NoGate = NoGate
  NoThread = NoThread
  CPU = {c1, c2}
  BSP = c1
  Thread = {t1, t2, t3}
  Context = {c1, c2, t1, t2, t3}
  Order <- MCOrder
  Calls <- CallsTimer
  Gate = {watch}
  NeedsEpilogue = {watch}
  Priority <- MCPriority
  MaxNest = 1
CHECK_DEADLOCK FALSE
PROPERTIES KilledStops EveryThreadRuns
