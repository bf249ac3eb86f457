SPECIFICATION Spec
CONSTANTS
  c1 = c1
  c2 = c2
  t1 = t1
  timer = timer
  panic = panic
  NoGate = NoGate
  CPU = {c1, c2}
  Context = {c1, c2, t1}
  Gate = {timer}
  NeedsEpilogue = {timer}
  Priority <- MCPriority
  MaxNest = 1
INVARIANTS DeferredOnThisCPU
CHECK_DEADLOCK FALSE
