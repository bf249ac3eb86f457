SPECIFICATION FairSpec
CONSTANTS
  c1 = c1
  c2 = c2
  t1 = t1
  timer = timer
  panic = panic
  NoGate = NoGate
  CPU = {c1, c2}
  Context = {c1, c2, t1}
  Gate = {timer, panic}
  NeedsEpilogue = {timer}
  Priority <- MCPriority
  MaxNest = 2
INVARIANTS EpilogueLevelExclusive NoStrandedEpilogue FlagMatchesLevel GateQueuedOnce EOIMatches
PROPERTIES EpilogueServed KernelEntered
CHECK_DEADLOCK FALSE
