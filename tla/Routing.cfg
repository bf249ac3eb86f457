SPECIFICATION RFairSpec
CONSTANTS
  Machine <- MCMachine
  CPU_MAX = 2
  Lines = 4
  Slots = 6
CHECK_DEADLOCK FALSE
INVARIANTS ProcessorsAsDescribed SlotsAsWired
PROPERTIES KeysAreRead
