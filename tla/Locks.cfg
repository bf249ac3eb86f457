SPECIFICATION LFairSpec
CONSTANTS
  c1 = c1
  c2 = c2
  c3 = c3
  CPU = {c1, c2, c3}
  Width = 4
INVARIANTS Mutex
PROPERTIES ImplementsFifoLock ImplementsGateFlag SomeCallReturns TicketServed
