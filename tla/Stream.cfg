SPECIFICATION Spec
CONSTANTS
  from_col = 1
  to_col = 5
  from_row = 1
  to_row = 2
  Columns = 7
  Rows = 4
  BufferSize = 3
  Indent = 2
  Bits = 4
  Power <- MCPower
  Char = {"a"}
  Number <- MCNumber
  Old <- MCOld
  Start <- MCStart
  MaxItems = 3
  MaxInterrupts = 2
CHECK_DEADLOCK FALSE
INVARIANTS InBounds
PROPERTIES OutsideUntouched ImplementsTerminal
