SPECIFICATION Spec
CONSTANTS
  Key <- MCKey
  LEDsOn <- MCLEDsOn
  MaxLine = 1
CHECK_DEADLOCK FALSE
INVARIANTS OneEpiloguePerByte NoModifierStuck LEDsMatch
