SPECIFICATION FairSpec
CONSTANTS
  Count = 3
  BarrierSize = 3
INVARIANTS OwnStackAndNumber OnlineAreUp BarrierHolds
PROPERTIES AllSchedule
CHECK_DEADLOCK FALSE
