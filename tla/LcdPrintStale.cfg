SPECIFICATION Spec
CONSTANTS
  Message <- MCMessage
  Behind <- MCBehind
  ClockRange = 2000
  StartTime <- MCStartTime
  Elapse <- MCElapse
  MaxTime = 1250
  MaxPrints = 2
INVARIANT
  BottomRowIsNumbers
