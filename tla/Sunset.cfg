SPECIFICATION SunsetSpec
CONSTANTS
  lamp = lamp
  shelf = shelf
  Lights = {lamp, shelf}
  First <- Firsts
  Last <- Lasts
  Total <- Totals
  DayLength = 8
  SunsetTime <- SunsetTimes
  DuskTime <- DuskTimes
  MaxLate = 2
  MaxDays = 3
  MaxLife = 1
CHECK_DEADLOCK FALSE
INVARIANT SunsetTypeOK
INVARIANT OncePerEvening
INVARIANT EveryEvening
INVARIANT RampInTime
