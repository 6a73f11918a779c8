\* All years of the cycle of 400, at the ends of the months.
CONSTANTS
  FirstYear = 1900
  LastYear = 2299
  StartDays = {1, 28, 29, 30, 31}
  StartHours = {0, 1, 22, 23}
  MaxMinutes = 1
SPECIFICATION Spec
INVARIANTS TypeOK UtcGoesOn MinuteReversible DateRecovered IsoReversible
CHECK_DEADLOCK FALSE
