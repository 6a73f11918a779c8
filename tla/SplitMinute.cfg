\* A marker found 20 s into a minute, and rounding that loses 40 ms.
CONSTANTS
  MinutesPerHour = 3
  HoursPerDay = 4
  Jitters = {0, 40}
  Misreads = {"pair", "bit16", "bit19", "date"}
  Cuts = {20000}
  StartHours = {0, 1}
  MaxOutage = 2
  MaxMinutes = 10
  MaxFaults = 2
SPECIFICATION Spec
INVARIANT SplitCombined
CHECK_DEADLOCK FALSE
