\* MaxMinutes covers 3 hours: the count of minutes runs on into the next.
CONSTANTS
  MinutesPerHour = 4
  HoursPerDay = 4
  Jitters = {0, 40}
  Misreads = {"pair", "bit16", "bit19", "date"}
  Cuts = {20000}
  StartHours = {0, 1}
  MaxOutage = 2
  MaxMinutes = 12
  MaxFaults = 2
SPECIFICATION Spec
INVARIANT LeapSupported
CHECK_DEADLOCK FALSE
