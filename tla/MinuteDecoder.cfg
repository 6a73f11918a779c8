\* Hours of 4 minutes, so that 3 good minutes (Resynchronised) fit one.
\* MaxMinutes covers 2 hours from any minute, MaxFaults any 2 faults,
\* MaxOutage two full hours in one outage.
CONSTANTS
  MinutesPerHour = 4
  HoursPerDay = 4
  Jitters = {40}
  Misreads = {"pair", "bit16", "bit19", "minute", "impossible",
              "old_minute", "old_hour"}
  Cuts = {20000}
  StartHours = {0, 1}
  MaxOutage = 4
  MaxMinutes = 11
  MaxFaults = 2
SPECIFICATION Spec
INVARIANTS TypeOK OnTime SettableRight Resynchronised GoodHourSettable
CHECK_DEADLOCK FALSE
