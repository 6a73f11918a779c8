\* No bit is misread and no marker is false: the one fault is a missed marker,
\* or one bit too few or too many.
CONSTANTS
  MinutesPerHour = 4
  HoursPerDay = 4
  Jitters = {0}
  Misreads = {}
  Cuts = {}
  StartHours = {0, 1}
  MaxOutage = 1
  MaxMinutes = 9
  MaxFaults = 1
SPECIFICATION Spec
INVARIANT AnnouncementCleared
CHECK_DEADLOCK FALSE
