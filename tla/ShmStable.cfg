\* One restart, and two updates in each run of the daemon.
CONSTANTS
  Fields = {"clock", "leap"}
  MaxUpdates = 2
  MaxStarts = 2
SPECIFICATION Spec
INVARIANT StableCountWhole
CHECK_DEADLOCK FALSE
