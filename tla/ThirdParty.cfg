\* The lossy seconds have both bits of type and a bit of data.
CONSTANTS
  Lossy = {1, 8, 14}
  MaxFaults = 1
SPECIFICATION Spec
INVARIANTS TypeOK ShownRight
PROPERTY ShownInTime
CHECK_DEADLOCK FALSE
