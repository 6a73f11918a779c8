\* MaxStarts 2: one restart, MaxUpdates 2: counts recur after the restart.
CONSTANTS
  Fields = {"clock", "leap"}
  MaxUpdates = 2
  MaxStarts = 2
SPECIFICATION Spec
INVARIANTS TypeOK EvenCountWhole
PROPERTIES SamplesInOrder
CHECK_DEADLOCK FALSE
