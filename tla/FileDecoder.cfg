\* A period is a normal second (2) or the end of a minute (4).
CONSTANTS
  BUFLEN = 3
  AccMod = 6
  Second = 2
  Spans = {2, 4}
  LogBits = {"0", "1", "_"}
SPECIFICATION FairSpec
INVARIANTS TypeOK
PROPERTIES FramingSpec EndOfFile
CHECK_DEADLOCK FALSE
