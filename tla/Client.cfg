\* Three logs: one of the configuration, a change and a change back.
CONSTANTS
  MaxLogs = 3
  Names = {a, b}
  NoLog = NoLog
  Same = Same
SPECIFICATION FairSpec
INVARIANTS TypeOK PromptState Handles HardwareHeld LogFollowsName
PROPERTY FlushedEventually
CHECK_DEADLOCK FALSE
