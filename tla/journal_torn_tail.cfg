SPECIFICATION Spec
CONSTANTS
  Events = {e1}
  NoEvent = NoEvent
  MaxSegmentBytes = 4
  MaxSegmentAge = 2
  RetentionMaxAge = 0
  RetentionMaxBytes = 0
  WriteFaults = {}
  CrashFaults = {"torn"}
  RemoveFaults = FALSE
  MaxSeq = 4
  MaxNow = 1
  MaxCrashes = 1
  MaxFaults = 2
INVARIANT
  RecoverySucceeds
