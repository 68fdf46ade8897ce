SPECIFICATION Spec
CONSTANTS
  Events = {e1}
  NoEvent = NoEvent
  MaxSegmentBytes = 4
  MaxSegmentAge = 2
  RetentionMaxAge = 1
  RetentionMaxBytes = 7
  WriteFaults = {}
  CrashFaults = {}
  RemoveFaults = TRUE
  MaxSeq = 5
  MaxNow = 3
  MaxCrashes = 0
  MaxFaults = 2
INVARIANTS
  ReplayReadsLog
PROPERTY
  ImplementsEventLog
  OnlyExpiredReclaimed
