SPECIFICATION Spec
CONSTANTS
  Events = {e1, e2}
  NoEvent = NoEvent
  MaxSegmentBytes = 4
  MaxSegmentAge = 1
  RetentionMaxAge = 0
  RetentionMaxBytes = 0
  WriteFaults = {"nothing"}
  CrashFaults = {"nothing", "unsynced"}
  RemoveFaults = FALSE
  MaxSeq = 5
  MaxNow = 1
  MaxCrashes = 2
  MaxFaults = 1
INVARIANTS
  ReplayReadsLog
  RecoverySucceeds
PROPERTY
  ImplementsEventLog
