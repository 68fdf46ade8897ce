SPECIFICATION Spec
CONSTANTS
  i1 = i1
  i2 = i2
  i3 = i3
  i4 = i4
  alice = alice
  Types = {t1}
  Inactive = {}
  Events <- MCEvents
  Subjects = {alice}
  NoSubject = NoSubject
  Refused <- MCRefused
  RetentionWindow = 1
  MaxQueueLen = 2
  MaxCursor = 4
  MaxSubscriptions = 1
  MaxNow = 3
  ClockLag = 1
INVARIANTS
  DedupExact
  QueueComplete
PROPERTY
  GapOnlyByOverflow
CHECK_DEADLOCK FALSE
