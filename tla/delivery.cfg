SPECIFICATION DSpec
CONSTANTS
  alice = alice
  bob = bob
  Types = {t1}
  Inactive = {t2}
  Events <- MCEvents
  Subjects = {alice, bob}
  NoSubject = NoSubject
  Refused = {}
  RetentionWindow = 1
  MaxQueueLen = 4
  MaxCursor = 4
  MaxSubscriptions = 2
  MaxNow = 2
  ClockLag = 0
  ClientType = t1
  ClientSubject = alice
  MaxInFlight = 1
  MaxRestarts = 1
  MaxReclaims = 1
CHECK_DEADLOCK FALSE
INVARIANTS
  
  
  NoSilentEmptyStream
