SPECIFICATION FairSpec
CONSTANTS
  Host <- MCHost
  ProposalLimits <- MCProposalLimits
  ScheduleLimits <- MCScheduleLimits
  Calls = {"c1", "c2", "c3"}
  Requests <- MCRequests
  Tokens <- MCTokens
  NoToken = NoToken
  Limit <- MCLimit
  MaxConcurrentNodes = 2
INVARIANTS
  QuotaExact
  ApprovedEffects
  JoinsReadCompleted
  EffectsAlone
  TraceDeterministic
  ScheduleSound
PROPERTY
  SlotsReturned
CHECK_DEADLOCK FALSE
