SPECIFICATION FairSpec
CONSTANTS
  c1 = c1
  c2 = c2
  Calls = {c1, c2}
  Scenarios <- MCScenarios
  Workflows <- MCWorkflows
  TypeRank <- MCTypeRank
  NoKey = NoKey
  NoOutcome = NoOutcome
  NoRequest = NoRequest
INVARIANTS
  StateMachineSound
  OnlyVerifiedRuns
  NoLeakedSubscription
  ReportsItsEvents
  WokenOnce
  TraversedWasWoken
PROPERTY
  EveryCallCloses
