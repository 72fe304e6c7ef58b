SPECIFICATION MCSpec
CONSTANTS
  N = 4
  Physical = TRUE
  GithubActor = TRUE
  Skipped = {4}
  MaxCommands = 2
  MaxFaults = 1
  MaxOutside = 1
  Prs = {1, 2, 3}
  Ranks = 2
  Leading = 2
  BatchBound = 2
  CaravanLimit = 2
  CandidateLimit = 2
  MutationLimit = 5
  MembershipCost = 3
  OddLimit = 1
  ChangeLimit = 2
  Lags = {FALSE, TRUE}
INVARIANTS
  MCFleetSound
  ConcatSound
PROPERTIES
  
  MCCandidateProceeds
CHECK_DEADLOCK FALSE
