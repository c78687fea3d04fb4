SPECIFICATION FairSpec
CONSTANTS
  Items = 3
  MaxCampaigns = 2
  MaxJobs = 3
  MaxRequeues = 1
  Orderly = TRUE
  SqueueFails = TRUE
INVARIANTS TypeOK OneAtATime ArchivedIsOver
PROPERTY EveryJobEnds
CHECK_DEADLOCK FALSE
