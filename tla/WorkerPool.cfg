SPECIFICATION BuildFairSpec
CONSTANTS
  Threads = 3
  FlagJoin = FALSE
  MaxPosts = 3
INVARIANTS PayloadStable
PROPERTIES PostIsJoined StopJoins ImplementsForkJoin
