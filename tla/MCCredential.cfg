SPECIFICATION FairSpec
CONSTANTS
  Lazy = {r1}
  Sched = sched
  MaxSeeds = 1
  MaxIssues = 2
  MaxFaults = 2
  None = None
INVARIANTS TypeOK NeverReused ServedSaved
PROPERTIES SealHolds DueSettles
