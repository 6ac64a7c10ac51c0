SPECIFICATION FairSpec
CONSTANTS
  w1 = w1  w2 = w2  o1 = o1  o2 = o2
  Waits = {w1}
  Owners = {o1, o2}
  Maximum = 2
  MaxJobs = 3
INVARIANTS TypeOK RowsHeld EndTold NoticeOnce
PROPERTY WaitReturns
