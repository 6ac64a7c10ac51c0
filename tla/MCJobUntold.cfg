SPECIFICATION Spec
CONSTANTS
  w1 = w1  w2 = w2  o1 = o1  o2 = o2
  Waits = {w1}
  Owners = {o1}
  Maximum = 1
  MaxJobs = 1
INVARIANT FinishedJobsTold
