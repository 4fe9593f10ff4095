CONSTANTS
  c1 = c1
  c2 = c2
  w1 = w1
  o1 = o1
  NoThread = NoThread
  Clients = {c1, c2}
  Workers = {w1}
  Objs = {o1}
  IrqObjs = {o1}
SPECIFICATION FairSpec
INVARIANTS RunQueueExact CleanupFinished PendingIsDue
PROPERTIES NoReordering StarvationFree ExitedIsReclaimed
