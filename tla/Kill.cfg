CONSTANTS
  NoThread = NoThread
  Killer = Killer
  Users = {u1, u2, u3}
  IrqDuringKill = FALSE
SPECIFICATION FairSpec
INVARIANTS ExitNeverReturns NoThreadLost
PROPERTY KillTerminates
