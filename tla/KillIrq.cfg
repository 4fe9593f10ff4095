CONSTANTS
  NoThread = NoThread
  Killer = Killer
  Users = {u1, u2}
  IrqDuringKill = TRUE
SPECIFICATION Spec
INVARIANT ExitNeverReturns
