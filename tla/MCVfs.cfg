SPECIFICATION Spec
CONSTANTS
  Threads = {t1, t2}
  Slots = {n0, n1, n2}
  Root = n0
  NoThread = NoThread
  NoSlot = NoSlot
  Paths <- MCPaths
  Dirs <- MCDirs
  Asked <- MCAsked
  SubPaths <- MCSubPaths
  Others <- MCOthers
  Room <- MCRoom
  MaxLeaks = 1
SYMMETRY Symmetry
VIEW View
INVARIANTS RefsExact OnceInMemory AssertsHold OnlyUnrefDeadlocks
PROPERTIES DeleteLooksFirst
CHECK_DEADLOCK FALSE
