CONSTANT Setups <- AllSetups
CONSTANT MaxProcs = 3
CONSTANT MaxFails = 2
CONSTANT MaxWork = 1
SPECIFICATION Spec
CHECK_DEADLOCK FALSE
INVARIANTS TypeOK AttachedWhileOpen ExitOnce JournalCarried CutDrained AllReleased
