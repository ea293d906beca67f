\* The real graph of the game server: one file per module and the driver.
SPECIFICATION WalkSpec
CONSTANTS
  Module <- MCModule
  Root = "game_server"
  Dependencies <- MCDependencies
  Files <- MCFiles
  DriverFile = "game_server_driver.c"
INVARIANTS IncludesAreTransitive LinkIsComplete EveryFileIsAwaitedOnce WalkIsVisited
PROPERTY Finishes
CHECK_DEADLOCK FALSE
