SPECIFICATION Spec
CONSTANT Worlds <- MCRestart
CHECK_DEADLOCK FALSE
PROPERTIES RestartBlocksCleanup
