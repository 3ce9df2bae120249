SPECIFICATION FairSpec
CONSTANT Worlds <- MCWorlds
CHECK_DEADLOCK FALSE
INVARIANTS TypeOK UncertainBlocks
PROPERTIES NoControlDuringTransfer StepClearedHalted NoForeignResume ReleaseClean ReleasedOrBlocked
