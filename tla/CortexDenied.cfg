SPECIFICATION Spec
CONSTANT Worlds <- MCDenied
CHECK_DEADLOCK FALSE
PROPERTIES LostHaltRelinquished
