SPECIFICATION Spec
CONSTANT Worlds <- MCReset
CHECK_DEADLOCK FALSE
PROPERTIES ResumeOwnHalt
