SPECIFICATION FairSpec
PROPERTY WayOut
CHECK_DEADLOCK FALSE
