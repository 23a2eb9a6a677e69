SPECIFICATION FairSpec
CONSTANT Problems <- Relaunched
PROPERTY RelaunchEnds
CHECK_DEADLOCK FALSE
