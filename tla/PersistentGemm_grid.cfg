SPECIFICATION Spec
CONSTANT Problems <- Refused
INVARIANT GridsAreWholeClusters
