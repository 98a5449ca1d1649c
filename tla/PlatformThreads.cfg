SPECIFICATION FairSpec
CHECK_DEADLOCK FALSE
INVARIANTS JoinedHasAnswered UsedWhileAlive
PROPERTIES DestroyReturns
