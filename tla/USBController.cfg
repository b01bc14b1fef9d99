SPECIFICATION FairSpec
CONSTANT Transfers = {t1, t2, t3}
INVARIANTS NoCallbackLeft OneReadInFlight
PROPERTIES UnplugNoticed DestructorEnds
CHECK_DEADLOCK FALSE
