\* The request is ready in the end.
SPECIFICATION FairSpec
CONSTANT N = 2
PROPERTY RequestIsReady
CHECK_DEADLOCK FALSE
