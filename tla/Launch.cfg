SPECIFICATION FairSpec
CONSTANTS
    Command = {"k1", "k2", "k3"}
    MaxCrashes = 1
INVARIANTS TypeOK LoneIsAnswered StartedIsLoaded
PROPERTY StartedIsServed
CHECK_DEADLOCK FALSE
