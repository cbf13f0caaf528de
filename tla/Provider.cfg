SPECIFICATION FairSpec
CONSTANTS
    None = None
    m1 = m1
    m2 = m2
    Message = {m1, m2}
    Script <- Scripts
    PipeSize = 1
    MaxNoise = 2
    Ask = {"a1", "a2"}
    MaxAge = 1
    MaxClock = 3
INVARIANTS TypeOK WholeAnswers NothingLeftBehind
PROPERTIES WorkIsDone CancelEndsRead
CHECK_DEADLOCK FALSE
