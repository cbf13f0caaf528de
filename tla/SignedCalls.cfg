\* Two calls that share the guard, each posted up to twice, and two handlers.
SPECIFICATION Spec
CONSTANTS
    m1 = m1
    m2 = m2
    h1 = h1
    h2 = h2
    None = None
    Call <- TwoCalls
    Handler <- TwoHandlers
    MaxAge = 1
    MaxSkew = 0
    MaxLag = 1
    MaxPosts = 2
    MaxClock = 4
    MaxRestarts = 1
SYMMETRY Symmetry
INVARIANT TypeOK
INVARIANT RunOncePerProcess
INVARIANT OutcomesAreTrue
CHECK_DEADLOCK FALSE
