\* Three commands on a Project of this device and one of another, one crash.
SPECIFICATION FairSpec
CONSTANTS
    d1 = d1
    d2 = d2
    d3 = d3
    home = home
    away = away
    g1 = g1
    None = None
    Cmd <- ThreeCommands
    Local <- OneLocal
    Remote <- OneRemote
    Agent <- OneAgent
    MaxRestarts = 1
INVARIANT TypeOK
INVARIANT KeyFitsProfile
INVARIANT CreateIsAllOrNothing
INVARIANT ReferencesResolve
 
 
CHECK_DEADLOCK FALSE
