\* No call: the provider is alone when the host moves.
SPECIFICATION FairSpec
CONSTANTS
    e1 = e1
    e2 = e2
    e3 = e3
    c1 = c1
    c2 = c2
    None = None
    Address <- TwoAddresses
    Invited <- OneInvited
    Call = {}
    MaxMoves = 1
    MaxDrops = 1
PROPERTY ProviderFollowsHost
CHECK_DEADLOCK FALSE
