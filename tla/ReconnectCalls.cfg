\* Two calls and a provider of an invitation with two addresses; the host moves twice.
SPECIFICATION FairSpec
CONSTANTS
    e1 = e1
    e2 = e2
    e3 = e3
    c1 = c1
    c2 = c2
    None = None
    Address <- ThreeAddresses
    Invited <- TwoInvited
    Call <- TwoCalls
    MaxMoves = 2
    MaxDrops = 1
INVARIANT TypeOK
INVARIANT InvitedAreKept
INVARIANT OfflineIsReal
PROPERTY StoppedIsForgotten
 
CHECK_DEADLOCK FALSE
