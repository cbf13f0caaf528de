\* Two devices hold one invitation, beside up to three RPCs that register, rename
\* and remove Agents or members, or two when a device posts its request twice,
\* and a crash of the host.
SPECIFICATION Spec
CONSTANTS
    ann = ann
    bob = bob
    cem = cem
    g1 = g1
    g2 = g2
    n1 = n1
    n2 = n2
    i1 = i1
    o1 = o1
    o2 = o2
    o3 = o3
    None = None
    Owner = ann
    Member = {ann, bob, cem}
    Invite = {i1}
    InviteOf <- SharedInvite
    Agent = {g1, g2}
    Name = {n1, n2}
    Op = {o1, o2, o3}
    MaxPosts = 2
    MaxWork = 3
    MaxRestarts = 1
SYMMETRY Symmetry
VIEW View
INVARIANTS TypeOK InviteAdmitsOne OrphansAreLate
PROPERTY ImplementsDirectory
CHECK_DEADLOCK FALSE
