CONSTANTS
    o1 = o1
    o2 = o2
    u1 = u1
    u2 = u2
    g1 = g1
    g2 = g2
    k1 = k1
    k2 = k2
    d1 = d1
    d2 = d2
    Root = Root
    Null = Null
    OrganizationalUnits <- MCOneUnit
    Users <- MCOneUser
    Groups <- MCTwoGroups
    Clients <- MCNone
    Domains <- MCNone
    Lists = {"ous", "users", "groups"}
    Calls <- MCTwoCalls
    MaxVersion = 3
    Pages = {"directory"}
    InitialTables <- MCTables
SPECIFICATION Spec
INVARIANTS
    ConsoleInv
    MembersGoToTheirGroup
