CONSTANTS
    o1 = o1
    o2 = o2
    u1 = u1
    u2 = u2
    g1 = g1
    g2 = g2
    k1 = k1
    k2 = k2
    d1 = d1
    d2 = d2
    Root = Root
    Null = Null
    OrganizationalUnits <- MCNone
    Users <- MCNone
    Groups <- MCNone
    Clients <- MCTwoClients
    Domains <- MCTwoDomains
    Lists = {"clients", "domains"}
    Calls <- MCTwoCalls
    MaxVersion = 3
    Pages = {"clients", "domains"}
    InitialTables <- MCOneUserTables
SPECIFICATION FairSpec
INVARIANTS
    ShownSecretIsCurrent
    SecretHasADrawer
PROPERTIES
    SaveEnds
    ExitClearsSession
