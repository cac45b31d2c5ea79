CONSTANTS
    o1 = o1
    u1 = u1
    u2 = u2
    g1 = g1
    OrganizationalUnits <- MCNoObjects
    Users <- MCTwoUsers
    Groups <- MCNoObjects
    Adoptable <- MCNoObjects
    BatchLimit = 1
    MaxDirectoryRevision = 3
    MaxCredentialRevision = 0
    MaxFaults = 1
SPECIFICATION FairSpec
PROPERTY
    DirectoryConverges
