CONSTANTS
    o1 = o1
    u1 = u1
    u2 = u2
    g1 = g1
    OrganizationalUnits <- MCNoObjects
    Users <- MCOneUser
    Groups <- MCNoObjects
    Adoptable <- MCNoObjects
    BatchLimit = 1
    MaxDirectoryRevision = 2
    MaxCredentialRevision = 0
    MaxFaults = 0
SPECIFICATION FairSpec
PROPERTY
    DeletedUsersAreRetired
