CONSTANTS
    o1 = o1
    u1 = u1
    u2 = u2
    g1 = g1
    OrganizationalUnits <- MCOrganizationalUnits
    Users <- MCOneUser
    Groups <- MCNoObjects
    Adoptable <- MCNoObjects
    BatchLimit = 2
    MaxDirectoryRevision = 3
    MaxCredentialRevision = 2
    MaxFaults = 1
SPECIFICATION FairSpec
INVARIANTS
    ConfirmedDisabledIsDisabled
    ConfirmedActiveIsEnabled
    CredentialBatchComplete
    ConfirmedPasswordIsSet
PROPERTIES
    CredentialChannelKeepsPromise
    DirectoryConverges
    PasswordsConverge
