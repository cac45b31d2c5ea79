CONSTANTS
    o1 = o1
    u1 = u1
    u2 = u2
    g1 = g1
    OrganizationalUnits <- MCOrganizationalUnits
    Users <- MCOneUser
    Groups <- MCGroups
    Adoptable <- MCOneUser
    BatchLimit = 1
    MaxDirectoryRevision = 3
    MaxCredentialRevision = 1
    MaxFaults = 2
SPECIFICATION Spec
INVARIANTS
    SyncInv
    ProgressBounded
    BatchComplete
    ConfirmedIsApplied
    ConfirmedDeletionIsQuarantined
PROPERTIES
    DirectoryNeverRegresses
    DirectoryChannelKeepsPromise
