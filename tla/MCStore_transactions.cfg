CONSTANTS
    o1 = o1
    u1 = u1
    w1 = w1
    w2 = w2
    OrganizationalUnits <- MCOrganizationalUnits
    Users <- MCUsers
    Groups <- MCNoObjects
    MaxDirectoryRevision = 3
    MaxCredentialRevision = 1
    Writers <- MCTwoWriters
    NoWriter = NoWriter
    MaxAttempts = 2
SPECIFICATION FairSpec
INVARIANTS
    TxInv
    TombstoneIsOlder
PROPERTIES
    TransactionsAreAtomic
    EveryTransactionEnds
