CONSTANTS
    c1 = c1
    s1 = s1
    h1 = h1
    h2 = h2
    x1 = x1
    x2 = x2
    u1 = u1
    k1 = k1
    a1 = a1
    Clients <- MCClients
    Scopes <- MCNoScopes
    Editors <- MCOneEditor
    Exchanges <- MCOneExchange
    Nobody = Nobody
    MaxSecret = 2
    Users <- MCUsers
    Codes <- MCOneCode
    Approvals <- MCApprovals
    UserWriter = UserWriter
    SessionTtl = 1
    CsrfTtl = 1
    CodeTtl = 1
    CleanupLimit = 1
    MaxTime = 1
SPECIFICATION Spec
PROPERTIES
    DeletedClientStays
    GrantIsDue
    LiveCodeSurvives
