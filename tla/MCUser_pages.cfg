CONSTANTS
    u1 = u1
    u2 = u2
    r1 = r1
    r2 = r2
    Null = Null
    Users <- MCUsers
    Requests <- MCRequests
    Calls <- MCCalls
SPECIFICATION FairSpec
INVARIANTS
    UserInv
    ConsentShowsAddress
    AuthorizeShowsACard
    ApprovedIsShown
    TokenHasItsProfile
PROPERTIES
    LogoutClears
