SPECIFICATION FairSpec
CONSTANTS
    Tokens <- SomeTokens
    Methods <- KnownMethods
    Requests <- SomeRequests
    MaxRequests = 2
CHECK_DEADLOCK FALSE
INVARIANTS
    RequestsFollowStream
    RepliesFollowRequests
    ParserLeaves
PROPERTY ClientIsServed
