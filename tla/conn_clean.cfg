SPECIFICATION FairSpec
CONSTANTS
    Method = "Port"
    MaxConnectAttempts = 2
    MaxSends = 3
    MaxConnects = 1
    MaxEvents = 1
    SendKinds = {"reply"}
    ClientOps = {"disconnect", "cancel"}
INVARIANTS
    NoDeletedWaiterQueued
    PostsToLiveSocket
PROPERTIES
    ImplementsRequestReply
    DestructorReturns
    ConnectResolves
