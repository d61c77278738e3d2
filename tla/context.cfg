SPECIFICATION ContextFairSpec
CONSTANTS
    Rids <- OneRid
    InKinds <- Inbound
    OutKinds <- Outbound
    CookieEnabled = TRUE
    Expiration = 1
    InConns = {c1, c2}
    OutConns = {o1}
    Bounds <- TwoByOne
INVARIANTS ContextTypeOK TraceContinued RouteFollows
PROPERTIES CachesDrain
