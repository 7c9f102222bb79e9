SPECIFICATION Spec
CONSTANTS
    Senders = {ui, runner}
    UI = ui
    NoOne = NoOne
    NoDomain = NoDomain
    NoPath = NoPath
    Labels = {"s", "ex", "o", "com"}
    Urls <- MCUrls
    SetCookies <- MCSetCookies
    Edits <- MCEdits
    Names = {"a", "b", "c", "?p", "?q", "$d", "chain.c", "chain.o", "chain.e", "chain.s", "chain.h", "chain.m", "chain.t"}
    Prompts = {"?p", "?q"}
    ChainNames <- MCChainNames
    Views <- MCViews
    PathNames = {"{k}"}
    Dynamic <- MCDynamic
    Chained <- MCChained
    URLOf <- Built
    ValuesOf <- ResolveValues
    MaxRequests = 3
    Plans <- MCPlans
INVARIANTS
    NothingGoesAstray
    OneFetchPerToken
    BodiesBalanced
    SentAsMeant
PROPERTY CookiesKeepPlace
CHECK_DEADLOCK FALSE
