SPECIFICATION Spec
CONSTANTS
    Value = "value"
    Free = Free
    Entity = Entity
    Lines <- MCLines
    KeyOf <- MCKeyOf
    LibraryKeys = {Free}
    Callers = {c, w1, w2}
    Workers = {w1, w2}
    Closers = {x1, x2}
    Address = Address
    Feeds <- MCFeeds
    Keys = {Free, Entity, Address}
    Barred = {Entity}
    Tool = c
    ToolCloser = x1
    MaxConcurrency = 1
    MaxLoads = 2
    MaxTicks = 1
    MaxCalls = 1
    NoKey = NoQuery
    NoQuery = NoQuery
    w1 = w1
    w2 = w2
    Queries <- MCQueries
    RestRetries = 2
INVARIANTS ResolversServe FirstLoadDecides 
PROPERTIES CloseIsFinal EveryoneReturns
CHECK_DEADLOCK FALSE
