SPECIFICATION Spec
CONSTANTS
    Bad = Bad
    Malformed = Bad
    NoServerListed = NoServerListed
    NoEntry = NoEntry
    AddrBits = 2
    HostOf <- MCHostOf
    Flights <- MCFlights
    MaxRetries = 1
    RequestTimeout = 2
    ReplyKinds = {"data", "otherClass", "notFound", "limited", "failing"}
    WhoisServer <- MCWhoisServer
    WhoisTimeout = 2
    DiscoveryTTL = 1
    Mixes <- MCMixes
    Files <- MCFiles
    WhoisEnabled = TRUE
    WhoisReplies = {"record", "free", "tooLarge"}
    MayClose = TRUE
    Concurrency = 1
    BatchTimeout = 2
    FetchTimeout = 3
    MaxTime = 6
    SmallFiles <- MCSmallFiles
INVARIANT FreeDomainNotFound
CHECK_DEADLOCK FALSE
