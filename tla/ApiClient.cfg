CONSTANTS
    Origins = {home, away}
    Home = home
    MaxRetries = 1
    MaxMaxHops = 2
    Policies <- SomePolicies
    Statuses = {200, 302, 303, 307, 503}
    RetryStatuses = {503}
    RedirectStatuses = {302, 303, 307}
    Methods = {"GET", "HEAD", "POST", "PUT"}
    IdempotentMethods = {"GET", "HEAD"}
    BodyMethods = {"POST", "PUT"}
    NoUrl = NoUrl
    BadUrl = BadUrl
    MaxCalls = 1
SPECIFICATION FairSpec
INVARIANTS TypeOK CredentialsStayHome AttemptsBounded ExhaustedMeansTried HistoryLinked BodyFollowsMethod
PROPERTIES CallEnds
CHECK_DEADLOCK FALSE
