SPECIFICATION Spec
CONSTANTS
    Junk = Junk
    NoValue = NoValue
    Source = "s"
    ShareNames = {1}
    MaxMirrors = 2
    Accepts = {"accept1", "accept2"}
    ShareEdits = {"edit"}
    MaxWallets = 2
    MaxHashes = 2
    UserRequests = {1, 2}
    Payers = {1}
    Grants = {"pay"}
    Expiry = 2
    MaxEdits = 2
    MaxUsers = 2
    AccountIds = {1, 2}
    AccountNames = {"a", "b"}
    LightningNames = {"a", "b"}
    LoginLimit = 2
    MaxAccounts = 2
    MaxStops = 2
    MaxRelease = 2
    GuestPolicies <- Policies
    MaxEntries = 2
    Origins = {"a", "b"}
    Targets = {"x", "y"}
    Tables = {"t", "u"}
    Fields = {"f", "g"}
    RowsDefault = 2
    RowsLimit = 3
    RateLimit = 2
    Callers = {1, 2}
    MaxRedirects = 2
    MaxAmount = 2
    MaxVersion = 2
    MaxOffers = 2
    MaxPayments = 2
    MaxPrice = 1
    Onlookers = {1}
    NodeRows = 5
    LastPage = 2
    PageRows = 2
    FiatWallets = {1, 2}
    Subscriptions = {1, 2}
    SubscriptionRequests = {1, 2}
    Hundredths = {1}
    MaxCycles = 2
    WebhookUrls = {1, 2}
    MaxClients = 4
    MaxFields = 4
    MaxHooks = 4
    Charges = {5, 7, 10, 15, 990, 1000, 1005, 1990, 2500, 19990}
    Exchanges = {1, 2, 3, 4}
    Rates = {1000, 1009, 1017, 1500}
    Unit = 1000
INVARIANTS TypeOK WalletsAreRight AccountsAreRight AccessEnds
    ActiveIsServed GuestsKeepToGrants UserExtensionsLast DealingsAreRight
CHECK_DEADLOCK FALSE
