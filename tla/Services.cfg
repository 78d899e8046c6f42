\* Nine components that share no state, one at a time.
SPECIFICATION ServicesSpec
CONSTANTS
    Services = {"outbox", "accounts", "shares", "cli", "storage", "gateway", "copy", "sign in", "links"}

    Events = {e1, e2}
    Invitations = {e1}
    Hosts = {h1, h2}
    Nobody = nobody
    OutboxBatch = 2
    MaxAttempts = 2
    MaxFaults = 2

    a1 = a1
    a2 = a2
    i1 = i1
    i2 = i2
    i3 = i3
    Accounts = {a1, a2}
    PublicIds = {i1, i2, i3}
    NoId = noId
    FirstId <- MCFirstId
    Stories <- MCStories
    Lookups = {k1}
    MaxTime = 4

    Principals = {p1}
    GrantIds = {g0, g1, g2}
    TagGrants = {g0}
    Tag = tag
    NoOne = noOne
    Lifetimes = {1}
    ShareBatch = 1
    MaxShareTime = 3
    MaxChanges = 3

    Commands = {c1, c2}
    Intents = {"a", "b"}
    Targets = {t1, t2}
    NoEntry = noEntry
    MaxKeys = 2
    MaxSignIns = 2
    MaxTurn = 1
    MaxRuns = 3
    MaxLosses = 1

    s0 = s0
    s1 = s1
    s2 = s2
    b1 = b1
    b2 = b2
    Configurations = {s0, s1, s2}
    Unkeyed = {s2}
    Legacy = s0
    Buckets = {b1, b2}
    BucketOf <- MCBucketOf
    Platform = platform
    Configurers = {h1, h2}
    Writes = {f1}

    Keys = {"old", "new"}
    FirstKeys = {"old"}
    Verifiers = {p1, p2}
    MaxAge = 3
    Spacing = 2
    Latency = 1
    AccessTokens = {t1, t2}
    Checkers = {p1, p2}
    AnswerTTL = 2
    MemoCapacity = 1
    Allowance = 2
    Minute = 2
    MaxClock = 5

    Routes = {"copy", "copyParts", "file", "ranges"}
    Repeats = 1
    LargeParts = 2
    MaxTries = 2

    People = {h1, h2}
    NoPerson = nobody
    Ways = {"code", "token"}
    Deployments = {"ours", "another"}
    CodeLives = 4
    OfferedIntervals = {0, 1}
    SlowDownStep = 1
    MaxSignInClock = 5
    MaxSignInFaults = 1

    Organizations = {"tos", "lab"}
    LegacyStates <- MCLegacyStates
    LegacyOrder <- MCLegacyOrder
    BoundTo <- MCBoundTo
    OldAddresses <- MCOldAddresses
    Mappings <- MCMappings
    Visitors = {"ua", "ub"}
    Apps = {"waveform", "karaoke"}
    Successor <- MCSuccessor
    MaxRunsOfLink = 2
    MaxVisits = 1
INVARIANTS
    MailsAccountedFor AccountsFollowEvents SharesEndOnce CommandsRecover
    StorageHolds BeliefsAreBounded CopiesHold SignInsHold CutoverHolds
PROPERTY NothingTakenBack
\* Each component has bounds at which it stops.
CHECK_DEADLOCK FALSE
