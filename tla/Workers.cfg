\* The three background jobs, one at a time.
SPECIFICATION WorkersSpec
CONSTANTS
    Jobs = {"outbox", "shares", "search"}

    Events = {e1, e2}
    Invitations = {e1}
    Hosts = {h1, h2}
    Nobody = nobody
    OutboxBatch = 2
    MaxAttempts = 2
    MaxFaults = 1

    Principals = {p1}
    GrantIds = {g0, g1, g2}
    TagGrants = {g0}
    Tag = tag
    NoOne = noOne
    Lifetimes = {1}
    ShareBatch = 1
    MaxShareTime = 3
    MaxChanges = 2

    f1 = f1
    f2 = f2
    w1 = w1
    SearchFiles = {f1, f2}
    MaxRenames = 1
    TextVersions = {1}
    MaxVersion = 2
    Unreachable = {f1}
    Passes = {w1}
    BatchLimit = 2
INVARIANT IndexedIsCurrentUnlessOvertaken
PROPERTY JobsGetDone
\* Shares and files have bounds at which they stop.
CHECK_DEADLOCK FALSE
