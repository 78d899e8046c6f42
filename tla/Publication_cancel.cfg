\* Two attempts at one upload, one of them cancelled while it awaits COMMIT.
SPECIFICATION Spec
CONSTANTS
    r1 = r1
    r2 = r2
    a1 = a1
    a2 = a2
    a3 = a3
    b1 = b1
    NoAttempt = NoAttempt
    Requests = {r1, r2}
    Attempts = {a1, a2}
    RequestOf <- Pair
    Restores = {}
    Outlasting = {}
    Interrupted = {a1}
    Abandoned = {a1}
INVARIANT PublishedContentStored
\* Attempts are finite: the system stops when all have ended.
CHECK_DEADLOCK FALSE
