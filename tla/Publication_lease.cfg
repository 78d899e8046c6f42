\* Two attempts at an upload and one at a version restore of the same file.
SPECIFICATION Spec
CONSTANTS
    r1 = r1
    r2 = r2
    a1 = a1
    a2 = a2
    a3 = a3
    b1 = b1
    NoAttempt = NoAttempt
    Requests = {r1, r2}
    Attempts = {a1, a2, b1}
    RequestOf <- UploadAndRestore
    Restores = {r2}
    Outlasting = {r1}
    Interrupted = {a1}
    Abandoned = {a1}
INVARIANTS ContentLostTwoWays VersionsNumbered FailureLeavesNoObject
PROPERTY OnceSpec
\* Attempts are finite: the system stops when all have ended.
CHECK_DEADLOCK FALSE
