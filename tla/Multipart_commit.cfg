\* Two tries, one of which may take the COMMIT of its completion for a failure.
SPECIFICATION Spec
CONSTANTS
    t1 = t1
    t2 = t2
    t3 = t3
    e1 = e1
    e2 = e2
    Tries = {t1, t2}
    NoTry = NoTry
    Parts = 2
    Tag <- MCTwoTags
    Outlasting = {}
    Interrupted = {}
    LosingCommit = {t1}
INVARIANT PublishedStored
CHECK_DEADLOCK FALSE
