\* Three tries in two parts, one of which may outlast its lease, stop and lose answers.
SPECIFICATION Spec
CONSTANTS
    t1 = t1
    t2 = t2
    t3 = t3
    e1 = e1
    e2 = e2
    Tries = {t1, t2, t3}
    NoTry = NoTry
    Parts = 2
    Tag <- MCTags
    Outlasting = {t1}
    Interrupted = {t1}
    LosingCommit = {t1}
INVARIANTS LostOnlyByMistake PartsAccountedFor
PROPERTY OnceSpec
SYMMETRY MCAlike
CHECK_DEADLOCK FALSE
