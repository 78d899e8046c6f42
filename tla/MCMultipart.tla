----------------------------- MODULE MCMultipart ------------------------------
EXTENDS MultipartUpload, TLC
CONSTANTS t1, t2, t3, e1, e2
MCTwoTags == (t1 :> e1) @@ (t2 :> e2)
MCTags == (t1 :> e1) @@ (t2 :> e2) @@ (t3 :> e2)
\* Neither t2 nor t3 outlasts a lease, is interrupted or misses an answer.
MCAlike == Permutations({t2, t3})
===============================================================================
