------------------------------ MODULE MCUploads ------------------------------
EXTENDS DelegatedUpload, TLC
CONSTANTS u1, u2, w1, w2
Symmetry == Permutations({w1, w2})
MCSize == (u1 :> 1) @@ (u2 :> 1)
===============================================================================
