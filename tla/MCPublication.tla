---------------------------- MODULE MCPublication -----------------------------
EXTENDS Publication, TLC

CONSTANTS r1, r2, a1, a2, a3, b1

\* Two attempts at one upload, and one at another request for the same file.
UploadAndRestore == a1 :> r1 @@ a2 :> r1 @@ b1 :> r2
\* Two attempts at one upload.
Pair == a1 :> r1 @@ a2 :> r1
=============================================================================
