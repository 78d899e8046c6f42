--------------------------- MODULE MCObjectCleanup ---------------------------
(* A folder docs holding the file plan, an entry note at the top of the drive, *)
(* and a file clip that a multipart upload into docs would create.             *)
EXTENDS ObjectCleanup, TLC

CONSTANTS docs, plan, note, clip, plan1, plan2, note1, clip1, drive, w1, w2

HomeInFolder == [e \in Entries |-> IF e \in {plan, clip} THEN docs ELSE drive]
OwnerOfVersion ==
    [x \in Versions |-> CASE x \in {plan1, plan2} -> plan
                          [] x = note1 -> note
                          [] OTHER -> clip]
LaneSymmetry == Permutations(Lanes)
=============================================================================
