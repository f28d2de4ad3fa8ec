------------------------------ MODULE MCUploads ------------------------------
EXTENDS Uploads, TLC

CONSTANTS fa, fb, fd, k1, k2,       \* model values: files and keys
          sizeA, sizeB,             \* of fa and fb; fd is of length 1
          picks, lates, r2fails, dies, unkeys, deletes

MCKeyOf == [f \in Files |-> IF f = fd THEN k2 ELSE k1]

MCSizeOf == [f \in Files |-> CASE f = fa -> sizeA
                               [] f = fb -> sizeB
                               [] f = fd -> 1]

MCBudget == [pick |-> picks, late |-> lates, r2fail |-> r2fails, die |-> dies,
             unkey |-> unkeys, delete |-> deletes]

Symmetric == Permutations(Tabs) \cup Permutations(Uids) \cup Permutations(Imports)
=============================================================================
