------------------------------ MODULE PaidRuns ------------------------------
(***************************************************************************)
(* What the job queue promises about money: every paid run of a job is one *)
(* a person asked for.  A request grants one run; a run spends its grant.  *)
(***************************************************************************)
EXTENDS Integers

CONSTANT Jobs

VARIABLES granted, spent

Init == granted = [j \in Jobs |-> 0] /\ spent = [j \in Jobs |-> 0]

Grant(j) == /\ granted' = [granted EXCEPT ![j] = @ + 1]
            /\ UNCHANGED spent

Spend(j) == /\ spent[j] < granted[j]
            /\ spent' = [spent EXCEPT ![j] = @ + 1]
            /\ UNCHANGED granted

Next == \E j \in Jobs : Grant(j) \/ Spend(j)

Spec == Init /\ [][Next]_<<granted, spent>>
=============================================================================
