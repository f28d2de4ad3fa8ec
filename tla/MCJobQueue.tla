----------------------------- MODULE MCJobQueue -----------------------------
EXTENDS JobQueue, TLC

CONSTANTS crashes, terms, stalls, dberrors, retries, cancels, deletes

MCBudget == [crash |-> crashes, term |-> terms, stall |-> stalls, dberror |-> dberrors,
             retry |-> retries, cancel |-> cancels, delete |-> deletes]

Symmetric == Permutations(Workers) \cup Permutations(Slots) \cup Permutations(Projects)
=============================================================================
