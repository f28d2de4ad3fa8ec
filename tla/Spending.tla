------------------------------ MODULE Spending ------------------------------
(***************************************************************************)
(* What one account may start and what it is billed: the admission of its  *)
(* jobs and projects (app/quotas.py) under a lock of the account, the      *)
(* meter of each attempt and its flush into the ledger (app/metering.py).  *)
(*                                                                         *)
(* A step is a statement of a request's transaction, or a commit.  The     *)
(* unit of money is what one attempt buys.                                 *)
(***************************************************************************)
EXTENDS Integers, FiniteSets

CONSTANTS
    Projects, Clicks, Lanes, Jobs,  \* Jobs is 1..n, in the order of insertion
    Keys,                           \* [project, kind], one per dedupe key
    quota_active_jobs, quota_active_paid_jobs, quota_monthly_usd,
    quota_projects_per_hour, quota_projects_total,
    max_attempts,
    Mishaps                         \* kills, stalls, database errors, retries, deletions

ASSUME SpendingAssumption ==
    /\ IsFiniteSet(Projects) /\ IsFiniteSet(Lanes) /\ IsFiniteSet(Jobs) /\ 0 \notin Clicks
    /\ \A key \in Keys : key.project \in Projects
    /\ "none" \notin Projects  \* told from a row that is not there
    /\ {quota_active_jobs, quota_active_paid_jobs, quota_monthly_usd,
        quota_projects_per_hour, quota_projects_total} \subseteq Nat \ {0}
    /\ max_attempts \in Nat \ {0} /\ Mishaps \in Nat /\ Jobs \subseteq Nat \ {0}

VARIABLES
    works,      \* works[n]: the n-th job of the account
    attempts,   \* attempts[l]: the attempt that runs in lane l, and its meter
    clicks,     \* clicks[c]: the request c is at
    account,    \* the request that holds the account's advisory lock, or 0
    projects,   \* projects[p]: its row, and whether it is of the last hour
    ledger,     \* the account's events of this month
    billed,     \* what the providers billed this month
    lost,       \* of it, what no event of the account will ever show
    unchecked,  \* jobs that came to life without being counted
    mishaps

spendVars == <<works, attempts, clicks, account, projects, ledger, billed, lost, unchecked, mishaps>>

\* PAID_KINDS, retried never; an export whose voice is bought; a silent export.
PaidKinds == {"translate"}
Billing == PaidKinds \cup {"voiced"}
Kinds == Billing \cup {"silent"}

NoKey == [project |-> "none", kind |-> "none"]
NoWork == [key |-> NoKey, state |-> "none", tries |-> 0]
NoAttempt == [job |-> 0, token |-> 0, pc |-> "idle", meter |-> 0]
NoClick == [pc |-> "idle", key |-> NoKey, free |-> FALSE]

SpendTypeOK ==
    /\ \A n \in Jobs : works[n].tries \in 0 .. max_attempts
                       /\ works[n].state \in {"none", "queued", "running", "ended"}
                       /\ (works[n].state # "none" => works[n].key \in Keys)
    /\ \A l \in Lanes : attempts[l].meter \in {0, 1} /\ attempts[l].pc \in {"idle", "live", "flush"}
    /\ \A c \in Clicks : clicks[c].pc \in {"idle", "wait", "count", "spend", "enqueue", "found", "create"}
    /\ account \in Clicks \cup {0}
    /\ projects \in [Projects -> {"none", "new", "old", "deleted"}]
    /\ {ledger, billed, lost, unchecked, mishaps} \subseteq Nat

SpendInit ==
    /\ works = [n \in Jobs |-> NoWork]
    /\ attempts = [l \in Lanes |-> NoAttempt]
    /\ clicks = [c \in Clicks |-> NoClick]
    /\ account = 0
    /\ projects = [p \in Projects |-> "none"]
    /\ ledger = 0 /\ billed = 0 /\ lost = 0 /\ unchecked = 0 /\ mishaps = 0
-----------------------------------------------------------------------------
Exists(p) == projects[p] \in {"new", "old"}

Live(n) == works[n].state \in {"queued", "running"}

active == {n \in Jobs : Live(n)}

active_with_key(key) == {n \in active : works[n].key = key}

active_paid == {n \in active : works[n].key.kind \in PaidKinds}

Mishap == mishaps < Mishaps /\ mishaps' = mishaps + 1

Goes(c, pc) == clicks' = [clicks EXCEPT ![c].pc = pc]

\* The transaction ends: a commit or a rollback frees the account.
Leaves(c) == clicks' = [clicks EXCEPT ![c] = NoClick] /\ account' = 0

\* A new row; the bound of the model is the number of Jobs.
Insert(key, counted) ==
    \E n \in Jobs :
        /\ works[n].state = "none" /\ \A m \in Jobs : m < n => works[m].state # "none"
        /\ works' = [works EXCEPT ![n] = [key |-> key, state |-> "queued", tries |-> 0]]
        /\ unchecked' = unchecked + (IF counted THEN 0 ELSE 1)
-----------------------------------------------------------------------------
\* The routes that start a job: the checks of the project come first.
Ask(c) ==
    /\ clicks[c].pc = "idle"
    /\ \E key \in {k \in Keys : Exists(k.project)} :
          clicks' = [clicks EXCEPT ![c] = [pc |-> "wait", key |-> key, free |-> FALSE]]
    /\ UNCHANGED <<works, attempts, account, projects, ledger, billed, lost, unchecked, mishaps>>

\* Mutant of Admit: the lock of the account is not taken.
AdmitUnlocked(c) ==
    /\ clicks[c].pc = "wait"
    /\ clicks' = [clicks EXCEPT ![c].free = active_with_key(clicks[c].key) # {},
                                ![c].pc = IF active_with_key(clicks[c].key) # {} THEN "enqueue" ELSE "count"]
    /\ UNCHANGED <<works, attempts, account, projects, ledger, billed, lost, unchecked, mishaps>>

\* admit_job takes the lock; a click on a live job is let through.
Admit(c) ==
    /\ clicks[c].pc = "wait" /\ account = 0
    /\ account' = c
    /\ clicks' = [clicks EXCEPT ![c].free = active_with_key(clicks[c].key) # {},
                                ![c].pc = IF active_with_key(clicks[c].key) # {} THEN "enqueue" ELSE "count"]
    /\ UNCHANGED <<works, attempts, projects, ledger, billed, lost, unchecked, mishaps>>

Refused(kind) ==
    \/ Cardinality(active) >= quota_active_jobs
    \/ kind \in PaidKinds /\ Cardinality(active_paid) >= quota_active_paid_jobs

Count(c) ==
    /\ clicks[c].pc = "count"
    /\ LET kind == clicks[c].key.kind
       IN  \/ Refused(kind) /\ Leaves(c)
           \/ /\ ~Refused(kind)
              /\ Goes(c, IF kind \in Billing THEN "spend" ELSE "enqueue")
              /\ UNCHANGED account
    /\ UNCHANGED <<works, attempts, projects, ledger, billed, lost, unchecked, mishaps>>

\* month_spend against the monthly budget.
Budgeted(c) ==
    /\ clicks[c].pc = "spend"
    /\ \/ ledger >= quota_monthly_usd /\ Leaves(c)
       \/ ledger < quota_monthly_usd /\ Goes(c, "enqueue") /\ UNCHANGED account
    /\ UNCHANGED <<works, attempts, projects, ledger, billed, lost, unchecked, mishaps>>

\* enqueue looks for the key again, inserts, and commits.
EnqueueWork(c) ==
    /\ clicks[c].pc = "enqueue"
    /\ LET key == clicks[c].key
       IN  \/ Exists(key.project) /\ active_with_key(key) = {} /\ Insert(key, ~clicks[c].free)
           \/ (Exists(key.project) => active_with_key(key) # {}) /\ UNCHANGED <<works, unchecked>>
    /\ Leaves(c)
    /\ UNCHANGED <<attempts, projects, ledger, billed, lost, mishaps>>

\* A suggestion queues the translation of its lines; an admin is exempt.
Unasked ==
    /\ \E key \in Keys : Exists(key.project) /\ active_with_key(key) = {} /\ Insert(key, FALSE)
    /\ Mishap
    /\ UNCHANGED <<attempts, clicks, account, projects, ledger, billed, lost>>

\* retry_job of the admin.
Revive(n) ==
    /\ works[n].state = "ended" /\ Exists(works[n].key.project)
    /\ works' = [works EXCEPT ![n].state = "queued", ![n].tries = 0]
    /\ unchecked' = unchecked + 1
    /\ Mishap
    /\ UNCHANGED <<attempts, clicks, account, projects, ledger, billed, lost>>
-----------------------------------------------------------------------------
\* admit_project and create_project: one count, one insert, under the lock.

AskProject(c) ==
    /\ clicks[c].pc = "idle" /\ Goes(c, "found")
    /\ UNCHANGED <<works, attempts, account, projects, ledger, billed, lost, unchecked, mishaps>>

AdmitProject(c) ==
    /\ clicks[c].pc = "found" /\ account = 0
    /\ IF \/ Cardinality({p \in Projects : projects[p] = "new"}) >= quota_projects_per_hour
          \/ Cardinality({p \in Projects : Exists(p)}) >= quota_projects_total
       THEN Leaves(c)
       ELSE account' = c /\ Goes(c, "create")
    /\ UNCHANGED <<works, attempts, projects, ledger, billed, lost, unchecked, mishaps>>

CreateProject(c) ==
    /\ clicks[c].pc = "create"
    /\ \E p \in Projects : projects[p] = "none" /\ projects' = [projects EXCEPT ![p] = "new"]
    /\ Leaves(c)
    /\ UNCHANGED <<works, attempts, ledger, billed, lost, unchecked, mishaps>>

HourPasses(p) ==
    /\ projects[p] = "new"
    /\ projects' = [projects EXCEPT ![p] = "old"]
    /\ UNCHANGED <<works, attempts, clicks, account, ledger, billed, lost, unchecked, mishaps>>

\* The project goes with its jobs; a run of it goes on until it notices.
RemoveProject(p) ==
    /\ Exists(p) /\ Mishap
    /\ projects' = [projects EXCEPT ![p] = "deleted"]
    /\ works' = [n \in Jobs |-> IF works[n].key.project = p
                                THEN [works[n] EXCEPT !.state = "ended"] ELSE works[n]]
    /\ UNCHANGED <<attempts, clicks, account, ledger, billed, lost, unchecked>>
-----------------------------------------------------------------------------
\* The attempts.

Holds(l) == works[attempts[l].job].state = "running" /\ works[attempts[l].job].tries = attempts[l].token

Begin(l, n) ==
    /\ attempts[l].pc = "idle" /\ works[n].state = "queued"
    /\ works' = [works EXCEPT ![n].state = "running", ![n].tries = @ + 1]
    /\ attempts' = [attempts EXCEPT ![l] = [job |-> n, token |-> works[n].tries + 1, pc |-> "live", meter |-> 0]]
    /\ UNCHANGED <<clicks, account, projects, ledger, billed, lost, unchecked, mishaps>>

\* Meter.add, at the gate every answered request passes.
Meter(l) ==
    /\ attempts[l].pc = "live" /\ attempts[l].meter = 0
    /\ works[attempts[l].job].key.kind \in Billing
    /\ attempts' = [attempts EXCEPT ![l].meter = 1]
    /\ billed' = billed + 1
    /\ UNCHANGED <<works, clicks, account, projects, ledger, lost, unchecked, mishaps>>

\* Mutant of Again: without the count.
AgainForever(n) == works[n].key.kind \notin PaidKinds

\* Whether a failed attempt may be followed by another.
Again(n) == works[n].key.kind \notin PaidKinds /\ works[n].tries < max_attempts

\* Mutant of Verdict: only an attempt that succeeded is written down.
VerdictForgets(l) ==
    /\ attempts[l].pc = "live"
    /\ LET n == attempts[l].job
       IN  \/ /\ Holds(l)
              /\ works' = [works EXCEPT ![n].state = "ended"]
              /\ attempts' = [attempts EXCEPT ![l].pc = "flush"]
           \/ /\ Holds(l) => Again(n)
              /\ works' = IF Holds(l) THEN [works EXCEPT ![n].state = "queued"] ELSE works
              /\ attempts' = [attempts EXCEPT ![l] = NoAttempt]
    /\ UNCHANGED <<clicks, account, projects, ledger, billed, lost, unchecked, mishaps>>

\* The attempt ends, however it does: the row is settled or queued again, if
\* it is still this attempt's; what it bought is not written down yet.
Verdict(l) ==
    /\ attempts[l].pc = "live"
    /\ LET n == attempts[l].job
       IN  \/ Holds(l) /\ works' = [works EXCEPT ![n].state = "ended"]
           \/ Holds(l) /\ Again(n) /\ works' = [works EXCEPT ![n].state = "queued"]
           \/ ~Holds(l) /\ UNCHANGED works
    /\ attempts' = [attempts EXCEPT ![l].pc = "flush"]
    /\ UNCHANGED <<clicks, account, projects, ledger, billed, lost, unchecked, mishaps>>

\* flush, in the finally of _run_job: the events are the owner's, read now.
Flush(l) ==
    /\ attempts[l].pc = "flush"
    /\ IF Exists(works[attempts[l].job].key.project)
       THEN ledger' = ledger + attempts[l].meter /\ UNCHANGED lost
       ELSE lost' = lost + attempts[l].meter /\ UNCHANGED ledger
    /\ attempts' = [attempts EXCEPT ![l] = NoAttempt]
    /\ UNCHANGED <<works, clicks, account, projects, billed, unchecked, mishaps>>

\* The ledger cannot be written, or the process is killed.
Forgotten(l) ==
    /\ attempts[l].pc # "idle" /\ Mishap
    /\ lost' = lost + attempts[l].meter
    /\ attempts' = [attempts EXCEPT ![l] = NoAttempt]
    /\ UNCHANGED <<works, clicks, account, projects, ledger, billed, unchecked>>

\* The reaper settles the row of an attempt that is gone, or seems to be.
ReapWork(n) ==
    /\ works[n].state = "running"
    /\ \/ \E l \in Lanes : attempts[l].pc = "live" /\ attempts[l].job = n /\ Holds(l) /\ Mishap
       \/ /\ ~\E l \in Lanes : attempts[l].pc = "live" /\ attempts[l].job = n /\ Holds(l)
          /\ UNCHANGED mishaps
    /\ \E state \in (IF Again(n) THEN {"queued", "ended"} ELSE {"ended"}) :
          works' = [works EXCEPT ![n].state = state]
    /\ UNCHANGED <<attempts, clicks, account, projects, ledger, billed, lost, unchecked>>

\* The 1st of the month, UTC: what the running attempts bought is flushed into
\* the new month.
MonthPasses ==
    /\ ledger > 0
    /\ ledger' = 0 /\ lost' = 0
    /\ billed' = Cardinality({l \in Lanes : attempts[l].meter = 1})
    /\ UNCHANGED <<works, attempts, clicks, account, projects, unchecked, mishaps>>

SpendNext ==
    \/ \E c \in Clicks :
          \/ Ask(c) \/ Admit(c) \/ Count(c) \/ Budgeted(c) \/ EnqueueWork(c)
          \/ AskProject(c) \/ AdmitProject(c) \/ CreateProject(c)
    \/ \E n \in Jobs : Revive(n) \/ ReapWork(n)
    \/ \E p \in Projects : HourPasses(p) \/ RemoveProject(p)
    \/ \E l \in Lanes : Meter(l) \/ Verdict(l) \/ Flush(l) \/ Forgotten(l) \/ \E n \in Jobs : Begin(l, n)
    \/ Unasked \/ MonthPasses

SpendSpec == SpendInit /\ [][SpendNext]_spendVars
-----------------------------------------------------------------------------
\* No interleaving of clicks passes a quota.  A job that was not counted (an
\* admin's, a suggestion's translation, or a click that found a job which ended
\* before it was queued) takes a place of its own.
AccountWithinLimits ==
    /\ Cardinality(active) <= quota_active_jobs + unchecked
    /\ Cardinality(active_paid) <= quota_active_paid_jobs + unchecked
    /\ Cardinality({p \in Projects : Exists(p)}) <= quota_projects_total
    /\ Cardinality({p \in Projects : projects[p] = "new"}) <= quota_projects_per_hour

\* The month's bill passes the budget by no more than what was already on its
\* way when the budget was last read: the attempts of the jobs that may be
\* active at once, and those that were over but not yet written down.
OvershootBounded ==
    billed - lost <= quota_monthly_usd - 1
                     + max_attempts * (quota_active_jobs + unchecked) + Cardinality(Lanes)
=============================================================================
