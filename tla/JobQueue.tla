------------------------------ MODULE JobQueue ------------------------------
(***************************************************************************)
(* The job queue of MoniReels: the `jobs` table (app/jobs/queue.py), the   *)
(* worker processes that claim rows and run them (app/worker.py), and the  *)
(* API handlers that enqueue, cancel, retry and delete them.               *)
(*                                                                         *)
(* The database runs at READ COMMITTED.  `claim` and `reap_stale` lock the *)
(* rows they read (FOR UPDATE SKIP LOCKED) and are one step each.  Every   *)
(* other writer SELECTs the row without a lock, decides, and at commit     *)
(* UPDATEs, by primary key, the columns it changed: those are two steps, a *)
(* ...Read and a ...Write, and anything may commit in between.             *)
(***************************************************************************)
EXTENDS Integers, FiniteSets

CONSTANTS
    Jobs,          \* job ids, in order of created_at
    Projects,
    Kinds,         \* the kinds users start in this instance
    Digests,       \* what an export's dedupe key says it renders
    Workers,       \* worker processes (a restarted one takes the same name)
    Slots,         \* asyncio tasks of one worker
    Clients,       \* API requests in flight
    MAX_ATTEMPTS,  \* app.jobs.kinds.MAX_ATTEMPTS
    Budget         \* how often each rare event happens in one behaviour

Rare == {"crash", "term", "stall", "dberror", "retry", "cancel", "delete"}

KINDS == {"import_video", "transcribe", "translate", "suggest", "export_all", "export"}

ASSUME QueueAssumption ==
    /\ Jobs \subseteq Nat /\ IsFiniteSet(Jobs)
    /\ Kinds \subseteq KINDS /\ "none" \notin Projects
    /\ IsFiniteSet(Workers) /\ IsFiniteSet(Slots)
    /\ MAX_ATTEMPTS \in Nat \ {0}
    /\ Budget \in [Rare -> Nat]

VARIABLES
    rows,     \* rows[j]: the row of job j
    project,  \* project[p]: "live", "dropped" (its queued jobs are) or "deleted"
    tasks,    \* tasks[w][s]: the asyncio task in slot s of worker w
    drain,    \* drain[w]: the shutdown of worker w
    api,      \* api[c]: the open transaction of an API request
    asked,    \* asked[j]: times a person asked for job j to be run
    runs,     \* runs[j]: times a worker claimed job j
    billed,   \* billed[j]: runs of job j that reached a paid provider
    used      \* used[r]: how often rare event r has happened

vars == <<rows, project, tasks, drain, api, asked, runs, billed, used>>
-----------------------------------------------------------------------------
\* app/jobs/kinds.py

NO_RETRY == {"transcribe", "translate", "suggest"}

NoRetry(k) == k \in NO_RETRY

Lanes == {"heavy", "stt", "llm"}

LANE_LIMITS == [l \in Lanes |-> IF l = "llm" THEN 2 ELSE 1]

LaneOf(k) ==
    CASE k = "transcribe" -> "stt"
      [] k \in {"translate", "suggest"} -> "llm"
      [] OTHER -> "heavy"

PriorityOf(k) ==
    CASE k = "import_video" -> 20
      [] k \in {"translate", "suggest"} -> 40
      [] OTHER -> 80
-----------------------------------------------------------------------------
\* The rows.  "new" is a row not inserted yet, "gone" a row deleted.  The
\* dedupe key of a job is its kind, project and (exports) digest, so a row
\* only says whether it still holds it.  A heartbeat is "stale" once it is
\* older than JOB_STALE_SEC; wait is an available_at in the future.

Active == {"queued", "running"}
Terminal == {"done", "failed", "canceled"}

Row == [state : Active \cup Terminal \cup {"new", "gone"},
        kind : KINDS \cup {"none"}, project : Projects \cup {"none"},
        digest : Digests \cup {"none"}, keyed : BOOLEAN, attempts : Nat, cancel : BOOLEAN,
        beat : {"none", "fresh", "stale"}, wait : BOOLEAN]

\* The tasks.  start: claimed, its disk check not done; work: in its handler;
\* settle: about to record its verdict; write: the row was read and is still
\* this attempt's, the UPDATE is to come; end: settled or given up on.
\* caught: the verdict is recorded from an except branch of _run_job.
\* beat: the heartbeat thread's transaction, with the cancel flag it read.

Verdicts == {"done", "failed", "canceled", "requeue"}

Task == [pc : {"idle", "start", "work", "settle", "write", "end"},
         job : Jobs \cup {-1}, kind : KINDS \cup {"none"}, attempt : Nat, cancel : BOOLEAN,
         bought : BOOLEAN, verdict : Verdicts \cup {"none"},
         caught : BOOLEAN, beat : {"no", "clear", "asked"}]

Idle == [pc |-> "idle", job |-> -1, kind |-> "none", attempt |-> 0,
         cancel |-> FALSE, bought |-> FALSE, verdict |-> "none", caught |-> FALSE, beat |-> "no"]

\* The shutdown of a worker.  todo: slots whose jobs are still to be
\* abandoned; open: the slot whose abandon has read its row.
Up == [phase |-> "up", todo |-> {}, open |-> {}]

Drain == [phase : {"up", "draining", "abandoning", "leaving"},
          todo : SUBSET Slots, open : SUBSET Slots]

Free == [op |-> "none", job |-> -1, state |-> "new", attempts |-> 0]

Request == [op : {"none", "cancel", "retry"}, job : Jobs \cup {-1},
            state : {"new", "queued", "running", "failed", "canceled"},
            attempts : Nat]

Blank == [state |-> "new", kind |-> "none", project |-> "none",
          digest |-> "none", keyed |-> FALSE, attempts |-> 0,
          cancel |-> FALSE, beat |-> "none", wait |-> FALSE]

Gone == [Blank EXCEPT !.state = "gone"]

Happens(r) == /\ used[r] < Budget[r]
              /\ used' = [used EXCEPT ![r] = @ + 1]

TypeOK ==
    /\ rows \in [Jobs -> Row]
    /\ project \in [Projects -> {"live", "dropped", "deleted"}]
    /\ tasks \in [Workers -> [Slots -> Task]]
    /\ drain \in [Workers -> Drain]
    /\ api \in [Clients -> Request]
    /\ asked \in [Jobs -> Nat]
    /\ runs \in [Jobs -> Nat]
    /\ billed \in [Jobs -> Nat]
    /\ used \in [Rare -> Nat]

Init ==
    /\ rows = [j \in Jobs |-> Blank]
    /\ project = [p \in Projects |-> "live"]
    /\ tasks = [w \in Workers |-> [s \in Slots |-> Idle]]
    /\ drain = [w \in Workers |-> Up]
    /\ api = [c \in Clients |-> Free]
    /\ asked = [j \in Jobs |-> 0]
    /\ runs = [j \in Jobs |-> 0]
    /\ billed = [j \in Jobs |-> 0]
    /\ used = [r \in Rare |-> 0]
-----------------------------------------------------------------------------
\* Time.  A transaction between its read and its write takes milliseconds;
\* a backoff is at least 30 s, a stale heartbeat 300 s, a purge 30 days.  So
\* none of these timers runs out on a row while a transaction is open on it.

\* _ours: whether a write from the attempt that claimed the row may land.
Ours(r, attempt) == r.state = "running" /\ r.attempts = attempt

Slotted == Workers \X Slots

Of(j) == {ws \in Slotted : tasks[ws[1]][ws[2]].job = j}

Quiet(j) ==
    /\ \A ws \in Of(j) : /\ tasks[ws[1]][ws[2]].pc # "write"
                         /\ tasks[ws[1]][ws[2]].beat = "no"
                         /\ ws[2] \notin drain[ws[1]].open
    /\ \A c \in Clients : api[c].job # j

\* The heartbeat of a running job gets older than JOB_STALE_SEC: its worker
\* was killed, or (a stall) is alive and cannot reach the database.
HeartbeatAges(j) ==
    /\ rows[j].state = "running" /\ rows[j].beat = "fresh"
    /\ Quiet(j)
    /\ IF \E ws \in Of(j) : /\ tasks[ws[1]][ws[2]].pc # "end"
                             /\ Ours(rows[j], tasks[ws[1]][ws[2]].attempt)
       THEN Happens("stall")
       ELSE UNCHANGED used
    /\ rows' = [rows EXCEPT ![j].beat = "stale"]
    /\ UNCHANGED <<project, tasks, drain, api, asked, runs, billed>>

\* available_at passes.
BackoffExpires(j) ==
    /\ rows[j].wait
    /\ Quiet(j)
    /\ rows' = [rows EXCEPT ![j].wait = FALSE]
    /\ UNCHANGED <<project, tasks, drain, api, asked, runs, billed, used>>

\* purge_old: a settled row is deleted once it is job_keep_days old.
PurgeOld(j) ==
    /\ rows[j].state \in Terminal
    /\ Of(j) = {} /\ Quiet(j)
    /\ rows' = [rows EXCEPT ![j] = Gone]
    /\ UNCHANGED <<project, tasks, drain, api, asked, runs, billed, used>>
-----------------------------------------------------------------------------
\* The queue's own operations on a row (app/jobs/queue.py).

SameKey(r, k, p, d) == r.kind = k /\ r.project = p /\ r.digest = d

\* _hand_back: the same job, back in the queue.  It keeps its key, its count
\* of attempts and its cancel flag.
HandBackAsNew(r, delayed) ==
    [r EXCEPT !.state = "queued", !.beat = "none", !.wait = delayed, !.attempts = 0]

HandBack(r, delayed) ==
    [r EXCEPT !.state = "queued", !.beat = "none", !.wait = delayed]

\* finish, abandon: settled, and the key is released.
SettleKeepingKey(r, s) == [r EXCEPT !.state = s]

Settle(r, s) == [r EXCEPT !.state = s, !.keyed = FALSE]

\* finish and requeue.
Record(r, verdict) ==
    IF verdict = "requeue" THEN HandBack(r, TRUE) ELSE Settle(r, verdict)

\* An UPDATE by primary key of a row deleted since changes nothing.
Update(j, r) ==
    rows' = IF rows[j].state = "gone" THEN rows ELSE [rows EXCEPT ![j] = r]

\* enqueue, with the UNIQUE dedupe key: a click whose key a live job holds
\* gets that job back and inserts nothing.
Enqueue(j, p, k, d) ==
    /\ rows[j].state = "new"
    /\ \A i \in Jobs : i < j => rows[i].state # "new"
    /\ project[p] # "deleted"
    /\ d = "none" \/ k \in {"export", "export_all"}
    /\ \A i \in Jobs : ~(rows[i].keyed /\ SameKey(rows[i], k, p, d))
    /\ rows' = [rows EXCEPT ![j] = [Blank EXCEPT !.state = "queued", !.keyed = TRUE,
                                    !.kind = k, !.project = p, !.digest = d]]
    /\ asked' = [asked EXCEPT ![j] = 1]
    /\ UNCHANGED <<project, tasks, drain, api, runs, billed, used>>

\* claim: the first runnable row, by priority and then age, of a kind whose
\* lane has room in this worker (app.jobs.kinds.open_lanes).
Running(w) == {s \in Slots : tasks[w][s].pc # "idle"}

OpenLanes(w) ==
    {l \in Lanes :
       Cardinality({s \in Running(w) : LaneOf(tasks[w][s].kind) = l}) < LANE_LIMITS[l]}

Runnable(j) == rows[j].state = "queued" /\ ~rows[j].wait

Before(i, j) ==
    \/ PriorityOf(rows[i].kind) < PriorityOf(rows[j].kind)
    \/ PriorityOf(rows[i].kind) = PriorityOf(rows[j].kind) /\ i < j

Claimable(w) == {j \in Jobs : Runnable(j) /\ LaneOf(rows[j].kind) \in OpenLanes(w)}

Claim(w, s, j) ==
    /\ drain[w].phase = "up"
    /\ tasks[w][s].pc = "idle"
    /\ j \in Claimable(w)
    /\ \A i \in Claimable(w) : i # j => ~Before(i, j)
    /\ rows' = [rows EXCEPT ![j].state = "running", ![j].beat = "fresh",
                            ![j].attempts = @ + 1]
    /\ tasks' = [tasks EXCEPT ![w][s] = [Idle EXCEPT !.pc = "start", !.job = j,
                                         !.kind = rows[j].kind,
                                         !.attempt = rows[j].attempts + 1]]
    /\ runs' = [runs EXCEPT ![j] = @ + 1]
    /\ UNCHANGED <<project, drain, api, asked, billed, used>>

\* reap_stale: every row whose heartbeat stopped, in one transaction.
GivesUpOnCount(r) == r.attempts + 1 >= MAX_ATTEMPTS

GivesUp(r) == NoRetry(r.kind) \/ r.attempts + 1 >= MAX_ATTEMPTS

StaleInTime(r) == r.state = "running" /\ r.beat = "stale" /\ r.attempts < MAX_ATTEMPTS

Stale(r) == r.state = "running" /\ r.beat = "stale"

Reaped(r) ==
    LET counted == [r EXCEPT !.attempts = @ + 1]
    IN  IF GivesUp(r) THEN Settle(counted, "failed") ELSE HandBack(counted, TRUE)

Reap ==
    /\ \E w \in Workers : drain[w].phase = "up"
    /\ \E j \in Jobs : Stale(rows[j])
    /\ rows' = [j \in Jobs |-> IF Stale(rows[j]) THEN Reaped(rows[j]) ELSE rows[j]]
    /\ UNCHANGED <<project, tasks, drain, api, asked, runs, billed, used>>
-----------------------------------------------------------------------------
\* A task (app/worker.py _run_job).

Become(w, s, t) == tasks' = [tasks EXCEPT ![w][s] = t]

\* The verdict a task goes on to record.
Judge(t, verdict, caught) ==
    [t EXCEPT !.pc = "settle", !.verdict = verdict, !.caught = caught]

\* The except branch: a failure is final for a kind billed per attempt, on
\* the last attempt, and when a retry cannot help.
LastAttemptLate(t) == NoRetry(t.kind) \/ t.attempt > MAX_ATTEMPTS
LastAttemptOnCount(t) == t.attempt >= MAX_ATTEMPTS

LastAttempt(t) == NoRetry(t.kind) \/ t.attempt >= MAX_ATTEMPTS

Failure(t, final) == IF final \/ LastAttempt(t) THEN "failed" ELSE "requeue"

\* ensure_free found no room: nothing was spent, so even a paid kind waits
\* for it, unless it never fits or has waited often enough.
OutOfSpace(w, s) ==
    LET t == tasks[w][s] IN
    /\ t.pc = "start"
    /\ \E neverFits \in BOOLEAN :
         Become(w, s, Judge(t, IF neverFits \/ t.attempt >= MAX_ATTEMPTS
                               THEN "failed" ELSE "requeue", TRUE))
    /\ UNCHANGED <<rows, project, drain, api, asked, runs, billed, used>>

StartHandler(w, s) ==
    /\ tasks[w][s].pc = "start"
    /\ Become(w, s, [tasks[w][s] EXCEPT !.pc = "work"])
    /\ UNCHANGED <<rows, project, drain, api, asked, runs, billed, used>>

\* A paid request (app.jobs.cancel.check stands before each of them).
Buy(w, s) ==
    LET t == tasks[w][s] IN
    /\ t.pc = "work" /\ NoRetry(t.kind) /\ ~t.cancel /\ ~t.bought
    /\ Become(w, s, [t EXCEPT !.bought = TRUE])
    /\ billed' = [billed EXCEPT ![t.job] = @ + 1]
    /\ UNCHANGED <<rows, project, drain, api, asked, runs, used>>

HandlerReturns(w, s) ==
    LET t == tasks[w][s] IN
    /\ t.pc = "work"
    /\ Become(w, s, Judge(t, IF t.cancel THEN "canceled" ELSE "done", FALSE))
    /\ UNCHANGED <<rows, project, drain, api, asked, runs, billed, used>>

\* raise_if_cancelled
HandlerCancelled(w, s) ==
    LET t == tasks[w][s] IN
    /\ t.pc = "work" /\ t.cancel
    /\ Become(w, s, Judge(t, "canceled", TRUE))
    /\ UNCHANGED <<rows, project, drain, api, asked, runs, billed, used>>

\* final: ProjectNotFound, or _retry_cannot_help.
HandlerFails(w, s) ==
    LET t == tasks[w][s] IN
    /\ t.pc \in {"start", "work"}
    /\ \E final \in BOOLEAN : Become(w, s, Judge(t, Failure(t, final), TRUE))
    /\ UNCHANGED <<rows, project, drain, api, asked, runs, billed, used>>

\* finish and requeue: SELECT the row; one that is no longer this attempt's
\* is left to whoever holds it now.
SettleRead(w, s) ==
    LET t == tasks[w][s] IN
    /\ t.pc = "settle"
    /\ Become(w, s, [t EXCEPT !.pc = IF Ours(rows[t.job], t.attempt)
                                     THEN "write" ELSE "end"])
    /\ UNCHANGED <<rows, project, drain, api, asked, runs, billed, used>>

SettleWrite(w, s) ==
    LET t == tasks[w][s]
        r == rows[t.job] IN
    /\ t.pc = "write"
    /\ Update(t.job, Record(r, t.verdict))
    /\ Become(w, s, [t EXCEPT !.pc = "end"])
    /\ UNCHANGED <<project, drain, api, asked, runs, billed, used>>

\* The database fails the transaction.  Inside the try body the error is one
\* more failure of the job and is judged as such; in an except branch it ends
\* the task, and the row stays running until the reaper finds it.
SettleFails(w, s) ==
    LET t == tasks[w][s] IN
    /\ t.pc \in {"settle", "write"}
    /\ Happens("dberror")
    /\ Become(w, s, IF t.caught THEN [t EXCEPT !.pc = "end"]
                                ELSE Judge(t, Failure(t, FALSE), TRUE))
    /\ UNCHANGED <<rows, project, drain, api, asked, runs, billed>>

\* finally: the ledger is written, the work directory cleared.  The slot is
\* free once no database thread names it any more.
EndTask(w, s) ==
    /\ tasks[w][s].pc = "end" /\ tasks[w][s].beat = "no"
    /\ s \notin drain[w].open
    /\ Become(w, s, Idle)
    /\ UNCHANGED <<rows, project, drain, api, asked, runs, billed, used>>

\* JobHandle.flush: a heartbeat reads the row, and a row that is no longer
\* this attempt's cancels the handle.
HeardDeaf(t, r) ==
    IF Ours(r, t.attempt) THEN [t EXCEPT !.beat = "clear"] ELSE [t EXCEPT !.cancel = TRUE]

HeardAnyway(t, r) ==
    [t EXCEPT !.beat = IF r.cancel /\ Ours(r, t.attempt) THEN "asked" ELSE "clear"]

Heard(t, r) ==
    IF Ours(r, t.attempt)
    THEN [t EXCEPT !.beat = IF r.cancel THEN "asked" ELSE "clear"]
    ELSE [t EXCEPT !.cancel = TRUE]

BeatRead(w, s) ==
    /\ tasks[w][s].pc \in {"start", "work", "settle", "write"}
    /\ tasks[w][s].beat = "no"
    /\ Become(w, s, Heard(tasks[w][s], rows[tasks[w][s].job]))
    /\ UNCHANGED <<rows, project, drain, api, asked, runs, billed, used>>

\* The thread outlives a canceled heartbeat loop: the write lands all the same.
BeatWrite(w, s) ==
    LET t == tasks[w][s] IN
    /\ t.beat # "no"
    /\ Update(t.job, [rows[t.job] EXCEPT !.beat = "fresh"])
    /\ Become(w, s, [t EXCEPT !.beat = "no", !.cancel = @ \/ t.beat = "asked"])
    /\ UNCHANGED <<project, drain, api, asked, runs, billed, used>>
-----------------------------------------------------------------------------
\* The end of a worker (app/worker.py main, _drain).

\* SIGTERM: no more claims.
Sigterm(w) ==
    /\ drain[w].phase = "up"
    /\ Happens("term")
    /\ drain' = [drain EXCEPT ![w].phase = "draining"]
    /\ UNCHANGED <<rows, project, tasks, api, asked, runs, billed>>

\* The grace period ends with jobs still running.
GraceEnds(w) ==
    /\ drain[w].phase = "draining" /\ Running(w) # {}
    /\ drain' = [drain EXCEPT ![w] = [phase |-> "abandoning", todo |-> Running(w),
                                      open |-> {}]]
    /\ UNCHANGED <<rows, project, tasks, api, asked, runs, billed, used>>

\* abandon, one pending task after the other: SELECT the row, ...
AbandonRead(w, s) ==
    LET t == tasks[w][s] IN
    /\ drain[w].phase = "abandoning" /\ s \in drain[w].todo /\ drain[w].open = {}
    /\ drain' = [drain EXCEPT ![w] =
         IF t.pc # "idle" /\ Ours(rows[t.job], t.attempt)
         THEN [@ EXCEPT !.open = {s}]
         ELSE [@ EXCEPT !.todo = drain[w].todo \ {s}]]
    /\ UNCHANGED <<rows, project, tasks, api, asked, runs, billed, used>>

\* ... UPDATE it.  The task is still running meanwhile.
AbandonWrite(w, s) ==
    LET t == tasks[w][s]
        r == rows[t.job] IN
    /\ s \in drain[w].open
    /\ Update(t.job, IF LastAttempt(t) THEN Settle(r, "failed")
                                       ELSE HandBack(r, FALSE))
    /\ drain' = [drain EXCEPT ![w].open = {}, ![w].todo = @ \ {s}]
    /\ UNCHANGED <<project, tasks, api, asked, runs, billed, used>>

\* An error in abandon is not caught: it ends _drain, and the jobs still to
\* be abandoned are not.
AbandonFails(w) ==
    /\ drain[w].phase = "abandoning" /\ drain[w].todo # {}
    /\ Happens("dberror")
    /\ drain' = [drain EXCEPT ![w] = [phase |-> "leaving", todo |-> {}, open |-> {}]]
    /\ UNCHANGED <<rows, project, tasks, api, asked, runs, billed>>

Abandoned(w) ==
    /\ drain[w].phase = "abandoning" /\ drain[w].todo = {}
    /\ drain' = [drain EXCEPT ![w].phase = "leaving"]
    /\ UNCHANGED <<rows, project, tasks, api, asked, runs, billed, used>>

\* asyncio.run cancels what is left; database threads already begun go on.
CancelTask(w, s) ==
    /\ drain[w].phase = "leaving"
    /\ tasks[w][s].pc \in {"start", "work", "settle"}
    /\ Become(w, s, [tasks[w][s] EXCEPT !.pc = "end"])
    /\ UNCHANGED <<rows, project, drain, api, asked, runs, billed, used>>

\* The process is gone, and the platform starts another.
Exit(w) ==
    /\ drain[w].phase \in {"draining", "leaving"} /\ Running(w) = {}
    /\ drain' = [drain EXCEPT ![w] = Up]
    /\ UNCHANGED <<rows, project, tasks, api, asked, runs, billed, used>>

\* Killed (out of memory, the platform, _watchdog): open transactions roll back.
Crash(w) ==
    /\ Happens("crash")
    /\ tasks' = [tasks EXCEPT ![w] = [s \in Slots |-> Idle]]
    /\ drain' = [drain EXCEPT ![w] = Up]
    /\ UNCHANGED <<rows, project, api, asked, runs, billed>>
-----------------------------------------------------------------------------
\* The API.

Respond(c) == api' = [api EXCEPT ![c] = Free]

\* request_cancel: only an active row, and a queued one is settled at once.
CancelRead(c, j) ==
    /\ api[c].op = "none"
    /\ rows[j].state \in Active
    /\ Happens("cancel")
    /\ api' = [api EXCEPT ![c] = [op |-> "cancel", job |-> j, state |-> rows[j].state,
                                  attempts |-> rows[j].attempts]]
    /\ UNCHANGED <<rows, project, tasks, drain, asked, runs, billed>>

CancelWrite(c) ==
    LET j == api[c].job
        r == [rows[j] EXCEPT !.cancel = TRUE] IN
    /\ api[c].op = "cancel"
    /\ Update(j, IF api[c].state = "queued" THEN Settle(r, "canceled") ELSE r)
    /\ Respond(c)
    /\ UNCHANGED <<project, tasks, drain, asked, runs, billed, used>>

\* retry_job (app/api/routes_admin.py): a failed or canceled job with no live
\* twin goes back to the queue as new.  It does not get its key back.
RetryRead(c, j) ==
    /\ api[c].op = "none"
    /\ rows[j].state \in {"failed", "canceled"}
    /\ \A i \in Jobs : ~ /\ rows[i].state \in Active
                         /\ rows[i].project = rows[j].project
                         /\ rows[i].kind = rows[j].kind
    /\ Happens("retry")
    /\ api' = [api EXCEPT ![c] = [op |-> "retry", job |-> j, state |-> rows[j].state,
                                  attempts |-> rows[j].attempts]]
    /\ UNCHANGED <<rows, project, tasks, drain, asked, runs, billed>>

RetryWrite(c) ==
    LET j == api[c].job IN
    /\ api[c].op = "retry"
    /\ Update(j, [HandBack(rows[j], FALSE) EXCEPT
                    !.attempts = IF api[c].attempts = 0 THEN @ ELSE 0, !.cancel = FALSE])
    /\ asked' = IF rows[j].state = "gone" THEN asked ELSE [asked EXCEPT ![j] = @ + 1]
    /\ Respond(c)
    /\ UNCHANGED <<project, tasks, drain, runs, billed, used>>

\* Deleting a project: its queued jobs are canceled in one UPDATE, then the
\* project goes, and every row of it with it (ON DELETE CASCADE).
DropProjectJobs(p) ==
    /\ project[p] # "deleted"
    /\ Happens("delete")
    /\ project' = [project EXCEPT ![p] = "dropped"]
    /\ rows' = [j \in Jobs |-> IF rows[j].project = p /\ rows[j].state = "queued"
                               THEN Settle(rows[j], "canceled") ELSE rows[j]]
    /\ UNCHANGED <<tasks, drain, api, asked, runs, billed>>

DeleteProject(p) ==
    /\ project[p] = "dropped"
    /\ project' = [project EXCEPT ![p] = "deleted"]
    /\ rows' = [j \in Jobs |-> IF rows[j].project = p THEN Gone ELSE rows[j]]
    /\ UNCHANGED <<tasks, drain, api, asked, runs, billed, used>>
-----------------------------------------------------------------------------
Timer == \E j \in Jobs : HeartbeatAges(j) \/ BackoffExpires(j) \/ PurgeOld(j)

TaskStep(w, s) ==
    \/ OutOfSpace(w, s) \/ StartHandler(w, s) \/ Buy(w, s)
    \/ HandlerReturns(w, s) \/ HandlerCancelled(w, s) \/ HandlerFails(w, s)
    \/ SettleRead(w, s) \/ SettleWrite(w, s) \/ SettleFails(w, s) \/ EndTask(w, s)
    \/ BeatRead(w, s) \/ BeatWrite(w, s)

ShutdownStep(w) ==
    \/ Sigterm(w) \/ GraceEnds(w) \/ AbandonFails(w) \/ Abandoned(w)
    \/ Exit(w) \/ Crash(w)
    \/ \E s \in Slots : AbandonRead(w, s) \/ AbandonWrite(w, s) \/ CancelTask(w, s)

WorkerStep(w) ==
    \/ \E s \in Slots, j \in Jobs : Claim(w, s, j)
    \/ \E s \in Slots : TaskStep(w, s)
    \/ ShutdownStep(w)

ApiStep ==
    \/ \E j \in Jobs, p \in Projects, k \in Kinds, d \in Digests \cup {"none"} :
         Enqueue(j, p, k, d)
    \/ \E c \in Clients, j \in Jobs : CancelRead(c, j) \/ RetryRead(c, j)
    \/ \E c \in Clients : CancelWrite(c) \/ RetryWrite(c)
    \/ \E p \in Projects : DropProjectJobs(p) \/ DeleteProject(p)

Next == Reap \/ Timer \/ ApiStep \/ \E w \in Workers : WorkerStep(w)

Spec == Init /\ [][Next]_vars
-----------------------------------------------------------------------------
\* A settled job holds no dedupe key, so the same action can be started
\* again; and two rows never hold the same key (the UNIQUE column).
KeyHeldByLiveJob ==
    /\ \A j \in Jobs : rows[j].keyed => rows[j].state \in Active
    /\ \A i, j \in Jobs :
         /\ rows[i].keyed /\ rows[j].keyed
         /\ SameKey(rows[i], rows[j].kind, rows[j].project, rows[j].digest)
         => i = j

\* A kind billed per attempt is billed at most once for every time a person
\* asked for it, whatever crashes, stalls, deploys and races it went through.
BilledOncePerRequest == \A j \in Jobs : billed[j] <= asked[j]

PaidRuns == INSTANCE PaidRuns WITH granted <- asked, spent <- billed

\* The same promise as a specification of its own: see PaidRuns.
SpendsOnlyWhatWasGranted == PaidRuns!Spec

\* A job is run at most MAX_ATTEMPTS times for every time it was asked for,
\* crashes, stalls and the reaper included; and a deploy, whose abandon can
\* race with the end of a run, adds at most one.
RunsBounded == \A j \in Jobs : runs[j] <= MAX_ATTEMPTS * asked[j] + used["term"]

\* Until an admin retries a job, the attempts of its row is a fencing token:
\* no two tasks carry the same one, and none is ahead of the row.
FencedUntilRetried ==
    \A j \in Jobs : asked[j] = 1 =>
        /\ \A v, w \in Of(j) :
             tasks[v[1]][v[2]].attempt = tasks[w[1]][w[2]].attempt => v = w
        /\ \A v \in Of(j) :
             rows[j].state # "gone" => tasks[v[1]][v[2]].attempt <= rows[j].attempts

\* What _ours promises of the token: of the tasks of one job still to settle
\* it, at most one can write its row.
OneHolder ==
    \A j \in Jobs : \A v, w \in Of(j) :
        LET t == tasks[v[1]][v[2]]
            u == tasks[w[1]][w[2]] IN
        /\ t.pc # "end" /\ Ours(rows[j], t.attempt)
        /\ u.pc # "end" /\ Ours(rows[j], u.attempt)
        => v = w

\* What abandon promises: a job that finished keeps its answer.
FinishedJobKeepsItsAnswer ==
    [][\A j \in Jobs : rows[j].state = "done" => rows'[j].state \in {"done", "gone"}]_vars
-----------------------------------------------------------------------------
\* Fairness.  The worker loop polls, its housekeeping runs every minute, a
\* transaction commits or fails, and clocks move.  A row whose run is no
\* longer alive ages; nothing makes the row of a live run age.

Abandonable(j) == ~ \E ws \in Of(j) : /\ tasks[ws[1]][ws[2]].pc # "end"
                                      /\ Ours(rows[j], tasks[ws[1]][ws[2]].attempt)

SystemFairness ==
    /\ WF_vars(Reap)
    /\ \A j \in Jobs : /\ WF_vars(BackoffExpires(j))
                       /\ WF_vars(Abandonable(j) /\ HeartbeatAges(j))
    /\ \A c \in Clients : WF_vars(CancelWrite(c) \/ RetryWrite(c))
    /\ \A w \in Workers :
         /\ WF_vars(\E s \in Slots, j \in Jobs : Claim(w, s, j))
         /\ WF_vars(GraceEnds(w) \/ Abandoned(w) \/ Exit(w))
         /\ WF_vars(\E s \in Slots : AbandonRead(w, s) \/ AbandonWrite(w, s))
    /\ \A w \in Workers, s \in Slots :
         /\ WF_vars(StartHandler(w, s) \/ OutOfSpace(w, s))
         /\ WF_vars(HandlerCancelled(w, s))
         /\ WF_vars(SettleRead(w, s) \/ SettleWrite(w, s))
         /\ WF_vars(EndTask(w, s) \/ CancelTask(w, s))
         /\ WF_vars(BeatRead(w, s))
         /\ WF_vars(BeatWrite(w, s))

\* Every handler ends: its subprocesses and requests have timeouts.
HandlersEnd ==
    \A w \in Workers, s \in Slots : WF_vars(HandlerReturns(w, s) \/ HandlerFails(w, s))

FairSpec == Spec /\ SystemFairness /\ HandlersEnd

\* A handler may run forever, and is stopped by its cancel hook alone.
StubbornSpec == Spec /\ SystemFairness

\* Whatever happens to its workers, a job is settled in the end (or deleted).
EveryJobSettles ==
    \A j \in Jobs : rows[j].state \in Active ~> rows[j].state \notin Active

\* A job asked to cancel stops being active, even when its handler would not
\* have returned and the request raced with a claim, a reap or a deploy.
CancelStops ==
    \A j \in Jobs :
        rows[j].state \in Active /\ rows[j].cancel
        ~> ~(rows[j].state \in Active /\ rows[j].cancel)

\* A run whose row was taken over, settled or deleted by somebody else is
\* told so by its heartbeat, and stops.
LostRunStops ==
    \A w \in Workers, s \in Slots :
        tasks[w][s].pc = "work" /\ ~Ours(rows[tasks[w][s].job], tasks[w][s].attempt)
        ~> tasks[w][s].pc # "work"
=============================================================================
