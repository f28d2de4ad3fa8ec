--------------------------- MODULE JobQueueProofs ---------------------------
(***************************************************************************)
(* Theorems about JobQueue, for every number of jobs, workers, slots and   *)
(* clients, every MAX_ATTEMPTS and every budget of rare events.            *)
(*                                                                         *)
(* Inv: the parts of the state name each other rightly.  GrantsCover: a    *)
(* purchase, done or to come, was asked for.  Moves and Forward: a task    *)
(* keeps the attempt it was started for, and the attempts of a row never   *)
(* go down, which makes them a fence.  RunsInv: every start of a run, done *)
(* or to come, is covered by a request or by a shutdown.                   *)
(***************************************************************************)
EXTENDS JobQueue, FiniteSetTheorems, TLAPS

\* How the parts of the state refer to each other: a task, an abandon and a
\* request name an inserted row, and a task knows the kind of its row.
TaskLinks ==
    \A w \in Workers, s \in Slots :
        /\ tasks[w][s].pc = "idle" => tasks[w][s] = Idle
        /\ tasks[w][s].pc \in {"settle", "write"} => tasks[w][s].verdict \in Verdicts
        /\ tasks[w][s].pc # "idle" =>
             /\ tasks[w][s].job \in Jobs
             /\ rows[tasks[w][s].job].state # "new"
             /\ \/ rows[tasks[w][s].job].state = "gone"
                \/ rows[tasks[w][s].job].kind = tasks[w][s].kind

DrainLinks ==
    \A w \in Workers : /\ \A s \in drain[w].open : tasks[w][s].pc # "idle"
                       /\ drain[w].open \subseteq drain[w].todo
                       /\ drain[w].phase # "abandoning" => drain[w].open = {}

ApiLinks ==
    \A c \in Clients : api[c].op # "none" => /\ api[c].job \in Jobs
                                             /\ rows[api[c].job].state # "new"

AskLinks ==
    \A j \in Jobs : /\ rows[j].state = "new" => /\ asked[j] = 0 /\ billed[j] = 0
                                               /\ rows[j] = Blank
                    /\ rows[j].state # "new" => asked[j] >= 1

Structure == TaskLinks /\ DrainLinks /\ ApiLinks /\ AskLinks

\* The runs that may still pay for job j: not started, started and not yet
\* paying, or about to hand a paid kind back unpaid.
MayPay(t) ==
    /\ NoRetry(t.kind)
    /\ \/ t.pc = "start"
       \/ t.pc = "work" /\ ~t.bought
       \/ t.pc \in {"settle", "write"} /\ t.verdict = "requeue"

MayBill(j) == {ws \in Of(j) : MayPay(tasks[ws[1]][ws[2]])}

WaitingGrant(j) == IF rows[j].state = "queued" /\ NoRetry(rows[j].kind) THEN 1 ELSE 0

\* The grants of job j cover what was billed, what may still be billed by a
\* run under way, and the run its queued row stands for.
GrantsCover ==
    \A j \in Jobs : billed[j] + Cardinality(MayBill(j)) + WaitingGrant(j) <= asked[j]

Inv == TypeOK /\ Structure
-----------------------------------------------------------------------------
\* What the record operations return.

LEMMA IdleTask == Idle \in Task
BY DEF Idle, Task

LEMMA JudgeTask ==
    ASSUME NEW t \in Task, NEW v \in Verdicts, NEW c \in BOOLEAN
    PROVE  /\ Judge(t, v, c) \in Task
           /\ Judge(t, v, c).job = t.job /\ Judge(t, v, c).kind = t.kind
           /\ Judge(t, v, c).pc = "settle" /\ Judge(t, v, c).verdict = v
           /\ Judge(t, v, c).attempt = t.attempt
BY DEF Judge, Task, Verdicts

LEMMA FailureVerdict ==
    ASSUME NEW t \in Task, NEW final \in BOOLEAN
    PROVE  /\ Failure(t, final) \in Verdicts
           /\ NoRetry(t.kind) => Failure(t, final) = "failed"
BY DEF Failure, LastAttempt, Verdicts

LEMMA HeardTask ==
    ASSUME NEW t \in Task, NEW r \in Row
    PROVE  /\ Heard(t, r) \in Task
           /\ Heard(t, r).job = t.job /\ Heard(t, r).kind = t.kind
           /\ Heard(t, r).pc = t.pc /\ Heard(t, r).verdict = t.verdict
           /\ Heard(t, r).bought = t.bought /\ Heard(t, r).attempt = t.attempt
BY DEF Heard, Task, Verdicts

LEMMA HandBackRow ==
    ASSUME NEW r \in Row, NEW b \in BOOLEAN
    PROVE  /\ HandBack(r, b) \in Row
           /\ HandBack(r, b).state = "queued" /\ HandBack(r, b).kind = r.kind
           /\ HandBack(r, b).project = r.project /\ HandBack(r, b).digest = r.digest
           /\ HandBack(r, b).keyed = r.keyed /\ HandBack(r, b).attempts = r.attempts
BY DEF HandBack, Row, Active, Terminal

LEMMA SettleRow ==
    ASSUME NEW r \in Row, NEW s \in Terminal
    PROVE  /\ Settle(r, s) \in Row
           /\ Settle(r, s).state = s /\ Settle(r, s).kind = r.kind
           /\ Settle(r, s).project = r.project /\ Settle(r, s).digest = r.digest
           /\ ~Settle(r, s).keyed /\ Settle(r, s).attempts = r.attempts
BY DEF Settle, Row, Active, Terminal

LEMMA GoneRow ==
    /\ Gone \in Row /\ Gone.state = "gone" /\ ~Gone.keyed
BY DEF Gone, Blank, Row, Active, Terminal

LEMMA RecordRow ==
    ASSUME NEW r \in Row, NEW v \in Verdicts
    PROVE  /\ Record(r, v) \in Row /\ Record(r, v).state \notin {"new", "gone"}
           /\ Record(r, v).kind = r.kind
           /\ Record(r, v).project = r.project /\ Record(r, v).digest = r.digest
           /\ Record(r, v).keyed => r.keyed /\ v = "requeue"
           /\ Record(r, v).attempts = r.attempts
           /\ Record(r, v).state = "queued" <=> v = "requeue"
<1>1. CASE v = "requeue"
  BY <1>1, HandBackRow DEF Record
<1>2. CASE v # "requeue"
  <2>1. v \in Terminal
    BY <1>2 DEF Verdicts, Terminal
  <2> QED BY <1>2, <2>1, SettleRow DEF Record, Terminal
<1> QED BY <1>1, <1>2

LEMMA ReapedRow ==
    ASSUME NEW r \in Row
    PROVE  /\ Reaped(r) \in Row /\ Reaped(r).state \notin {"new", "gone"}
           /\ Reaped(r).kind = r.kind
           /\ Reaped(r).project = r.project /\ Reaped(r).digest = r.digest
           /\ Reaped(r).keyed => r.keyed
           /\ Reaped(r).state # "queued" => ~Reaped(r).keyed
           /\ Reaped(r).attempts = r.attempts + 1
           /\ NoRetry(r.kind) => Reaped(r).state = "failed"
<1> DEFINE counted == [r EXCEPT !.attempts = @ + 1]
<1>1. counted \in Row /\ counted.kind = r.kind /\ counted.keyed = r.keyed
      /\ counted.project = r.project /\ counted.digest = r.digest
      /\ counted.attempts = r.attempts + 1
  BY DEF Row
<1>2. Reaped(r) = IF GivesUp(r) THEN Settle(counted, "failed") ELSE HandBack(counted, TRUE)
  BY DEF Reaped
<1> HIDE DEF counted
<1>3. CASE GivesUp(r)
  BY <1>1, <1>2, <1>3, SettleRow DEF Terminal
<1>4. CASE ~GivesUp(r)
  <2>1. ~NoRetry(r.kind)
    BY <1>4 DEF GivesUp
  <2> QED BY <1>1, <1>2, <1>4, <2>1, HandBackRow
<1> QED BY <1>3, <1>4

LEMMA BecomeTasks ==
    ASSUME TypeOK, NEW w \in Workers, NEW s \in Slots, NEW t \in Task, Become(w, s, t)
    PROVE  /\ tasks' \in [Workers -> [Slots -> Task]]
           /\ tasks'[w][s] = t
           /\ \A v \in Workers, u \in Slots : <<v, u>> # <<w, s>> => tasks'[v][u] = tasks[v][u]
BY DEF TypeOK, Become

LEMMA UpdateRows ==
    ASSUME TypeOK, NEW j \in Jobs, NEW r \in Row, Update(j, r)
    PROVE  /\ rows' \in [Jobs -> Row]
           /\ rows[j].state = "gone" => rows' = rows
           /\ rows[j].state # "gone" => rows'[j] = r
           /\ \A i \in Jobs : i # j => rows'[i] = rows[i]
BY DEF TypeOK, Update
-----------------------------------------------------------------------------
\* Type correctness and Structure.

\* How any step may change the rows: none is inserted or forgotten, a deleted
\* one stays deleted, and a job keeps its kind.
Evolves ==
    \A j \in Jobs : /\ rows[j].state = "new" <=> rows'[j].state = "new"
                    /\ rows[j].state = "new" => rows'[j] = rows[j]
                    /\ rows[j].state = "gone" => rows'[j].state = "gone"
                    /\ rows'[j].state = "gone" \/ rows'[j].kind = rows[j].kind

\* A step of one running task.
LEMMA TaskKeepsInv ==
    ASSUME Inv, NEW w \in Workers, NEW s \in Slots, NEW t \in Task, Become(w, s, t),
           tasks[w][s].pc # "idle", t.pc # "idle",
           t.job = tasks[w][s].job, t.kind = tasks[w][s].kind,
           t.pc \in {"settle", "write"} => t.verdict \in Verdicts,
           rows' \in [Jobs -> Row], Evolves, UNCHANGED <<project, drain, api, asked, runs>>,
           billed' \in [Jobs -> Nat], used' \in [Rare -> Nat],
           \A j \in Jobs : rows[j].state = "new" => billed'[j] = 0
    PROVE  Inv'
<1>1. /\ tasks' \in [Workers -> [Slots -> Task]]
      /\ tasks'[w][s] = t
      /\ \A v \in Workers, u \in Slots : <<v, u>> # <<w, s>> => tasks'[v][u] = tasks[v][u]
  BY BecomeTasks DEF Inv
<1>2. TypeOK'
  BY <1>1 DEF Inv, TypeOK
<1>3. ASSUME NEW v \in Workers, NEW u \in Slots
      PROVE  /\ (tasks'[v][u].pc = "idle") = (tasks[v][u].pc = "idle")
             /\ tasks'[v][u].job = tasks[v][u].job /\ tasks'[v][u].kind = tasks[v][u].kind
             /\ tasks'[v][u].pc = "idle" => tasks'[v][u] = tasks[v][u]
             /\ \/ tasks'[v][u] = tasks[v][u]
                \/ tasks'[v][u].pc \in {"settle", "write"} => tasks'[v][u].verdict \in Verdicts
  <2>1. CASE <<v, u>> = <<w, s>>
    BY <1>1, <2>1
  <2>2. CASE <<v, u>> # <<w, s>>
    BY <1>1, <2>2
  <2> QED BY <2>1, <2>2
<1>4. TaskLinks'
  BY <1>2, <1>3 DEF Inv, Structure, TaskLinks, Evolves
<1>5. DrainLinks'
  <2> SUFFICES ASSUME NEW v \in Workers
               PROVE  /\ \A u \in drain[v].open : tasks'[v][u].pc # "idle"
                      /\ drain[v].open \subseteq drain[v].todo
                      /\ drain[v].phase # "abandoning" => drain[v].open = {}
    BY DEF DrainLinks
  <2>1. drain[v].open \subseteq Slots
    BY DEF Inv, TypeOK, Drain
  <2> QED BY <1>3, <2>1 DEF Inv, Structure, DrainLinks
<1>6. ApiLinks'
  BY DEF Inv, Structure, ApiLinks, Evolves
<1>7. AskLinks'
  BY DEF Inv, Structure, AskLinks, Evolves
<1> QED BY <1>2, <1>4, <1>5, <1>6, <1>7 DEF Inv, Structure

\* A step of the database, an API request or a shutdown: no task changes.
LEMMA OthersKeepInv ==
    ASSUME Inv, UNCHANGED <<tasks, runs, billed>>,
           rows' \in [Jobs -> Row], Evolves,
           project' \in [Projects -> {"live", "dropped", "deleted"}],
           drain' \in [Workers -> Drain], api' \in [Clients -> Request],
           asked' \in [Jobs -> Nat], used' \in [Rare -> Nat],
           \A v \in Workers : /\ \A u \in drain'[v].open : tasks[v][u].pc # "idle"
                              /\ drain'[v].open \subseteq drain'[v].todo
                              /\ drain'[v].phase # "abandoning" => drain'[v].open = {},
           \A c \in Clients : api'[c].op # "none" => /\ api'[c].job \in Jobs
                                                     /\ rows[api'[c].job].state # "new",
           \A j \in Jobs : /\ rows[j].state = "new" => asked'[j] = 0
                           /\ asked'[j] >= asked[j]
    PROVE  Inv'
<1>1. TypeOK'
  BY DEF Inv, TypeOK
<1>2. TaskLinks'
  BY DEF Inv, Structure, TaskLinks, Evolves
<1>3. DrainLinks'
  BY DEF DrainLinks
<1>4. ApiLinks'
  BY DEF ApiLinks, Evolves
<1>5. AskLinks'
  BY DEF Inv, TypeOK, Structure, AskLinks, Evolves
<1> QED BY <1>1, <1>2, <1>3, <1>4, <1>5 DEF Inv, Structure

\* A slot whose task is over, and that no open abandon names, is freed.
LEMMA FreedKeepsInv ==
    ASSUME Inv, NEW w \in Workers, NEW s \in Slots, s \notin drain[w].open,
           Become(w, s, Idle),
           UNCHANGED <<rows, project, drain, api, asked, runs, billed, used>>
    PROVE  Inv'
<1>1. /\ tasks' \in [Workers -> [Slots -> Task]]
      /\ tasks'[w][s] = Idle
      /\ \A v \in Workers, u \in Slots : <<v, u>> # <<w, s>> => tasks'[v][u] = tasks[v][u]
  BY BecomeTasks, IdleTask DEF Inv
<1>2. TypeOK'
  BY <1>1 DEF Inv, TypeOK
<1>3. TaskLinks'
  BY <1>1 DEF Inv, Structure, TaskLinks, Idle
<1>4. DrainLinks'
  <2> SUFFICES ASSUME NEW v \in Workers, NEW u \in drain[v].open
               PROVE  tasks'[v][u].pc # "idle"
    BY DEF Inv, Structure, DrainLinks
  <2>1. u \in Slots
    BY DEF Inv, TypeOK, Drain
  <2> QED BY <1>1, <2>1 DEF Inv, Structure, DrainLinks
<1>5. ApiLinks' /\ AskLinks'
  BY DEF Inv, Structure, ApiLinks, AskLinks
<1> QED BY <1>2, <1>3, <1>4, <1>5 DEF Inv, Structure

LEMMA UsedTyped == ASSUME TypeOK, NEW r \in Rare, Happens(r) PROVE used' \in [Rare -> Nat]
BY DEF TypeOK, Happens

LEMMA SameRowsEvolve == ASSUME TypeOK, rows' = rows PROVE rows' \in [Jobs -> Row] /\ Evolves
BY DEF TypeOK, Evolves

\* An UPDATE of an inserted row to one of the same kind.
LEMMA UpdateEvolves ==
    ASSUME TypeOK, NEW j \in Jobs, NEW r \in Row, Update(j, r), rows[j].state # "new",
           r.state \notin {"new", "gone"}, r.kind = rows[j].kind
    PROVE  rows' \in [Jobs -> Row] /\ Evolves
BY UpdateRows DEF Evolves

LEMMA TaskStepKeepsInv ==
    ASSUME Inv, NEW w \in Workers, NEW s \in Slots, TaskStep(w, s)
    PROVE  Inv'
<1> DEFINE t == tasks[w][s]
<1>t. t \in Task /\ TypeOK
  BY DEF Inv, TypeOK
<1>b. billed \in [Jobs -> Nat] /\ used \in [Rare -> Nat] /\ \A j \in Jobs : rows[j].state = "new" => billed[j] = 0
  BY DEF Inv, TypeOK, Structure, AskLinks
<1>r. ASSUME t.pc # "idle"
      PROVE  /\ t.job \in Jobs /\ rows[t.job] \in Row /\ rows[t.job].state # "new"
  <2>1. t.job \in Jobs /\ rows[t.job].state # "new"
    BY <1>r DEF Inv, Structure, TaskLinks
  <2> QED BY <2>1 DEF Inv, TypeOK
<1>v. t.pc \in {"settle", "write"} => t.verdict \in Verdicts
  BY DEF Inv, Structure, TaskLinks
<1>1. CASE OutOfSpace(w, s)
  <2>1. PICK v \in Verdicts : Become(w, s, Judge(t, v, TRUE))
    BY <1>1 DEF OutOfSpace, Verdicts
  <2> QED BY <1>1, <1>t, <1>b, <2>1, JudgeTask, SameRowsEvolve, TaskKeepsInv DEF OutOfSpace
<1>2. CASE StartHandler(w, s)
  <2>1. [t EXCEPT !.pc = "work"] \in Task
    BY <1>t DEF Task
  <2> QED BY <1>2, <1>t, <1>b, <2>1, SameRowsEvolve, TaskKeepsInv DEF StartHandler, Task
<1>3. CASE Buy(w, s)
  <2>1. [t EXCEPT !.bought = TRUE] \in Task
    BY <1>t DEF Task
  <2>2. billed' \in [Jobs -> Nat] /\ \A j \in Jobs : rows[j].state = "new" => billed'[j] = 0
    BY <1>3, <1>b, <1>r DEF Buy
  <2> QED BY <1>3, <1>t, <1>b, <2>1, <2>2, SameRowsEvolve, TaskKeepsInv DEF Buy, Task
<1>4. CASE HandlerReturns(w, s)
  <2>1. (IF t.cancel THEN "canceled" ELSE "done") \in Verdicts
    BY DEF Verdicts
  <2> QED BY <1>4, <1>t, <1>b, <2>1, JudgeTask, SameRowsEvolve, TaskKeepsInv DEF HandlerReturns
<1>5. CASE HandlerCancelled(w, s)
  <2>1. "canceled" \in Verdicts
    BY DEF Verdicts
  <2> QED BY <1>5, <1>t, <1>b, <2>1, JudgeTask, SameRowsEvolve, TaskKeepsInv DEF HandlerCancelled
<1>6. CASE HandlerFails(w, s)
  <2>1. PICK v \in Verdicts : Become(w, s, Judge(t, v, TRUE))
    BY <1>6, <1>t, FailureVerdict DEF HandlerFails
  <2> QED BY <1>6, <1>t, <1>b, <2>1, JudgeTask, SameRowsEvolve, TaskKeepsInv DEF HandlerFails
<1>7. CASE SettleRead(w, s)
  <2>1. PICK c \in {"write", "end"} : Become(w, s, [t EXCEPT !.pc = c])
    BY <1>7 DEF SettleRead
  <2>2. [t EXCEPT !.pc = c] \in Task
    BY <1>t DEF Task
  <2> QED BY <1>7, <1>t, <1>b, <1>v, <2>1, <2>2, SameRowsEvolve, TaskKeepsInv DEF SettleRead, Task
<1>8. CASE SettleWrite(w, s)
  <2>1. /\ t.pc = "write" /\ Update(t.job, Record(rows[t.job], t.verdict))
        /\ Become(w, s, [t EXCEPT !.pc = "end"])
        /\ UNCHANGED <<project, drain, api, asked, runs, billed, used>>
    BY <1>8 DEF SettleWrite
  <2>2. [t EXCEPT !.pc = "end"] \in Task
    BY <1>t DEF Task
  <2>3. t.verdict \in Verdicts
    BY <2>1 DEF Inv, Structure, TaskLinks
  <2>4. rows' \in [Jobs -> Row] /\ Evolves
    BY <1>t, <1>r, <2>1, <2>3, RecordRow, UpdateEvolves
  <2> QED BY <1>t, <1>b, <2>1, <2>2, <2>4, TaskKeepsInv DEF Task
<1>9. CASE SettleFails(w, s)
  <2>1. /\ t.pc \in {"settle", "write"} /\ Happens("dberror")
        /\ UNCHANGED <<rows, project, drain, api, asked, runs, billed>>
        /\ \/ Become(w, s, [t EXCEPT !.pc = "end"])
           \/ Become(w, s, Judge(t, Failure(t, FALSE), TRUE))
    BY <1>9 DEF SettleFails
  <2>2. used' \in [Rare -> Nat]
    BY <1>t, <2>1, UsedTyped DEF Rare
  <2>3. CASE Become(w, s, [t EXCEPT !.pc = "end"])
    <3>1. [t EXCEPT !.pc = "end"] \in Task
      BY <1>t DEF Task
    <3> QED BY <1>t, <1>b, <2>1, <2>2, <2>3, <3>1, SameRowsEvolve, TaskKeepsInv DEF Task
  <2>4. CASE Become(w, s, Judge(t, Failure(t, FALSE), TRUE))
    BY <1>t, <1>b, <2>1, <2>2, <2>4, FailureVerdict, JudgeTask, SameRowsEvolve, TaskKeepsInv
  <2> QED BY <2>1, <2>3, <2>4
<1>10. CASE EndTask(w, s)
  <2>1. /\ t.pc = "end" /\ s \notin drain[w].open /\ Become(w, s, Idle)
        /\ UNCHANGED <<rows, project, drain, api, asked, runs, billed, used>>
    BY <1>10 DEF EndTask
  <2> QED BY <2>1, FreedKeepsInv, <1>t
<1>11. CASE BeatRead(w, s)
  <2>1. /\ t.pc \in {"start", "work", "settle", "write"}
        /\ Become(w, s, Heard(t, rows[t.job]))
        /\ UNCHANGED <<rows, project, drain, api, asked, runs, billed, used>>
    BY <1>11 DEF BeatRead
  <2>2. Heard(t, rows[t.job]) \in Task /\ Heard(t, rows[t.job]).job = t.job
        /\ Heard(t, rows[t.job]).kind = t.kind /\ Heard(t, rows[t.job]).pc = t.pc
        /\ Heard(t, rows[t.job]).verdict = t.verdict
    BY <1>t, <1>r, <2>1, HeardTask
  <2> QED BY <1>t, <1>b, <1>v, <2>1, <2>2, SameRowsEvolve, TaskKeepsInv
<1>12. CASE BeatWrite(w, s)
  <2> DEFINE u == [t EXCEPT !.beat = "no", !.cancel = @ \/ t.beat = "asked"]
             r == [rows[t.job] EXCEPT !.beat = "fresh"]
  <2>1. /\ t.beat # "no" /\ Become(w, s, u) /\ Update(t.job, r)
        /\ UNCHANGED <<project, drain, api, asked, runs, billed, used>>
    BY <1>12 DEF BeatWrite
  <2>2. t.pc # "idle"
    BY <2>1 DEF Inv, Structure, TaskLinks, Idle
  <2>3. u \in Task /\ u.pc = t.pc /\ u.job = t.job /\ u.kind = t.kind /\ u.verdict = t.verdict
    BY <1>t DEF Task
  <2>4. r \in Row /\ r.state = rows[t.job].state /\ r.kind = rows[t.job].kind
    BY <1>r, <2>2 DEF Row
  <2>5. rows' \in [Jobs -> Row] /\ Evolves
    <3>1. CASE rows[t.job].state = "gone"
      BY <1>t, <1>r, <2>1, <2>2, <2>4, <3>1, UpdateRows, SameRowsEvolve
    <3>2. CASE rows[t.job].state # "gone"
      BY <1>t, <1>r, <2>1, <2>2, <2>4, <3>2, UpdateEvolves
    <3> QED BY <3>1, <3>2
  <2> HIDE DEF u, r
  <2> QED BY <1>t, <1>b, <1>v, <2>1, <2>2, <2>3, <2>5, TaskKeepsInv
<1> QED BY <1>1, <1>2, <1>3, <1>4, <1>5, <1>6, <1>7, <1>8, <1>9, <1>10, <1>11, <1>12 DEF TaskStep

LEMMA ClaimKeepsInv ==
    ASSUME Inv, NEW w \in Workers, NEW s \in Slots, NEW j \in Jobs, Claim(w, s, j)
    PROVE  Inv'
<1>1. /\ rows[j] \in Row /\ TypeOK
  BY DEF Inv, TypeOK
<1>n. PICK n \in Nat : n = rows[j].attempts + 1
  BY <1>1 DEF Row
<1> DEFINE t == [Idle EXCEPT !.pc = "start", !.job = j, !.kind = rows[j].kind, !.attempt = n]
           r == [rows[j] EXCEPT !.state = "running", !.beat = "fresh", !.attempts = n]
<1>2. /\ rows[j].state = "queued" /\ tasks[w][s].pc = "idle" /\ drain[w].phase = "up"
      /\ Become(w, s, t) /\ rows' = [rows EXCEPT ![j] = r]
      /\ runs' = [runs EXCEPT ![j] = @ + 1]
      /\ UNCHANGED <<project, drain, api, asked, billed, used>>
  BY <1>1, <1>n DEF Claim, Claimable, Runnable, Become, TypeOK
<1>3. t \in Task /\ t.pc = "start" /\ t.job = j /\ t.kind = rows[j].kind
  <2>1. rows[j].kind \in KINDS \cup {"none"}
    BY <1>1 DEF Row
  <2> QED BY <2>1 DEF Task, Idle
<1>4. r \in Row /\ r.state = "running" /\ r.kind = rows[j].kind
  BY <1>1 DEF Row, Active
<1> HIDE DEF t, r
<1>5. rows' \in [Jobs -> Row] /\ rows'[j] = r /\ \A i \in Jobs : i # j => rows'[i] = rows[i]
  BY <1>1, <1>2, <1>4 DEF TypeOK
<1>6. Evolves
  BY <1>2, <1>4, <1>5 DEF Evolves
<1>7. /\ tasks' \in [Workers -> [Slots -> Task]]
      /\ tasks'[w][s] = t
      /\ \A v \in Workers, u \in Slots : <<v, u>> # <<w, s>> => tasks'[v][u] = tasks[v][u]
  BY <1>1, <1>2, <1>3, BecomeTasks
<1>8. TypeOK'
  BY <1>1, <1>2, <1>5, <1>7 DEF TypeOK
<1>9. TaskLinks'
  <2> SUFFICES ASSUME NEW v \in Workers, NEW u \in Slots
               PROVE  /\ tasks'[v][u].pc = "idle" => tasks'[v][u] = Idle
                      /\ tasks'[v][u].pc \in {"settle", "write"} => tasks'[v][u].verdict \in Verdicts
                      /\ tasks'[v][u].pc # "idle" =>
                           /\ tasks'[v][u].job \in Jobs
                           /\ rows'[tasks'[v][u].job].state # "new"
                           /\ \/ rows'[tasks'[v][u].job].state = "gone"
                              \/ rows'[tasks'[v][u].job].kind = tasks'[v][u].kind
    BY DEF TaskLinks
  <2>1. CASE <<v, u>> = <<w, s>>
    BY <1>3, <1>4, <1>5, <1>7, <2>1
  <2>2. CASE <<v, u>> # <<w, s>>
    BY <1>6, <1>7, <2>2 DEF Inv, Structure, TaskLinks, Evolves
  <2> QED BY <2>1, <2>2
<1>10. DrainLinks'
  <2> SUFFICES ASSUME NEW v \in Workers
               PROVE  /\ \A u \in drain[v].open : tasks'[v][u].pc # "idle"
                      /\ drain[v].open \subseteq drain[v].todo
                      /\ drain[v].phase # "abandoning" => drain[v].open = {}
    BY <1>2 DEF DrainLinks
  <2>1. drain[v].open \subseteq Slots
    BY DEF Inv, TypeOK, Drain
  <2> QED BY <1>3, <1>7, <2>1 DEF Inv, Structure, DrainLinks
<1>11. ApiLinks' /\ AskLinks'
  BY <1>2, <1>6 DEF Inv, Structure, ApiLinks, AskLinks, Evolves
<1> QED BY <1>8, <1>9, <1>10, <1>11 DEF Inv, Structure

LEMMA ReapKeepsInv == ASSUME Inv, Reap PROVE Inv'
<1>1. \A j \in Jobs : rows'[j] = IF Stale(rows[j]) THEN Reaped(rows[j]) ELSE rows[j]
  BY DEF Reap
<1>2. \A j \in Jobs : rows[j] \in Row
  BY DEF Inv, TypeOK
<1>3. ASSUME NEW j \in Jobs, Stale(rows[j])
      PROVE  /\ rows'[j] \in Row /\ rows'[j].state \notin {"new", "gone"}
             /\ rows'[j].kind = rows[j].kind
             /\ rows[j].state \notin {"new", "gone"}
  BY <1>1, <1>2, <1>3, ReapedRow DEF Stale
<1>4. rows' \in [Jobs -> Row]
  BY <1>1, <1>2, <1>3 DEF Reap
<1>5. Evolves
  BY <1>1, <1>3 DEF Evolves
<1>6. UNCHANGED <<project, tasks, drain, api, asked, runs, billed, used>>
  BY DEF Reap
<1> QED BY <1>4, <1>5, <1>6, OthersKeepInv DEF Inv, TypeOK, Structure, DrainLinks, ApiLinks, AskLinks

LEMMA TimerKeepsInv == ASSUME Inv, Timer PROVE Inv'
<1>1. PICK j \in Jobs : HeartbeatAges(j) \/ BackoffExpires(j) \/ PurgeOld(j)
  BY DEF Timer
<1>2. rows[j] \in Row /\ TypeOK
  BY DEF Inv, TypeOK
<1>3. PICK r \in Row : /\ rows' = [rows EXCEPT ![j] = r]
                       /\ rows[j].state # "new" /\ r.state # "new"
                       /\ rows[j].state = "gone" => r.state = "gone"
                       /\ r.state = "gone" \/ r.kind = rows[j].kind
  <2>1. CASE HeartbeatAges(j)
    <3>1. [rows[j] EXCEPT !.beat = "stale"] \in Row
      BY <1>2 DEF Row
    <3> QED BY <1>2, <2>1, <3>1 DEF HeartbeatAges, Row
  <2>2. CASE BackoffExpires(j)
    <3>1. [rows[j] EXCEPT !.wait = FALSE] \in Row
      BY <1>2 DEF Row
    <3>2. rows[j].state # "new"
      BY <2>2 DEF BackoffExpires, Inv, Structure, AskLinks, Blank
    <3> QED BY <1>2, <2>2, <3>1, <3>2 DEF BackoffExpires, Row
  <2>3. CASE PurgeOld(j)
    BY <2>3, GoneRow DEF PurgeOld, Terminal
  <2> QED BY <1>1, <2>1, <2>2, <2>3
<1>4. rows' \in [Jobs -> Row] /\ Evolves
  BY <1>2, <1>3 DEF TypeOK, Evolves
<1>5. UNCHANGED <<project, tasks, drain, api, asked, runs, billed>>
  BY <1>1 DEF HeartbeatAges, BackoffExpires, PurgeOld
<1>6. used' \in [Rare -> Nat]
  BY <1>1, <1>2, UsedTyped DEF HeartbeatAges, BackoffExpires, PurgeOld, TypeOK, Rare
<1> QED BY <1>4, <1>5, <1>6, OthersKeepInv DEF Inv, TypeOK, Structure, DrainLinks, ApiLinks, AskLinks

\* A step of a shutdown that only changes drain[w].
LEMMA DrainKeepsInv ==
    ASSUME Inv, NEW w \in Workers, NEW d \in Drain, drain' = [drain EXCEPT ![w] = d],
           \A u \in d.open : tasks[w][u].pc # "idle", d.open \subseteq d.todo,
           d.phase # "abandoning" => d.open = {},
           UNCHANGED <<project, tasks, api, asked, runs, billed>>,
           rows' \in [Jobs -> Row], Evolves, used' \in [Rare -> Nat]
    PROVE  Inv'
<1>1. drain' \in [Workers -> Drain] /\ drain'[w] = d
      /\ \A v \in Workers : v # w => drain'[v] = drain[v]
  BY DEF Inv, TypeOK
<1>2. \A v \in Workers : /\ \A u \in drain'[v].open : tasks[v][u].pc # "idle"
                         /\ drain'[v].open \subseteq drain'[v].todo
                         /\ drain'[v].phase # "abandoning" => drain'[v].open = {}
  BY <1>1 DEF Inv, Structure, DrainLinks
<1> QED BY <1>1, <1>2, OthersKeepInv DEF Inv, TypeOK, Structure, ApiLinks, AskLinks

LEMMA CrashKeepsInv == ASSUME Inv, NEW w \in Workers, Crash(w) PROVE Inv'
<1>1. /\ tasks' = [tasks EXCEPT ![w] = [s \in Slots |-> Idle]]
      /\ drain' = [drain EXCEPT ![w] = Up]
      /\ UNCHANGED <<rows, project, api, asked, runs, billed>>
      /\ used' \in [Rare -> Nat]
  BY UsedTyped DEF Crash, Rare, Inv
<1>2. Up \in Drain /\ Up.phase = "up" /\ Up.open = {}
  BY DEF Up, Drain
<1>3. /\ tasks' \in [Workers -> [Slots -> Task]] /\ drain' \in [Workers -> Drain]
      /\ \A s \in Slots : tasks'[w][s] = Idle
      /\ \A v \in Workers : v # w => tasks'[v] = tasks[v]
      /\ drain'[w] = Up
      /\ \A v \in Workers : v # w => drain'[v] = drain[v]
  BY <1>1, <1>2, IdleTask DEF Inv, TypeOK
<1>4. TypeOK'
  BY <1>1, <1>3 DEF Inv, TypeOK
<1>5. TaskLinks'
  BY <1>1, <1>3 DEF Inv, Structure, TaskLinks, Idle
<1>6. DrainLinks'
  BY <1>2, <1>3 DEF Inv, Structure, DrainLinks
<1>7. ApiLinks' /\ AskLinks'
  BY <1>1 DEF Inv, Structure, ApiLinks, AskLinks
<1> QED BY <1>4, <1>5, <1>6, <1>7 DEF Inv, Structure

LEMMA ShutdownStepKeepsInv == ASSUME Inv, NEW w \in Workers, ShutdownStep(w) PROVE Inv'
<1>t. /\ TypeOK /\ drain[w] \in Drain /\ used \in [Rare -> Nat]
      /\ rows \in [Jobs -> Row] /\ drain \in [Workers -> Drain]
      /\ \A u \in drain[w].open : tasks[w][u].pc # "idle"
      /\ drain[w].open \subseteq drain[w].todo
      /\ drain[w].phase # "abandoning" => drain[w].open = {}
  BY DEF Inv, TypeOK, Structure, DrainLinks
<1>1. CASE Sigterm(w)
  <2> DEFINE d == [drain[w] EXCEPT !.phase = "draining"]
  <2>1. d \in Drain /\ d.phase = "draining" /\ d.open = drain[w].open
    BY <1>t DEF Drain
  <2>2. used' \in [Rare -> Nat]
    BY <1>1, <1>t, UsedTyped DEF Sigterm, Rare
  <2>3. drain' = [drain EXCEPT ![w] = d] /\ drain[w].phase = "up"
        /\ UNCHANGED <<rows, project, tasks, api, asked, runs, billed>>
    BY <1>1, <1>t DEF Sigterm
  <2>4. d.open = {}
    BY <1>t, <2>1, <2>3
  <2> HIDE DEF d
  <2> QED BY <1>t, <2>1, <2>2, <2>3, <2>4, SameRowsEvolve, DrainKeepsInv
<1>2. CASE GraceEnds(w)
  <2> DEFINE d == [phase |-> "abandoning", todo |-> Running(w), open |-> {}]
  <2>1. d \in Drain /\ d.open = {}
    BY DEF Drain, Running
  <2> QED BY <1>2, <1>t, <2>1, SameRowsEvolve, DrainKeepsInv DEF GraceEnds
<1>3. CASE AbandonFails(w)
  <2> DEFINE d == [phase |-> "leaving", todo |-> {}, open |-> {}]
  <2>1. d \in Drain /\ d.open = {}
    BY DEF Drain
  <2>2. used' \in [Rare -> Nat]
    BY <1>3, <1>t, UsedTyped DEF AbandonFails, Rare
  <2> QED BY <1>3, <1>t, <2>1, <2>2, SameRowsEvolve, DrainKeepsInv DEF AbandonFails
<1>4. CASE Abandoned(w)
  <2> DEFINE d == [drain[w] EXCEPT !.phase = "leaving"]
  <2>1. d \in Drain /\ d.open = drain[w].open
    BY <1>t DEF Drain
  <2>2. /\ drain' = [drain EXCEPT ![w] = d] /\ drain[w].open = {}
        /\ UNCHANGED <<rows, project, tasks, api, asked, runs, billed, used>>
    BY <1>4, <1>t DEF Abandoned
  <2> HIDE DEF d
  <2> QED BY <1>t, <2>1, <2>2, SameRowsEvolve, DrainKeepsInv
<1>5. CASE Exit(w)
  <2>1. Up \in Drain /\ Up.open = {} /\ Up.todo = {}
    BY DEF Drain, Up
  <2> QED BY <1>5, <1>t, <2>1, SameRowsEvolve, DrainKeepsInv DEF Exit
<1>6. CASE Crash(w)
  BY <1>6, CrashKeepsInv
<1>7. ASSUME NEW s \in Slots, AbandonRead(w, s)
      PROVE  Inv'
  <2>1. /\ drain[w].phase = "abandoning" /\ s \in drain[w].todo /\ drain[w].open = {}
        /\ UNCHANGED <<rows, project, tasks, api, asked, runs, billed, used>>
    BY <1>7 DEF AbandonRead
  <2>2. CASE tasks[w][s].pc # "idle" /\ Ours(rows[tasks[w][s].job], tasks[w][s].attempt)
    <3> DEFINE d == [drain[w] EXCEPT !.open = {s}]
    <3>1. d \in Drain /\ d.phase = drain[w].phase /\ d.open = {s} /\ d.todo = drain[w].todo
      BY <1>t DEF Drain
    <3>2. drain' = [drain EXCEPT ![w] = d]
      BY <1>7, <1>t, <2>2 DEF AbandonRead
    <3> HIDE DEF d
    <3> QED BY <1>t, <2>1, <2>2, <3>1, <3>2, SameRowsEvolve, DrainKeepsInv
  <2>3. CASE ~(tasks[w][s].pc # "idle" /\ Ours(rows[tasks[w][s].job], tasks[w][s].attempt))
    <3> DEFINE d == [drain[w] EXCEPT !.todo = drain[w].todo \ {s}]
    <3>1. d \in Drain /\ d.phase = drain[w].phase /\ d.open = drain[w].open
      BY <1>t DEF Drain
    <3>2. drain' = [drain EXCEPT ![w] = d]
      BY <1>7, <1>t, <2>3 DEF AbandonRead
    <3> HIDE DEF d
    <3> QED BY <1>t, <2>1, <3>1, <3>2, SameRowsEvolve, DrainKeepsInv
  <2> QED BY <2>2, <2>3
<1>8. ASSUME NEW s \in Slots, AbandonWrite(w, s)
      PROVE  Inv'
  <2> DEFINE t == tasks[w][s]
             r == rows[t.job]
             q == IF LastAttempt(t) THEN Settle(r, "failed") ELSE HandBack(r, FALSE)
             d == [drain[w] EXCEPT !.open = {}, !.todo = drain[w].todo \ {s}]
  <2>1. /\ s \in drain[w].open /\ Update(t.job, q)
        /\ drain' = [drain EXCEPT ![w] = d]
        /\ UNCHANGED <<project, tasks, api, asked, runs, billed, used>>
    BY <1>8, <1>t DEF AbandonWrite
  <2>2. t.job \in Jobs /\ r \in Row /\ r.state # "new"
    BY <1>t, <2>1 DEF Inv, Structure, TaskLinks
  <2>3. q \in Row /\ q.state \notin {"new", "gone"} /\ q.kind = r.kind
    BY <2>2, SettleRow, HandBackRow DEF Terminal
  <2>4. rows' \in [Jobs -> Row] /\ Evolves
    BY <1>t, <2>1, <2>2, <2>3, UpdateEvolves
  <2>5. d \in Drain /\ d.open = {}
    BY <1>t DEF Drain
  <2> HIDE DEF d
  <2> QED BY <1>t, <2>1, <2>4, <2>5, DrainKeepsInv
<1>9. ASSUME NEW s \in Slots, CancelTask(w, s)
      PROVE  Inv'
  <2>t. tasks[w][s] \in Task
    BY <1>t DEF TypeOK
  <2>1. [tasks[w][s] EXCEPT !.pc = "end"] \in Task
    BY <2>t DEF Task
  <2>2. billed \in [Jobs -> Nat] /\ \A j \in Jobs : rows[j].state = "new" => billed[j] = 0
    BY <1>t DEF TypeOK, Inv, Structure, AskLinks
  <2> QED BY <1>9, <1>t, <2>1, <2>2, <2>t, SameRowsEvolve, TaskKeepsInv DEF CancelTask, Task
<1> QED BY <1>1, <1>2, <1>3, <1>4, <1>5, <1>6, <1>7, <1>8, <1>9 DEF ShutdownStep

LEMMA EnqueueKeepsInv ==
    ASSUME Inv, NEW j \in Jobs, NEW p \in Projects, NEW k \in Kinds,
           NEW d \in Digests \cup {"none"}, Enqueue(j, p, k, d)
    PROVE  Inv'
<1> DEFINE r == [Blank EXCEPT !.state = "queued", !.keyed = TRUE,
                              !.kind = k, !.project = p, !.digest = d]
<1>1. /\ rows[j].state = "new" /\ rows' = [rows EXCEPT ![j] = r]
      /\ asked' = [asked EXCEPT ![j] = 1]
      /\ UNCHANGED <<project, tasks, drain, api, runs, billed, used>>
  BY DEF Enqueue
<1>2. r \in Row /\ r.state = "queued"
  BY QueueAssumption DEF Row, Blank, Active
<1> HIDE DEF r
<1>3. /\ rows' \in [Jobs -> Row] /\ rows'[j] = r
      /\ \A i \in Jobs : i # j => rows'[i] = rows[i]
  BY <1>1, <1>2 DEF Inv, TypeOK
<1>4. /\ asked' \in [Jobs -> Nat] /\ asked'[j] = 1
      /\ \A i \in Jobs : i # j => asked'[i] = asked[i]
  BY <1>1 DEF Inv, TypeOK
<1>5. TypeOK'
  BY <1>1, <1>3, <1>4 DEF Inv, TypeOK
<1>6. TaskLinks'
  BY <1>1, <1>2, <1>3 DEF Inv, Structure, TaskLinks
<1>7. DrainLinks'
  BY <1>1 DEF Inv, Structure, DrainLinks
<1>8. ApiLinks'
  BY <1>1, <1>2, <1>3 DEF Inv, Structure, ApiLinks
<1>9. AskLinks'
  BY <1>1, <1>2, <1>3, <1>4 DEF Inv, Structure, AskLinks
<1> QED BY <1>5, <1>6, <1>7, <1>8, <1>9 DEF Inv, Structure

\* A step of an API request or of the deletion of a project.
LEMMA ApiKeepsInv ==
    ASSUME Inv, UNCHANGED <<tasks, drain, runs, billed>>,
           rows' \in [Jobs -> Row], Evolves,
           project' \in [Projects -> {"live", "dropped", "deleted"}],
           api' \in [Clients -> Request],
           \A c \in Clients : api'[c].op # "none" => /\ api'[c].job \in Jobs
                                                     /\ rows[api'[c].job].state # "new",
           asked' \in [Jobs -> Nat], used' \in [Rare -> Nat],
           \A j \in Jobs : /\ rows[j].state = "new" => asked'[j] = 0
                           /\ asked'[j] >= asked[j]
    PROVE  Inv'
BY OthersKeepInv DEF Inv, TypeOK, Structure, DrainLinks

LEMMA ReadKeepsInv ==
    ASSUME Inv, NEW c \in Clients, NEW j \in Jobs, CancelRead(c, j) \/ RetryRead(c, j)
    PROVE  Inv'
<1>1. rows[j] \in Row /\ TypeOK /\ rows[j].state # "new"
  BY DEF Inv, TypeOK, CancelRead, RetryRead, Active
<1>2. PICK q \in Request : api' = [api EXCEPT ![c] = q] /\ q.job = j
  <2>1. CASE CancelRead(c, j)
    <3> DEFINE q == [op |-> "cancel", job |-> j, state |-> rows[j].state,
                     attempts |-> rows[j].attempts]
    <3>1. q \in Request
      BY <1>1, <2>1 DEF CancelRead, Request, Row, Active
    <3> QED BY <2>1, <3>1 DEF CancelRead
  <2>2. CASE RetryRead(c, j)
    <3> DEFINE q == [op |-> "retry", job |-> j, state |-> rows[j].state,
                     attempts |-> rows[j].attempts]
    <3>1. q \in Request
      BY <1>1, <2>2 DEF RetryRead, Request, Row
    <3> QED BY <2>2, <3>1 DEF RetryRead
  <2> QED BY <2>1, <2>2
<1>3. UNCHANGED <<rows, project, tasks, drain, asked, runs, billed>> /\ used' \in [Rare -> Nat]
  BY <1>1, UsedTyped DEF CancelRead, RetryRead, Rare
<1>4. api' \in [Clients -> Request] /\ api'[c] = q /\ \A b \in Clients : b # c => api'[b] = api[b]
  BY <1>1, <1>2 DEF TypeOK
<1>5. \A b \in Clients : api'[b].op # "none" => /\ api'[b].job \in Jobs
                                                /\ rows[api'[b].job].state # "new"
  BY <1>1, <1>2, <1>4 DEF Inv, Structure, ApiLinks
<1>6. /\ asked \in [Jobs -> Nat] /\ project \in [Projects -> {"live", "dropped", "deleted"}]
      /\ \A i \in Jobs : rows[i].state = "new" => asked[i] = 0
  BY DEF Inv, TypeOK, Structure, AskLinks
<1> QED BY <1>1, <1>3, <1>4, <1>5, <1>6, SameRowsEvolve, ApiKeepsInv

LEMMA WriteKeepsInv ==
    ASSUME Inv, NEW c \in Clients, CancelWrite(c) \/ RetryWrite(c)
    PROVE  Inv'
<1> DEFINE j == api[c].job
<1>1. j \in Jobs /\ rows[j] \in Row /\ rows[j].state # "new" /\ TypeOK
  <2>1. api[c].op # "none"
    BY DEF CancelWrite, RetryWrite
  <2> QED BY <2>1 DEF Inv, TypeOK, Structure, ApiLinks
<1>2. PICK q \in Row : /\ Update(j, q) /\ q.kind = rows[j].kind
                       /\ rows[j].state # "gone" => q.state \notin {"new", "gone"}
  <2>1. CASE CancelWrite(c)
    <3> DEFINE r == [rows[j] EXCEPT !.cancel = TRUE]
               q == IF api[c].state = "queued" THEN Settle(r, "canceled") ELSE r
    <3>1. r \in Row /\ r.kind = rows[j].kind /\ r.state = rows[j].state
      BY <1>1 DEF Row
    <3>2. q \in Row /\ q.kind = r.kind /\ (q.state = r.state \/ q.state = "canceled")
      BY <3>1, SettleRow DEF Terminal
    <3>3. Update(j, q)
      BY <2>1 DEF CancelWrite
    <3> HIDE DEF q, r
    <3> QED BY <1>1, <3>1, <3>2, <3>3
  <2>2. CASE RetryWrite(c)
    <3> DEFINE h == HandBack(rows[j], FALSE)
               q == [h EXCEPT !.attempts = IF api[c].attempts = 0 THEN @ ELSE 0,
                              !.cancel = FALSE]
    <3>1. h \in Row /\ h.kind = rows[j].kind /\ h.state = "queued"
      BY <1>1, HandBackRow
    <3>2. Update(j, q)
      BY <2>2 DEF RetryWrite
    <3> HIDE DEF h
    <3>3. q \in Row /\ q.kind = h.kind /\ q.state = "queued"
      BY <3>1 DEF Row
    <3> HIDE DEF q
    <3> QED BY <3>1, <3>2, <3>3
  <2> QED BY <2>1, <2>2
<1>3. rows' \in [Jobs -> Row] /\ Evolves
  <2>1. CASE rows[j].state = "gone"
    BY <1>1, <1>2, <2>1, UpdateRows, SameRowsEvolve
  <2>2. CASE rows[j].state # "gone"
    BY <1>1, <1>2, <2>2, UpdateEvolves
  <2> QED BY <2>1, <2>2
<1>4. /\ UNCHANGED <<project, tasks, drain, runs, billed, used>>
      /\ api' = [api EXCEPT ![c] = Free]
      /\ asked' = asked \/ asked' = [asked EXCEPT ![j] = @ + 1]
  BY DEF CancelWrite, RetryWrite, Respond
<1>5. Free \in Request /\ Free.op = "none"
  BY DEF Free, Request
<1>6. api' \in [Clients -> Request] /\ api'[c] = Free /\ \A b \in Clients : b # c => api'[b] = api[b]
  BY <1>1, <1>4, <1>5 DEF TypeOK
<1>7. \A b \in Clients : api'[b].op # "none" => /\ api'[b].job \in Jobs
                                                /\ rows[api'[b].job].state # "new"
  BY <1>5, <1>6 DEF Inv, Structure, ApiLinks
<1>8. /\ asked' \in [Jobs -> Nat]
      /\ \A i \in Jobs : /\ rows[i].state = "new" => asked'[i] = 0
                         /\ asked'[i] >= asked[i]
  BY <1>1, <1>4 DEF Inv, TypeOK, Structure, AskLinks
<1> QED BY <1>1, <1>3, <1>4, <1>6, <1>7, <1>8, ApiKeepsInv DEF TypeOK

LEMMA ProjectStepKeepsInv ==
    ASSUME Inv, NEW p \in Projects, DropProjectJobs(p) \/ DeleteProject(p)
    PROVE  Inv'
<1>1. TypeOK
  BY DEF Inv
<1>2. rows' \in [Jobs -> Row] /\ Evolves
  <2>1. CASE DropProjectJobs(p)
    <3>1. \A j \in Jobs : rows'[j] = IF rows[j].project = p /\ rows[j].state = "queued"
                                     THEN Settle(rows[j], "canceled") ELSE rows[j]
      BY <2>1 DEF DropProjectJobs
    <3>2. ASSUME NEW j \in Jobs, rows[j].state = "queued"
          PROVE  /\ Settle(rows[j], "canceled") \in Row
                 /\ Settle(rows[j], "canceled").kind = rows[j].kind
                 /\ Settle(rows[j], "canceled").state = "canceled"
      BY <1>1, SettleRow DEF TypeOK, Terminal
    <3>3. rows' \in [Jobs -> Row]
      BY <1>1, <2>1, <3>1, <3>2 DEF DropProjectJobs, TypeOK
    <3> QED BY <3>1, <3>2, <3>3 DEF Evolves
  <2>2. CASE DeleteProject(p)
    <3>1. \A j \in Jobs : rows'[j] = IF rows[j].project = p THEN Gone ELSE rows[j]
      BY <2>2 DEF DeleteProject
    <3>2. rows' \in [Jobs -> Row]
      BY <1>1, <2>2, GoneRow DEF DeleteProject, TypeOK
    <3>3. \A j \in Jobs : rows[j].state = "new" => rows[j].project # p
      BY QueueAssumption DEF Inv, Structure, AskLinks, Blank
    <3> QED BY <3>1, <3>2, <3>3, GoneRow DEF Evolves
  <2> QED BY <2>1, <2>2
<1>3. /\ project' \in [Projects -> {"live", "dropped", "deleted"}]
      /\ used' \in [Rare -> Nat]
      /\ UNCHANGED <<tasks, drain, api, asked, runs, billed>>
  BY <1>1, UsedTyped DEF DropProjectJobs, DeleteProject, TypeOK, Rare
<1>4. /\ api \in [Clients -> Request] /\ asked \in [Jobs -> Nat]
      /\ \A c \in Clients : api[c].op # "none" => /\ api[c].job \in Jobs
                                                  /\ rows[api[c].job].state # "new"
      /\ \A j \in Jobs : rows[j].state = "new" => asked[j] = 0
  BY DEF Inv, TypeOK, Structure, ApiLinks, AskLinks
<1> QED BY <1>2, <1>3, <1>4, ApiKeepsInv

LEMMA StepKeepsInv == Inv /\ [Next]_vars => Inv'
<1> SUFFICES ASSUME Inv, [Next]_vars PROVE Inv'
  OBVIOUS
<1>1. CASE UNCHANGED vars
  BY <1>1 DEF vars, Inv, TypeOK, Structure, TaskLinks, DrainLinks, ApiLinks, AskLinks
<1>2. ASSUME NEW w \in Workers, WorkerStep(w) PROVE Inv'
  BY <1>2, ClaimKeepsInv, TaskStepKeepsInv, ShutdownStepKeepsInv DEF WorkerStep
<1>3. CASE ApiStep
  BY <1>3, EnqueueKeepsInv, ReadKeepsInv, WriteKeepsInv, ProjectStepKeepsInv DEF ApiStep
<1> QED BY <1>1, <1>2, <1>3, ReapKeepsInv, TimerKeepsInv DEF Next

LEMMA InitInv == Init => Inv
<1> SUFFICES ASSUME Init PROVE Inv
  OBVIOUS
<1>1. /\ Blank \in Row /\ Blank.state = "new" /\ Idle.pc = "idle"
      /\ Up \in Drain /\ Up.open = {} /\ Up.todo = {}
      /\ Free \in Request /\ Free.op = "none"
  BY DEF Blank, Row, Idle, Up, Drain, Free, Request
<1>2. TypeOK
  BY <1>1, IdleTask DEF Init, TypeOK
<1>3. Structure
  BY <1>1 DEF Init, Structure, TaskLinks, DrainLinks, ApiLinks, AskLinks
<1> QED BY <1>2, <1>3 DEF Inv

LEMMA SpecInv == Spec => []Inv
BY InitInv, StepKeepsInv, PTL DEF Spec

\* The queue's state is always well formed: the columns of a row, the fields
\* of a task, a shutdown and a request have the values the code gives them.
THEOREM TypeCorrect == Spec => []TypeOK
<1>1. Inv => TypeOK
  BY DEF Inv
<1> QED BY <1>1, SpecInv, PTL
-----------------------------------------------------------------------------
\* The dedupe key.

LEMMA KeysInit == Init => KeyHeldByLiveJob
BY DEF Init, KeyHeldByLiveJob, Blank

\* What a step other than an enqueue does to the key of a row: the row does
\* not get one, and keeps the one it has only while it is active.
KeyKept(r, q) == q.keyed => /\ r.keyed /\ q.state \in Active
                            /\ SameKey(q, r.kind, r.project, r.digest)

LEMMA NoNewKey ==
    ASSUME Inv, KeyHeldByLiveJob, \A j \in Jobs : KeyKept(rows[j], rows'[j])
    PROVE  KeyHeldByLiveJob'
BY DEF KeyHeldByLiveJob, SameKey, KeyKept

LEMMA SettleKey == ASSUME NEW r \in Row, NEW s \in Terminal PROVE KeyKept(r, Settle(r, s))
BY SettleRow DEF KeyKept

LEMMA HandBackKey == ASSUME NEW r \in Row, NEW b \in BOOLEAN PROVE KeyKept(r, HandBack(r, b))
BY HandBackRow DEF KeyKept, SameKey, Active

LEMMA GoneKey == ASSUME NEW r PROVE KeyKept(r, Gone)
BY GoneRow DEF KeyKept

\* An UPDATE of one row keeps the keys when it keeps that row's.
LEMMA UpdateKeepsKeys ==
    ASSUME Inv, KeyHeldByLiveJob, NEW j \in Jobs, NEW q \in Row, Update(j, q),
           rows[j].state # "gone" => KeyKept(rows[j], q)
    PROVE  KeyHeldByLiveJob'
<1>1. \A i \in Jobs : KeyKept(rows[i], rows[i])
  BY DEF KeyKept, KeyHeldByLiveJob, SameKey
<1>2. \A i \in Jobs : KeyKept(rows[i], rows'[i])
  BY <1>1 DEF Update, Inv, TypeOK
<1> QED BY <1>2, NoNewKey

LEMMA SameRowsKeepKeys == ASSUME KeyHeldByLiveJob, rows' = rows PROVE KeyHeldByLiveJob'
BY DEF KeyHeldByLiveJob

LEMMA EnqueueKeepsKeys ==
    ASSUME Inv, KeyHeldByLiveJob, NEW j \in Jobs, NEW p \in Projects, NEW k \in Kinds,
           NEW d \in Digests \cup {"none"}, Enqueue(j, p, k, d)
    PROVE  KeyHeldByLiveJob'
<1> DEFINE r == [Blank EXCEPT !.state = "queued", !.keyed = TRUE,
                              !.kind = k, !.project = p, !.digest = d]
<1>1. /\ rows' = [rows EXCEPT ![j] = r]
      /\ \A i \in Jobs : ~(rows[i].keyed /\ SameKey(rows[i], k, p, d))
  BY DEF Enqueue
<1>2. r.state \in Active /\ r.kind = k /\ r.project = p /\ r.digest = d
  BY DEF Blank, Active
<1> HIDE DEF r
<1>3. rows'[j] = r /\ \A i \in Jobs : i # j => rows'[i] = rows[i]
  BY <1>1 DEF Inv, TypeOK
<1>4. \A i \in Jobs : rows'[i].keyed => rows'[i].state \in Active
  BY <1>2, <1>3 DEF KeyHeldByLiveJob
<1>5. ASSUME NEW i1 \in Jobs, NEW i2 \in Jobs, rows'[i1].keyed, rows'[i2].keyed,
             SameKey(rows'[i1], rows'[i2].kind, rows'[i2].project, rows'[i2].digest)
      PROVE  i1 = i2
  BY <1>1, <1>2, <1>3, <1>5 DEF KeyHeldByLiveJob, SameKey
<1> QED BY <1>4, <1>5 DEF KeyHeldByLiveJob

LEMMA TaskStepKeepsKeys ==
    ASSUME Inv, KeyHeldByLiveJob, NEW w \in Workers, NEW s \in Slots, TaskStep(w, s)
    PROVE  KeyHeldByLiveJob'
<1> DEFINE t == tasks[w][s]
<1>1. CASE SettleWrite(w, s)
  <2>1. t.pc = "write" /\ Update(t.job, Record(rows[t.job], t.verdict))
    BY <1>1 DEF SettleWrite
  <2>2. t.job \in Jobs /\ rows[t.job] \in Row /\ t.verdict \in Verdicts
    BY <2>1 DEF Inv, TypeOK, Structure, TaskLinks
  <2>3. KeyKept(rows[t.job], Record(rows[t.job], t.verdict))
    <3>1. CASE t.verdict = "requeue"
      BY <2>2, <3>1, HandBackKey DEF Record
    <3>2. CASE t.verdict # "requeue"
      <4>1. t.verdict \in Terminal
        BY <2>2, <3>2 DEF Verdicts, Terminal
      <4> QED BY <2>2, <3>2, <4>1, SettleKey DEF Record
    <3> QED BY <3>1, <3>2
  <2> QED BY <2>1, <2>2, <2>3, RecordRow, UpdateKeepsKeys
<1>2. CASE BeatWrite(w, s)
  <2> DEFINE r == [rows[t.job] EXCEPT !.beat = "fresh"]
  <2>1. t.beat # "no" /\ Update(t.job, r)
    BY <1>2 DEF BeatWrite
  <2>p. t.pc # "idle"
    BY <2>1 DEF Inv, Structure, TaskLinks, Idle
  <2>2. t.job \in Jobs /\ rows[t.job] \in Row
    BY <2>p DEF Inv, TypeOK, Structure, TaskLinks
  <2>3. /\ r \in Row /\ r.state = rows[t.job].state /\ r.kind = rows[t.job].kind
        /\ r.project = rows[t.job].project /\ r.digest = rows[t.job].digest
        /\ r.keyed = rows[t.job].keyed
    BY <2>2 DEF Row
  <2> HIDE DEF r
  <2>4. KeyKept(rows[t.job], r)
    BY <2>2, <2>3 DEF KeyKept, KeyHeldByLiveJob, SameKey
  <2> QED BY <2>1, <2>2, <2>3, <2>4, UpdateKeepsKeys
<1>3. CASE rows' = rows
  BY <1>3, SameRowsKeepKeys
<1> QED BY <1>1, <1>2, <1>3 DEF TaskStep, OutOfSpace, StartHandler, Buy, HandlerReturns,
        HandlerCancelled, HandlerFails, SettleRead, SettleFails, EndTask, BeatRead

LEMMA ShutdownStepKeepsKeys ==
    ASSUME Inv, KeyHeldByLiveJob, NEW w \in Workers, ShutdownStep(w)
    PROVE  KeyHeldByLiveJob'
<1>1. ASSUME NEW s \in Slots, AbandonWrite(w, s)
      PROVE  KeyHeldByLiveJob'
  <2> DEFINE t == tasks[w][s]
             r == rows[t.job]
             q == IF LastAttempt(t) THEN Settle(r, "failed") ELSE HandBack(r, FALSE)
  <2>1. s \in drain[w].open /\ Update(t.job, q)
    BY <1>1 DEF AbandonWrite
  <2>2. t.job \in Jobs /\ r \in Row
    BY <2>1 DEF Inv, TypeOK, Structure, TaskLinks, DrainLinks
  <2>3. q \in Row /\ KeyKept(r, q)
    BY <2>2, SettleRow, HandBackRow, SettleKey, HandBackKey DEF Terminal
  <2> HIDE DEF q
  <2> QED BY <2>1, <2>2, <2>3, UpdateKeepsKeys
<1>2. CASE rows' = rows
  BY <1>2, SameRowsKeepKeys
<1> QED BY <1>1, <1>2 DEF ShutdownStep, Sigterm, GraceEnds, AbandonFails, Abandoned, Exit,
        Crash, AbandonRead, CancelTask

LEMMA ApiStepKeepsKeys ==
    ASSUME Inv, KeyHeldByLiveJob, ApiStep
    PROVE  KeyHeldByLiveJob'
<1>0. \A j \in Jobs : rows[j] \in Row /\ KeyKept(rows[j], rows[j])
  BY DEF Inv, TypeOK, KeyKept, KeyHeldByLiveJob, SameKey
<1>j. ASSUME NEW c \in Clients, api[c].op # "none" PROVE api[c].job \in Jobs
  BY <1>j DEF Inv, Structure, ApiLinks
<1>1. ASSUME NEW c \in Clients, CancelWrite(c)
      PROVE  KeyHeldByLiveJob'
  <2> DEFINE j == api[c].job
             r == [rows[j] EXCEPT !.cancel = TRUE]
             q == IF api[c].state = "queued" THEN Settle(r, "canceled") ELSE r
  <2>1. j \in Jobs /\ Update(j, q)
    BY <1>1, <1>j DEF CancelWrite
  <2>2. /\ r \in Row /\ r.state = rows[j].state /\ r.kind = rows[j].kind
        /\ r.project = rows[j].project /\ r.digest = rows[j].digest /\ r.keyed = rows[j].keyed
    BY <1>0, <2>1 DEF Row
  <2> HIDE DEF r
  <2>3. q \in Row /\ KeyKept(r, Settle(r, "canceled"))
    BY <2>2, SettleRow, SettleKey DEF Terminal
  <2>4. KeyKept(rows[j], q)
    BY <1>0, <2>1, <2>2, <2>3 DEF KeyKept, SameKey
  <2> HIDE DEF q
  <2> QED BY <2>1, <2>3, <2>4, UpdateKeepsKeys
<1>2. ASSUME NEW c \in Clients, RetryWrite(c)
      PROVE  KeyHeldByLiveJob'
  <2> DEFINE j == api[c].job
             h == HandBack(rows[j], FALSE)
             q == [h EXCEPT !.attempts = IF api[c].attempts = 0 THEN @ ELSE 0,
                            !.cancel = FALSE]
  <2>1. j \in Jobs /\ Update(j, q)
    BY <1>2, <1>j DEF RetryWrite
  <2>2. h \in Row /\ KeyKept(rows[j], h)
    BY <1>0, <2>1, HandBackRow, HandBackKey
  <2> HIDE DEF h
  <2>3. /\ q \in Row /\ q.state = h.state /\ q.kind = h.kind
        /\ q.project = h.project /\ q.digest = h.digest /\ q.keyed = h.keyed
    BY <2>2 DEF Row
  <2> HIDE DEF q
  <2>4. KeyKept(rows[j], q)
    BY <2>2, <2>3 DEF KeyKept, SameKey
  <2> QED BY <2>1, <2>3, <2>4, UpdateKeepsKeys
<1>3. ASSUME NEW p \in Projects, DropProjectJobs(p) \/ DeleteProject(p)
      PROVE  KeyHeldByLiveJob'
  <2>1. \A j \in Jobs : KeyKept(rows[j], Settle(rows[j], "canceled")) /\ KeyKept(rows[j], Gone)
    BY <1>0, SettleKey, GoneKey DEF Terminal
  <2>2. \A j \in Jobs : KeyKept(rows[j], rows'[j])
    BY <1>0, <1>3, <2>1 DEF DropProjectJobs, DeleteProject
  <2> QED BY <2>2, NoNewKey
<1>4. ASSUME NEW c \in Clients, NEW j \in Jobs, CancelRead(c, j) \/ RetryRead(c, j)
      PROVE  KeyHeldByLiveJob'
  BY <1>4, SameRowsKeepKeys DEF CancelRead, RetryRead
<1> QED BY <1>1, <1>2, <1>3, <1>4, EnqueueKeepsKeys DEF ApiStep

LEMMA ClockStepKeepsKeys ==
    ASSUME Inv, KeyHeldByLiveJob, Reap \/ Timer
    PROVE  KeyHeldByLiveJob'
<1>0. \A j \in Jobs : rows[j] \in Row /\ KeyKept(rows[j], rows[j])
  BY DEF Inv, TypeOK, KeyKept, KeyHeldByLiveJob, SameKey
<1>1. CASE Reap
  <2>1. ASSUME NEW j \in Jobs PROVE KeyKept(rows[j], Reaped(rows[j]))
    BY <1>0, ReapedRow DEF KeyKept, SameKey, Active
  <2>2. \A j \in Jobs : KeyKept(rows[j], rows'[j])
    BY <1>0, <1>1, <2>1 DEF Reap
  <2> QED BY <2>2, NoNewKey
<1>2. CASE Timer
  <2>1. PICK j \in Jobs : HeartbeatAges(j) \/ BackoffExpires(j) \/ PurgeOld(j)
    BY <1>2 DEF Timer
  <2>2. PICK q \in {[rows[j] EXCEPT !.beat = "stale"], [rows[j] EXCEPT !.wait = FALSE], Gone} :
            rows' = [rows EXCEPT ![j] = q]
    BY <1>0, <2>1 DEF HeartbeatAges, BackoffExpires, PurgeOld, Inv, TypeOK
  <2>3. KeyKept(rows[j], q)
    <3>1. CASE q = Gone
      BY <3>1, GoneKey
    <3>2. CASE q # Gone
      <4>1. /\ q.state = rows[j].state /\ q.kind = rows[j].kind
            /\ q.project = rows[j].project /\ q.digest = rows[j].digest /\ q.keyed = rows[j].keyed
        BY <1>0, <2>2, <3>2 DEF Row
      <4> QED BY <1>0, <4>1 DEF KeyKept, SameKey
    <3> QED BY <3>1, <3>2
  <2>4. \A i \in Jobs : KeyKept(rows[i], rows'[i])
    BY <1>0, <2>2, <2>3 DEF Inv, TypeOK
  <2> QED BY <2>4, NoNewKey
<1> QED BY <1>1, <1>2

LEMMA ClaimKeepsKeys ==
    ASSUME Inv, KeyHeldByLiveJob, NEW w \in Workers, NEW s \in Slots, NEW j \in Jobs,
           Claim(w, s, j)
    PROVE  KeyHeldByLiveJob'
<1> DEFINE n == rows[j].attempts + 1
           q == [rows[j] EXCEPT !.state = "running", !.beat = "fresh", !.attempts = n]
<1>0. \A i \in Jobs : rows[i] \in Row /\ KeyKept(rows[i], rows[i])
  BY DEF Inv, TypeOK, KeyKept, KeyHeldByLiveJob, SameKey
<1>1. rows' = [rows EXCEPT ![j] = q]
  BY DEF Claim, Inv, TypeOK
<1> HIDE DEF n
<1>2. /\ q.state = "running" /\ q.kind = rows[j].kind
      /\ q.project = rows[j].project /\ q.digest = rows[j].digest /\ q.keyed = rows[j].keyed
  BY <1>0 DEF Row
<1> HIDE DEF q
<1>3. KeyKept(rows[j], q)
  BY <1>0, <1>2 DEF KeyKept, SameKey, Active
<1>4. \A i \in Jobs : KeyKept(rows[i], rows'[i])
  BY <1>0, <1>1, <1>3 DEF Inv, TypeOK
<1> QED BY <1>4, NoNewKey

\* A settled job holds no dedupe key, and no two rows hold the same one: the
\* key that makes a second click attach to the first one's job never blocks a
\* job that is over.
THEOREM KeysAreHeldByLiveJobs == Spec => []KeyHeldByLiveJob
<1>1. Inv /\ KeyHeldByLiveJob /\ [Next]_vars => KeyHeldByLiveJob'
  <2> SUFFICES ASSUME Inv, KeyHeldByLiveJob, [Next]_vars PROVE KeyHeldByLiveJob'
    OBVIOUS
  <2>1. CASE UNCHANGED vars
    BY <2>1, SameRowsKeepKeys DEF vars
  <2>2. ASSUME NEW w \in Workers, WorkerStep(w) PROVE KeyHeldByLiveJob'
    BY <2>2, ClaimKeepsKeys, TaskStepKeepsKeys, ShutdownStepKeepsKeys DEF WorkerStep
  <2> QED BY <2>1, <2>2, ApiStepKeepsKeys, ClockStepKeepsKeys DEF Next
<1> QED BY <1>1, KeysInit, SpecInv, PTL DEF Spec
-----------------------------------------------------------------------------
\* Money.

Runners == {"start", "work", "settle", "write"}

LEMMA MayBillFinite ==
    ASSUME Inv, NEW j \in Jobs
    PROVE  /\ IsFiniteSet(MayBill(j)) /\ Cardinality(MayBill(j)) \in Nat
           /\ MayBill(j) \subseteq Slotted
<1>1. IsFiniteSet(Slotted)
  BY QueueAssumption, FS_Product DEF Slotted
<1>2. MayBill(j) \subseteq Slotted
  BY DEF MayBill, Of
<1> QED BY <1>1, <1>2, FS_Subset, FS_CardinalityType

\* A step that bills nothing, and after which no more runs may pay and no
\* more rows wait than before, keeps the grants covered.
LEMMA Shrinks ==
    ASSUME Inv, Inv', GrantsCover, billed' = billed, NEW j \in Jobs,
           MayBill(j)' \subseteq MayBill(j),
           WaitingGrant(j)' <= WaitingGrant(j), asked'[j] >= asked[j]
    PROVE  billed'[j] + Cardinality(MayBill(j)') + WaitingGrant(j)' <= asked'[j]
<1>1. Cardinality(MayBill(j)') <= Cardinality(MayBill(j))
  BY MayBillFinite, FS_Subset
<1>2. Cardinality(MayBill(j)) \in Nat /\ Cardinality(MayBill(j)') \in Nat
  BY MayBillFinite, FS_Subset, FS_CardinalityType
<1>3. /\ billed[j] \in Nat /\ asked[j] \in Nat /\ asked'[j] \in Nat
      /\ WaitingGrant(j) \in Nat /\ WaitingGrant(j)' \in Nat
  BY DEF Inv, TypeOK, WaitingGrant
<1>4. billed[j] + Cardinality(MayBill(j)) + WaitingGrant(j) <= asked[j]
  BY DEF GrantsCover
<1> HIDE DEF MayBill, WaitingGrant
<1> QED BY <1>1, <1>2, <1>3, <1>4

\* A step of one task that does not let it pay when it could not before.
LEMMA MayBillOfTask ==
    ASSUME Inv, NEW w \in Workers, NEW s \in Slots, NEW t \in Task, Become(w, s, t),
           t.job \in Jobs /\ MayPay(t) => t.job = tasks[w][s].job /\ MayPay(tasks[w][s]),
           NEW j \in Jobs
    PROVE  MayBill(j)' \subseteq MayBill(j)
<1>1. /\ tasks'[w][s] = t
      /\ \A v \in Workers, u \in Slots : <<v, u>> # <<w, s>> => tasks'[v][u] = tasks[v][u]
  BY BecomeTasks DEF Inv
<1> SUFFICES ASSUME NEW v \in Workers, NEW u \in Slots,
                    tasks'[v][u].job = j, MayPay(tasks'[v][u])
             PROVE  tasks[v][u].job = j /\ MayPay(tasks[v][u])
  BY DEF MayBill, Of, Slotted, MayPay
<1>2. CASE <<v, u>> = <<w, s>>
  BY <1>1, <1>2
<1>3. CASE <<v, u>> # <<w, s>>
  BY <1>1, <1>3
<1> QED BY <1>2, <1>3

\* The same rows, kinds and requests: only a task changed.
LEMMA TaskShrinks ==
    ASSUME Inv, Inv', GrantsCover, NEW w \in Workers, NEW s \in Slots, NEW t \in Task,
           Become(w, s, t), UNCHANGED <<asked, billed>>,
           t.job \in Jobs /\ MayPay(t) => t.job = tasks[w][s].job /\ MayPay(tasks[w][s]),
           \A j \in Jobs : WaitingGrant(j)' <= WaitingGrant(j)
    PROVE  GrantsCover'
<1> SUFFICES ASSUME NEW j \in Jobs
             PROVE  billed'[j] + Cardinality(MayBill(j)') + WaitingGrant(j)' <= asked'[j]
  BY DEF GrantsCover
<1>1. MayBill(j)' \subseteq MayBill(j)
  BY MayBillOfTask
<1>2. asked[j] \in Nat
  BY DEF Inv, TypeOK
<1> QED BY <1>1, <1>2, Shrinks

LEMMA SameRowsWait ==
    ASSUME TypeOK, rows' = rows
    PROVE  \A j \in Jobs : WaitingGrant(j)' <= WaitingGrant(j)
BY DEF WaitingGrant

\* The same tasks: only rows and requests changed.
LEMMA RowsShrink ==
    ASSUME Inv, Inv', GrantsCover, UNCHANGED <<tasks, billed>>,
           \A j \in Jobs : /\ WaitingGrant(j)' <= WaitingGrant(j)
                           /\ asked'[j] >= asked[j]
    PROVE  GrantsCover'
<1> SUFFICES ASSUME NEW j \in Jobs
             PROVE  billed'[j] + Cardinality(MayBill(j)') + WaitingGrant(j)' <= asked'[j]
  BY DEF GrantsCover
<1>1. MayBill(j)' \subseteq MayBill(j)
  BY DEF MayBill, Of
<1> QED BY <1>1, Shrinks

\* An UPDATE of a row to one that is not a paid kind waiting for a worker.
LEMMA UpdateWaits ==
    ASSUME TypeOK, NEW j \in Jobs, NEW q \in Row, Update(j, q),
           q.state = "queued" /\ NoRetry(q.kind) => WaitingGrant(j) = 1 \/ rows[j].state = "gone"
    PROVE  \A i \in Jobs : WaitingGrant(i)' <= WaitingGrant(i)
<1> SUFFICES ASSUME NEW i \in Jobs PROVE WaitingGrant(i)' <= WaitingGrant(i)
  OBVIOUS
<1>1. CASE i = j /\ rows[j].state # "gone"
  <2>1. rows'[i] = q
    BY <1>1, UpdateRows
  <2> QED BY <1>1, <2>1 DEF WaitingGrant
<1>2. CASE ~(i = j /\ rows[j].state # "gone")
  <2>1. rows'[i] = rows[i]
    BY <1>2, UpdateRows
  <2> QED BY <2>1 DEF WaitingGrant
<1> QED BY <1>1, <1>2

LEMMA JudgedCannotPay ==
    ASSUME NEW t \in Task, NEW v \in Verdicts, NEW c \in BOOLEAN, v # "requeue" \/ ~NoRetry(t.kind)
    PROVE  ~MayPay(Judge(t, v, c))
BY JudgeTask DEF MayPay

\* The claim of a paid kind turns its waiting grant into a run that may pay.
LEMMA ClaimKeepsGrants ==
    ASSUME Inv, Inv', GrantsCover, NEW w \in Workers, NEW s \in Slots, NEW j \in Jobs,
           Claim(w, s, j)
    PROVE  GrantsCover'
<1>1. /\ rows[j].state = "queued" /\ tasks[w][s].pc = "idle"
      /\ rows \in [Jobs -> Row] /\ TypeOK
      /\ UNCHANGED <<asked, billed>>
  BY DEF Claim, Claimable, Runnable, Inv, TypeOK
<1>2. PICK t \in Task : Become(w, s, t) /\ t.job = j /\ t.kind = rows[j].kind
  <2> DEFINE t == [Idle EXCEPT !.pc = "start", !.job = j, !.kind = rows[j].kind,
                               !.attempt = rows[j].attempts + 1]
  <2>1. Become(w, s, t) /\ t.job = j /\ t.kind = rows[j].kind
    BY DEF Claim, Become, Idle
  <2>2. tasks'[w][s] = t /\ tasks'[w][s] \in Task
    BY <1>1, <2>1 DEF Become, Inv, TypeOK
  <2> QED BY <2>1, <2>2
<1>3. /\ rows'[j].state = "running" /\ \A i \in Jobs : i # j => rows'[i] = rows[i]
  BY <1>1 DEF Claim, Row
<1>4. /\ tasks'[w][s] = t
      /\ \A v \in Workers, u \in Slots : <<v, u>> # <<w, s>> => tasks'[v][u] = tasks[v][u]
  BY <1>1, <1>2, BecomeTasks
<1>5. ASSUME NEW i \in Jobs, i # j
      PROVE  billed'[i] + Cardinality(MayBill(i)') + WaitingGrant(i)' <= asked'[i]
  <2>1. MayBill(i)' \subseteq MayBill(i)
    <3> SUFFICES ASSUME NEW v \in Workers, NEW u \in Slots,
                        tasks'[v][u].job = i, MayPay(tasks'[v][u])
                 PROVE  tasks[v][u].job = i /\ MayPay(tasks[v][u])
      BY DEF MayBill, Of, Slotted, MayPay
    <3> QED BY <1>2, <1>4, <1>5
  <2>2. WaitingGrant(i)' <= WaitingGrant(i) /\ asked'[i] >= asked[i]
    BY <1>1, <1>3, <1>5 DEF WaitingGrant, Inv, TypeOK
  <2> QED BY <1>1, <2>1, <2>2, Shrinks
<1>6. billed'[j] + Cardinality(MayBill(j)') + WaitingGrant(j)' <= asked'[j]
  <2>1. MayBill(j)' \subseteq MayBill(j) \cup {<<w, s>>}
    <3> SUFFICES ASSUME NEW v \in Workers, NEW u \in Slots, <<v, u>> # <<w, s>>,
                        tasks'[v][u].job = j, MayPay(tasks'[v][u])
                 PROVE  tasks[v][u].job = j /\ MayPay(tasks[v][u])
      BY DEF MayBill, Of, Slotted, MayPay
    <3> QED BY <1>4
  <2>2. CASE ~NoRetry(rows[j].kind)
    <3>1. ~MayPay(t)
      BY <1>2, <2>2 DEF MayPay
    <3>2. MayBill(j)' \subseteq MayBill(j)
      BY <1>4, <2>1, <3>1 DEF MayBill, MayPay
    <3>3. WaitingGrant(j)' <= WaitingGrant(j) /\ asked'[j] >= asked[j]
      BY <1>1, <1>3 DEF WaitingGrant, Inv, TypeOK
    <3> QED BY <1>1, <3>2, <3>3, Shrinks
  <2>3. CASE NoRetry(rows[j].kind)
    <3>1. WaitingGrant(j) = 1 /\ WaitingGrant(j)' = 0
      BY <1>1, <1>3, <2>3 DEF WaitingGrant
    <3>2. /\ IsFiniteSet(MayBill(j) \cup {<<w, s>>})
          /\ Cardinality(MayBill(j) \cup {<<w, s>>}) <= Cardinality(MayBill(j)) + 1
          /\ Cardinality(MayBill(j) \cup {<<w, s>>}) \in Nat
          /\ Cardinality(MayBill(j)) \in Nat
      <4> DEFINE S == MayBill(j)
      <4>1. IsFiniteSet(S) /\ Cardinality(S) \in Nat
        BY MayBillFinite
      <4> HIDE DEF S
      <4>2. /\ IsFiniteSet(S \cup {<<w, s>>})
            /\ \/ Cardinality(S \cup {<<w, s>>}) = Cardinality(S)
               \/ Cardinality(S \cup {<<w, s>>}) = Cardinality(S) + 1
        BY <4>1, FS_AddElement
      <4>3. Cardinality(S \cup {<<w, s>>}) <= Cardinality(S) + 1
            /\ Cardinality(S \cup {<<w, s>>}) \in Nat
        BY <4>1, <4>2
      <4> QED BY <4>1, <4>2, <4>3 DEF S
    <3>3. /\ Cardinality(MayBill(j)') <= Cardinality(MayBill(j) \cup {<<w, s>>})
          /\ Cardinality(MayBill(j)') \in Nat
      BY <2>1, <3>2, FS_Subset, FS_CardinalityType
    <3>4. billed[j] + Cardinality(MayBill(j)) + WaitingGrant(j) <= asked[j]
      BY DEF GrantsCover
    <3>5. billed[j] \in Nat /\ asked[j] \in Nat /\ billed'[j] = billed[j] /\ asked'[j] = asked[j]
      BY <1>1 DEF TypeOK
    <3> QED BY <3>1, <3>2, <3>3, <3>4, <3>5
  <2> QED BY <2>2, <2>3
<1> QED BY <1>5, <1>6 DEF GrantsCover

\* A run that leaves MayBill makes room for one grant more, spent or waiting.
LEMMA LeavesMayBill ==
    ASSUME Inv, Inv', NEW w \in Workers, NEW s \in Slots, NEW t \in Task, Become(w, s, t),
           NEW j \in Jobs, <<w, s>> \in MayBill(j), ~MayPay(t)
    PROVE  Cardinality(MayBill(j)') + 1 <= Cardinality(MayBill(j))
<1>1. MayBill(j)' \subseteq MayBill(j)
  BY MayBillOfTask
<1>2. <<w, s>> \notin MayBill(j)'
  <2>1. tasks'[w][s] = t
    BY BecomeTasks DEF Inv
  <2> QED BY <2>1 DEF MayBill, MayPay
<1>3. /\ IsFiniteSet(MayBill(j) \ {<<w, s>>})
      /\ Cardinality(MayBill(j) \ {<<w, s>>}) = Cardinality(MayBill(j)) - 1
  BY MayBillFinite, FS_RemoveElement
<1>4. MayBill(j)' \subseteq MayBill(j) \ {<<w, s>>}
  BY <1>1, <1>2
<1>5. Cardinality(MayBill(j)') <= Cardinality(MayBill(j) \ {<<w, s>>})
  BY <1>3, <1>4, FS_Subset
<1>6. Cardinality(MayBill(j)') \in Nat /\ Cardinality(MayBill(j)) \in Nat
  BY <1>3, <1>4, FS_Subset, FS_CardinalityType, MayBillFinite
<1> QED BY <1>3, <1>5, <1>6

\* A paid request spends the place of its run in MayBill.
LEMMA BuyKeepsGrants ==
    ASSUME Inv, Inv', GrantsCover, NEW w \in Workers, NEW s \in Slots, Buy(w, s)
    PROVE  /\ GrantsCover'
           /\ tasks[w][s].job \in Jobs
           /\ billed[tasks[w][s].job] < asked[tasks[w][s].job]
<1> DEFINE t == tasks[w][s]
           u == [t EXCEPT !.bought = TRUE]
<1>1. /\ t.pc = "work" /\ NoRetry(t.kind) /\ ~t.bought /\ Become(w, s, u)
      /\ billed' = [billed EXCEPT ![t.job] = @ + 1]
      /\ UNCHANGED <<rows, asked>>
  BY DEF Buy
<1>2. t \in Task /\ TypeOK /\ t.job \in Jobs
  BY <1>1 DEF Inv, TypeOK, Structure, TaskLinks
<1>3. u \in Task /\ ~MayPay(u) /\ MayPay(t)
  BY <1>1, <1>2 DEF MayPay, Task
<1> HIDE DEF u
<1>i. PICK i \in Jobs : i = t.job
  BY <1>2
<1>4. <<w, s>> \in MayBill(i)
  BY <1>3, <1>i DEF MayBill, Of, Slotted
<1>5. Cardinality(MayBill(i)') + 1 <= Cardinality(MayBill(i))
  BY <1>1, <1>2, <1>3, <1>4, LeavesMayBill
<1>6. /\ Cardinality(MayBill(i)') \in Nat /\ Cardinality(MayBill(i)) \in Nat
      /\ billed[i] \in Nat /\ asked[i] \in Nat /\ WaitingGrant(i) \in Nat
  BY <1>1, <1>2, <1>3, MayBillFinite, MayBillOfTask, FS_Subset, FS_CardinalityType
     DEF TypeOK, WaitingGrant
<1>7. billed[i] + Cardinality(MayBill(i)) + WaitingGrant(i) <= asked[i]
  BY <1>2 DEF GrantsCover
<1>8. billed[i] < asked[i]
  BY <1>5, <1>6, <1>7
<1>9. WaitingGrant(i)' = WaitingGrant(i) /\ asked'[i] = asked[i]
      /\ billed'[i] = billed[i] + 1
  BY <1>1, <1>2, <1>i DEF WaitingGrant, TypeOK
<1>10. billed'[i] + Cardinality(MayBill(i)') + WaitingGrant(i)' <= asked'[i]
  BY <1>5, <1>6, <1>7, <1>9
<1>11. ASSUME NEW j \in Jobs, j # i
       PROVE  billed'[j] + Cardinality(MayBill(j)') + WaitingGrant(j)' <= asked'[j]
  <2>1. MayBill(j)' \subseteq MayBill(j)
    BY <1>1, <1>2, <1>3, MayBillOfTask
  <2>2. billed'[j] = billed[j] /\ WaitingGrant(j)' = WaitingGrant(j) /\ asked'[j] = asked[j]
    BY <1>1, <1>2, <1>i, <1>11 DEF WaitingGrant, TypeOK
  <2>3. Cardinality(MayBill(j)') <= Cardinality(MayBill(j))
    BY <2>1, MayBillFinite, FS_Subset
  <2>4. /\ Cardinality(MayBill(j)') \in Nat /\ Cardinality(MayBill(j)) \in Nat
        /\ billed[j] \in Nat /\ asked[j] \in Nat /\ WaitingGrant(j) \in Nat
    BY <1>2, <2>1, MayBillFinite, FS_Subset, FS_CardinalityType DEF TypeOK, WaitingGrant
  <2>5. billed[j] + Cardinality(MayBill(j)) + WaitingGrant(j) <= asked[j]
    BY DEF GrantsCover
  <2> QED BY <2>2, <2>3, <2>4, <2>5
<1> QED BY <1>2, <1>i, <1>8, <1>10, <1>11 DEF GrantsCover

\* A paid kind handed back unpaid leaves MayBill and waits again.
LEMMA SettleKeepsGrants ==
    ASSUME Inv, Inv', GrantsCover, NEW w \in Workers, NEW s \in Slots, SettleWrite(w, s)
    PROVE  GrantsCover'
<1> DEFINE t == tasks[w][s]
           u == [t EXCEPT !.pc = "end"]
           q == Record(rows[t.job], t.verdict)
<1>1. /\ t.pc = "write" /\ Update(t.job, q) /\ Become(w, s, u)
      /\ UNCHANGED <<asked, billed>>
  BY DEF SettleWrite
<1>2. /\ t \in Task /\ TypeOK /\ t.job \in Jobs /\ t.verdict \in Verdicts
      /\ rows[t.job] \in Row
      /\ rows[t.job].state = "gone" \/ rows[t.job].kind = t.kind
  BY <1>1 DEF Inv, TypeOK, Structure, TaskLinks
<1>3. u \in Task /\ ~MayPay(u)
  BY <1>2 DEF Task, MayPay
<1>4. /\ q \in Row /\ q.kind = rows[t.job].kind
      /\ q.state = "queued" <=> t.verdict = "requeue"
  BY <1>2, RecordRow
<1>i. PICK i \in Jobs : i = t.job
  BY <1>2
<1> HIDE DEF u, q
<1>5. CASE ~(q.state = "queued" /\ NoRetry(q.kind)) \/ rows[t.job].state = "gone"
  <2>1. \A j \in Jobs : WaitingGrant(j)' <= WaitingGrant(j)
    BY <1>1, <1>2, <1>4, <1>5, UpdateWaits
  <2> QED BY <1>1, <1>3, <2>1, TaskShrinks
<1>6. CASE q.state = "queued" /\ NoRetry(q.kind) /\ rows[t.job].state # "gone"
  <2>1. MayPay(t)
    BY <1>1, <1>2, <1>4, <1>6 DEF MayPay
  <2>2. <<w, s>> \in MayBill(i)
    BY <2>1, <1>i DEF MayBill, Of, Slotted
  <2>3. Cardinality(MayBill(i)') + 1 <= Cardinality(MayBill(i))
    BY <1>1, <1>2, <1>3, <2>2, LeavesMayBill
  <2>4. /\ Cardinality(MayBill(i)') \in Nat /\ Cardinality(MayBill(i)) \in Nat
        /\ billed[i] \in Nat /\ asked[i] \in Nat /\ WaitingGrant(i) \in Nat
        /\ WaitingGrant(i)' \in Nat /\ WaitingGrant(i)' <= 1
    BY <1>1, <1>2, <1>3, MayBillFinite, MayBillOfTask, FS_Subset, FS_CardinalityType
       DEF TypeOK, WaitingGrant
  <2>5. billed[i] + Cardinality(MayBill(i)) + WaitingGrant(i) <= asked[i]
    BY <1>2 DEF GrantsCover
  <2>6. billed'[i] + Cardinality(MayBill(i)') + WaitingGrant(i)' <= asked'[i]
    BY <1>1, <2>3, <2>4, <2>5
  <2>7. ASSUME NEW j \in Jobs, j # i
        PROVE  billed'[j] + Cardinality(MayBill(j)') + WaitingGrant(j)' <= asked'[j]
    <3>1. MayBill(j)' \subseteq MayBill(j)
      BY <1>1, <1>3, MayBillOfTask
    <3>2. rows'[j] = rows[j]
      BY <1>1, <1>2, <1>4, <1>i, <2>7, UpdateRows
    <3>3. WaitingGrant(j)' <= WaitingGrant(j) /\ asked'[j] >= asked[j]
      BY <1>1, <1>2, <3>2 DEF WaitingGrant, TypeOK
    <3> QED BY <1>1, <3>1, <3>3, Shrinks
  <2> QED BY <2>6, <2>7 DEF GrantsCover
<1> QED BY <1>5, <1>6

LEMMA TaskStepKeepsGrants ==
    ASSUME Inv, Inv', GrantsCover, NEW w \in Workers, NEW s \in Slots, TaskStep(w, s)
    PROVE  GrantsCover'
<1> DEFINE t == tasks[w][s]
<1>t. t \in Task /\ TypeOK
  BY DEF Inv, TypeOK
<1>j. \A j \in Jobs : rows' = rows => WaitingGrant(j)' <= WaitingGrant(j)
  BY <1>t, SameRowsWait
<1>1. CASE OutOfSpace(w, s)
  <2>1. PICK v \in Verdicts : Become(w, s, Judge(t, v, TRUE))
    BY <1>1 DEF OutOfSpace, Verdicts
  <2>2. MayPay(Judge(t, v, TRUE)) => MayPay(t)
    BY <1>1, <1>t, <2>1, JudgeTask DEF OutOfSpace, MayPay
  <2> QED BY <1>1, <1>t, <1>j, <2>1, <2>2, JudgeTask, TaskShrinks DEF OutOfSpace
<1>2. CASE StartHandler(w, s)
  <2> DEFINE u == [t EXCEPT !.pc = "work"]
  <2>1. u \in Task /\ u.job = t.job /\ (MayPay(u) => MayPay(t))
    BY <1>2, <1>t DEF StartHandler, Task, MayPay
  <2>2. Become(w, s, u) /\ UNCHANGED <<rows, asked, billed>>
    BY <1>2 DEF StartHandler
  <2> HIDE DEF u
  <2> QED BY <1>j, <2>1, <2>2, TaskShrinks
<1>3. CASE Buy(w, s)
  BY <1>3, BuyKeepsGrants
<1>4. ASSUME NEW v \in Verdicts, NEW c \in BOOLEAN, Become(w, s, Judge(t, v, c)),
             v # "requeue" \/ ~NoRetry(t.kind), UNCHANGED <<rows, asked, billed>>
      PROVE  GrantsCover'
  <2>1. Judge(t, v, c) \in Task /\ ~MayPay(Judge(t, v, c))
    BY <1>4, <1>t, JudgeTask, JudgedCannotPay
  <2> QED BY <1>4, <1>j, <2>1, TaskShrinks
<1>5. CASE HandlerReturns(w, s)
  <2>1. PICK v \in {"canceled", "done"} : Become(w, s, Judge(t, v, FALSE))
    BY <1>5 DEF HandlerReturns
  <2> QED BY <1>4, <1>5, <2>1 DEF HandlerReturns, Verdicts
<1>6. CASE HandlerCancelled(w, s)
  BY <1>4, <1>6 DEF HandlerCancelled, Verdicts
<1>7. CASE HandlerFails(w, s)
  <2>1. PICK final \in BOOLEAN : Become(w, s, Judge(t, Failure(t, final), TRUE))
    BY <1>7 DEF HandlerFails
  <2>2. UNCHANGED <<rows, asked, billed>>
    BY <1>7 DEF HandlerFails
  <2>3. Failure(t, final) \in Verdicts /\ (NoRetry(t.kind) => Failure(t, final) = "failed")
    BY <1>t, FailureVerdict
  <2> QED BY <1>4, <2>1, <2>2, <2>3
<1>8. ASSUME NEW p \in {"write", "end"}, t.pc \in {"settle", "write"} \/ p = "end",
             Become(w, s, [t EXCEPT !.pc = p]), UNCHANGED <<rows, asked, billed>>
      PROVE  GrantsCover'
  <2> DEFINE u == [t EXCEPT !.pc = p]
  <2>1. u \in Task /\ u.job = t.job /\ (MayPay(u) => MayPay(t))
    BY <1>8, <1>t DEF Task, MayPay
  <2>2. Become(w, s, u)
    BY <1>8
  <2> HIDE DEF u
  <2> QED BY <1>8, <1>j, <2>1, <2>2, TaskShrinks
<1>9. CASE SettleRead(w, s)
  <2>1. PICK p \in {"write", "end"} : Become(w, s, [t EXCEPT !.pc = p])
    BY <1>9 DEF SettleRead
  <2> QED BY <1>8, <1>9, <2>1 DEF SettleRead
<1>10. CASE SettleWrite(w, s)
  BY <1>10, SettleKeepsGrants
<1>11. CASE SettleFails(w, s)
  <2>1. UNCHANGED <<rows, asked, billed>>
    BY <1>11 DEF SettleFails
  <2>2. CASE t.caught
    BY <1>8, <1>11, <2>1, <2>2 DEF SettleFails
  <2>3. CASE ~t.caught
    <3>1. Become(w, s, Judge(t, Failure(t, FALSE), TRUE))
      BY <1>11, <2>3 DEF SettleFails
    <3>2. /\ Failure(t, FALSE) \in Verdicts
          /\ NoRetry(t.kind) => Failure(t, FALSE) = "failed"
      BY <1>t, FailureVerdict
    <3> QED BY <1>4, <2>1, <3>1, <3>2
  <2> QED BY <2>2, <2>3
<1>12. CASE EndTask(w, s)
  <2>1. ~MayPay(Idle)
    BY DEF MayPay, Idle
  <2>2. Become(w, s, Idle) /\ UNCHANGED <<rows, asked, billed>>
    BY <1>12 DEF EndTask
  <2> QED BY <1>j, <2>1, <2>2, IdleTask, TaskShrinks
<1>r. ASSUME t.pc # "idle"
      PROVE  t.job \in Jobs /\ rows[t.job] \in Row
  BY <1>r DEF Inv, TypeOK, Structure, TaskLinks
<1>13. CASE BeatRead(w, s)
  <2> DEFINE u == Heard(t, rows[t.job])
  <2>1. Become(w, s, u) /\ UNCHANGED <<rows, asked, billed>> /\ t.pc # "idle"
    BY <1>13 DEF BeatRead
  <2>2. u \in Task /\ u.job = t.job /\ u.kind = t.kind /\ u.pc = t.pc /\ u.verdict = t.verdict
        /\ u.bought = t.bought
    BY <1>t, <1>r, <2>1, HeardTask
  <2> HIDE DEF u
  <2>3. MayPay(u) => MayPay(t)
    BY <2>2 DEF MayPay
  <2> QED BY <1>j, <2>1, <2>2, <2>3, TaskShrinks
<1>14. CASE BeatWrite(w, s)
  <2> DEFINE u == [t EXCEPT !.beat = "no", !.cancel = @ \/ t.beat = "asked"]
             r == [rows[t.job] EXCEPT !.beat = "fresh"]
  <2>1. t.beat # "no" /\ Become(w, s, u) /\ Update(t.job, r) /\ UNCHANGED <<asked, billed>>
    BY <1>14 DEF BeatWrite
  <2>2. t.pc # "idle"
    BY <2>1 DEF Inv, Structure, TaskLinks, Idle
  <2>3. u \in Task /\ u.job = t.job /\ (MayPay(u) => MayPay(t))
    BY <1>t DEF Task, MayPay
  <2>4. r \in Row /\ r.state = rows[t.job].state /\ r.kind = rows[t.job].kind
    BY <1>r, <2>2 DEF Row
  <2> HIDE DEF u, r
  <2>5. \A i \in Jobs : WaitingGrant(i)' <= WaitingGrant(i)
    <3>1. r.state = "queued" /\ NoRetry(r.kind) => WaitingGrant(t.job) = 1
      BY <2>4 DEF WaitingGrant
    <3> QED BY <1>t, <1>r, <2>1, <2>2, <2>4, <3>1, UpdateWaits
  <2> QED BY <2>1, <2>3, <2>5, TaskShrinks
<1> QED BY <1>1, <1>2, <1>3, <1>5, <1>6, <1>7, <1>9, <1>10, <1>11, <1>12, <1>13, <1>14 DEF TaskStep

LEMMA ShutdownStepKeepsGrants ==
    ASSUME Inv, Inv', GrantsCover, NEW w \in Workers, ShutdownStep(w)
    PROVE  GrantsCover'
<1>0. /\ asked \in [Jobs -> Nat] /\ \A j \in Jobs : asked[j] >= asked[j]
      /\ \A j \in Jobs : rows' = rows => WaitingGrant(j)' <= WaitingGrant(j)
  BY SameRowsWait DEF Inv, TypeOK
<1>1. CASE UNCHANGED <<rows, tasks, asked, billed>>
  BY <1>0, <1>1, RowsShrink
<1>2. CASE Crash(w)
  <2>1. UNCHANGED <<rows, asked, billed>>
        /\ tasks' = [tasks EXCEPT ![w] = [s \in Slots |-> Idle]]
    BY <1>2 DEF Crash
  <2>2. ASSUME NEW j \in Jobs PROVE MayBill(j)' \subseteq MayBill(j)
    <3> SUFFICES ASSUME NEW v \in Workers, NEW u \in Slots,
                        tasks'[v][u].job = j, MayPay(tasks'[v][u])
                 PROVE  tasks[v][u].job = j /\ MayPay(tasks[v][u])
      BY DEF MayBill, Of, Slotted, MayPay
    <3>1. ~MayPay(Idle)
      BY DEF MayPay, Idle
    <3>2. tasks'[v][u] = Idle \/ tasks'[v][u] = tasks[v][u]
      BY <2>1 DEF Inv, TypeOK
    <3> QED BY <3>1, <3>2
  <2>3. ASSUME NEW j \in Jobs
        PROVE  billed'[j] + Cardinality(MayBill(j)') + WaitingGrant(j)' <= asked'[j]
    BY <1>0, <2>1, <2>2, Shrinks
  <2> QED BY <2>3 DEF GrantsCover
<1>3. ASSUME NEW s \in Slots, AbandonWrite(w, s)
      PROVE  GrantsCover'
  <2> DEFINE t == tasks[w][s]
             r == rows[t.job]
             q == IF LastAttempt(t) THEN Settle(r, "failed") ELSE HandBack(r, FALSE)
  <2>1. s \in drain[w].open /\ Update(t.job, q) /\ UNCHANGED <<tasks, asked, billed>>
    BY <1>3 DEF AbandonWrite
  <2>2. /\ TypeOK /\ t.job \in Jobs /\ r \in Row
        /\ r.state = "gone" \/ r.kind = t.kind
    BY <2>1 DEF Inv, TypeOK, Structure, TaskLinks, DrainLinks
  <2>3. /\ q \in Row /\ q.kind = r.kind
        /\ q.state = "queued" => ~NoRetry(t.kind)
    BY <2>2, SettleRow, HandBackRow DEF Terminal, LastAttempt
  <2> HIDE DEF q
  <2>4. \A j \in Jobs : WaitingGrant(j)' <= WaitingGrant(j)
    BY <2>1, <2>2, <2>3, UpdateWaits
  <2> QED BY <1>0, <2>1, <2>4, RowsShrink
<1>4. ASSUME NEW s \in Slots, CancelTask(w, s)
      PROVE  GrantsCover'
  <2> DEFINE u == [tasks[w][s] EXCEPT !.pc = "end"]
  <2>1. Become(w, s, u) /\ UNCHANGED <<rows, asked, billed>>
    BY <1>4 DEF CancelTask
  <2>t. tasks[w][s] \in Task
    BY DEF Inv, TypeOK
  <2>2. u \in Task /\ ~MayPay(u)
    BY <2>t DEF Task, MayPay
  <2> HIDE DEF u
  <2> QED BY <1>0, <2>1, <2>2, TaskShrinks
<1> QED BY <1>1, <1>2, <1>3, <1>4 DEF ShutdownStep, Sigterm, GraceEnds, AbandonFails,
        Abandoned, Exit, AbandonRead

\* A new job comes with its first grant, and no run names it yet.
LEMMA EnqueueKeepsGrants ==
    ASSUME Inv, Inv', GrantsCover, NEW j \in Jobs, NEW p \in Projects, NEW k \in Kinds,
           NEW d \in Digests \cup {"none"}, Enqueue(j, p, k, d)
    PROVE  GrantsCover'
<1>1. /\ rows[j].state = "new" /\ asked' = [asked EXCEPT ![j] = 1]
      /\ \A i \in Jobs : i # j => rows'[i] = rows[i]
      /\ UNCHANGED <<tasks, billed>>
  BY DEF Enqueue, Inv, TypeOK
<1>2. asked[j] = 0 /\ billed[j] = 0 /\ asked'[j] = 1 /\ \A i \in Jobs : i # j => asked'[i] = asked[i]
  BY <1>1 DEF Inv, TypeOK, Structure, AskLinks
<1>3. MayBill(j)' = {}
  <2> SUFFICES ASSUME NEW w \in Workers, NEW s \in Slots, tasks[w][s].job = j,
                      MayPay(tasks[w][s])
               PROVE  FALSE
    BY <1>1 DEF MayBill, Of, Slotted, MayPay
  <2>1. tasks[w][s].pc # "idle"
    BY DEF MayPay
  <2> QED BY <1>1, <2>1 DEF Inv, Structure, TaskLinks
<1>4. billed'[j] + Cardinality(MayBill(j)') + WaitingGrant(j)' <= asked'[j]
  <2>1. Cardinality(MayBill(j)') = 0
    BY <1>3, FS_EmptySet
  <2>2. WaitingGrant(j)' \in {0, 1}
    BY DEF WaitingGrant
  <2> QED BY <1>1, <1>2, <2>1, <2>2
<1>5. ASSUME NEW i \in Jobs, i # j
      PROVE  billed'[i] + Cardinality(MayBill(i)') + WaitingGrant(i)' <= asked'[i]
  <2>1. MayBill(i)' \subseteq MayBill(i)
    BY <1>1 DEF MayBill, Of
  <2>2. WaitingGrant(i)' <= WaitingGrant(i) /\ asked'[i] >= asked[i]
    BY <1>1, <1>2, <1>5 DEF WaitingGrant, Inv, TypeOK
  <2> QED BY <1>1, <2>1, <2>2, Shrinks
<1> QED BY <1>4, <1>5 DEF GrantsCover

\* An admin's retry comes with a grant of its own.
LEMMA RetryKeepsGrants ==
    ASSUME Inv, Inv', GrantsCover, NEW c \in Clients, RetryWrite(c)
    PROVE  GrantsCover'
<1>1. api[c].job \in Jobs
  BY DEF RetryWrite, Inv, Structure, ApiLinks
<1>2. PICK j \in Jobs : j = api[c].job
  BY <1>1
<1>3. /\ UNCHANGED <<tasks, billed>>
      /\ \A i \in Jobs : i # j => rows'[i] = rows[i] /\ asked'[i] = asked[i]
      /\ \/ rows' = rows /\ asked' = asked
         \/ asked'[j] = asked[j] + 1
  BY <1>2 DEF RetryWrite, Update, Inv, TypeOK
<1>4. ASSUME NEW i \in Jobs, i # j \/ (rows' = rows /\ asked' = asked)
      PROVE  billed'[i] + Cardinality(MayBill(i)') + WaitingGrant(i)' <= asked'[i]
  <2>1. MayBill(i)' \subseteq MayBill(i)
    BY <1>3 DEF MayBill, Of
  <2>2. WaitingGrant(i)' <= WaitingGrant(i) /\ asked'[i] >= asked[i]
    BY <1>3, <1>4 DEF WaitingGrant, Inv, TypeOK
  <2> QED BY <1>3, <2>1, <2>2, Shrinks
<1>5. CASE asked'[j] = asked[j] + 1
  <2>1. MayBill(j)' = MayBill(j)
    BY <1>3 DEF MayBill, Of
  <2>2. /\ WaitingGrant(j)' \in {0, 1} /\ WaitingGrant(j) \in {0, 1}
        /\ billed[j] \in Nat /\ asked[j] \in Nat /\ Cardinality(MayBill(j)) \in Nat
    BY MayBillFinite DEF WaitingGrant, Inv, TypeOK
  <2>3. billed[j] + Cardinality(MayBill(j)) + WaitingGrant(j) <= asked[j]
    BY DEF GrantsCover
  <2>4. billed'[j] + Cardinality(MayBill(j)') + WaitingGrant(j)' <= asked'[j]
    BY <1>3, <1>5, <2>1, <2>2, <2>3
  <2> QED BY <1>4, <2>4 DEF GrantsCover
<1> QED BY <1>3, <1>4, <1>5 DEF GrantsCover

LEMMA ApiStepKeepsGrants ==
    ASSUME Inv, Inv', GrantsCover, ApiStep
    PROVE  GrantsCover'
<1>0. /\ TypeOK /\ \A j \in Jobs : asked[j] >= asked[j] /\ rows[j] \in Row
      /\ \A j \in Jobs : rows' = rows => WaitingGrant(j)' <= WaitingGrant(j)
  BY SameRowsWait DEF Inv, TypeOK
<1>1. ASSUME NEW c \in Clients, NEW j \in Jobs, CancelRead(c, j) \/ RetryRead(c, j)
      PROVE  GrantsCover'
  BY <1>0, <1>1, RowsShrink DEF CancelRead, RetryRead
<1>2. ASSUME NEW c \in Clients, CancelWrite(c)
      PROVE  GrantsCover'
  <2> DEFINE j == api[c].job
             r == [rows[j] EXCEPT !.cancel = TRUE]
             q == IF api[c].state = "queued" THEN Settle(r, "canceled") ELSE r
  <2>1. Update(j, q) /\ UNCHANGED <<tasks, asked, billed>> /\ j \in Jobs
    BY <1>2 DEF CancelWrite, Inv, Structure, ApiLinks
  <2>2. r \in Row /\ r.state = rows[j].state /\ r.kind = rows[j].kind
    BY <1>0, <2>1 DEF Row
  <2> HIDE DEF r
  <2>3. q \in Row /\ q.kind = rows[j].kind /\ (q.state = "canceled" \/ q.state = rows[j].state)
    BY <2>2, SettleRow DEF Terminal
  <2> HIDE DEF q
  <2>4. q.state = "queued" /\ NoRetry(q.kind) => WaitingGrant(j) = 1
    BY <2>3 DEF WaitingGrant
  <2>5. \A i \in Jobs : WaitingGrant(i)' <= WaitingGrant(i)
    BY <1>0, <2>1, <2>3, <2>4, UpdateWaits
  <2> QED BY <1>0, <2>1, <2>5, RowsShrink
<1>3. ASSUME NEW p \in Projects, DropProjectJobs(p) \/ DeleteProject(p)
      PROVE  GrantsCover'
  <2>1. \A j \in Jobs : \/ rows'[j] = rows[j]
                        \/ rows'[j].state # "queued"
    BY <1>0, <1>3, SettleRow, GoneRow DEF DropProjectJobs, DeleteProject, Terminal
  <2>2. \A j \in Jobs : WaitingGrant(j)' <= WaitingGrant(j)
    BY <2>1 DEF WaitingGrant
  <2>3. UNCHANGED <<tasks, asked, billed>>
    BY <1>3 DEF DropProjectJobs, DeleteProject
  <2> QED BY <1>0, <2>2, <2>3, RowsShrink
<1> QED BY <1>1, <1>2, <1>3, EnqueueKeepsGrants, RetryKeepsGrants DEF ApiStep

LEMMA ClockStepKeepsGrants ==
    ASSUME Inv, Inv', GrantsCover, Reap \/ Timer
    PROVE  GrantsCover'
<1>0. TypeOK /\ \A j \in Jobs : asked[j] >= asked[j] /\ rows[j] \in Row
  BY DEF Inv, TypeOK
<1>1. UNCHANGED <<tasks, asked, billed>>
  BY DEF Reap, Timer, HeartbeatAges, BackoffExpires, PurgeOld
<1>2. CASE Reap
  <2>1. ASSUME NEW j \in Jobs PROVE WaitingGrant(j)' <= WaitingGrant(j)
    <3>1. rows'[j] = IF Stale(rows[j]) THEN Reaped(rows[j]) ELSE rows[j]
      BY <1>2 DEF Reap
    <3>2. Reaped(rows[j]).state = "queued" => ~NoRetry(Reaped(rows[j]).kind)
      BY <1>0, ReapedRow
    <3> QED BY <3>1, <3>2 DEF WaitingGrant
  <2> QED BY <1>0, <1>1, <2>1, RowsShrink
<1>3. CASE Timer
  <2>1. PICK j \in Jobs : HeartbeatAges(j) \/ BackoffExpires(j) \/ PurgeOld(j)
    BY <1>3 DEF Timer
  <2>2. /\ rows'[j].state = "gone" \/ (rows'[j].state = rows[j].state /\ rows'[j].kind = rows[j].kind)
        /\ \A i \in Jobs : i # j => rows'[i] = rows[i]
    <3>1. PICK q : /\ rows' = [rows EXCEPT ![j] = q]
                   /\ \/ q = Gone
                      \/ q = [rows[j] EXCEPT !.beat = "stale"]
                      \/ q = [rows[j] EXCEPT !.wait = FALSE]
      BY <1>0, <2>1 DEF HeartbeatAges, BackoffExpires, PurgeOld, TypeOK
    <3>2. q.state = "gone" \/ (q.state = rows[j].state /\ q.kind = rows[j].kind)
      BY <1>0, <3>1, GoneRow DEF Row
    <3> QED BY <1>0, <3>1, <3>2 DEF TypeOK
  <2>3. \A i \in Jobs : WaitingGrant(i)' <= WaitingGrant(i)
    BY <2>2 DEF WaitingGrant
  <2> QED BY <1>0, <1>1, <2>3, RowsShrink
<1> QED BY <1>2, <1>3

LEMMA GrantsInit == Init => GrantsCover
<1> SUFFICES ASSUME Init, NEW j \in Jobs
             PROVE  billed[j] + Cardinality(MayBill(j)) + WaitingGrant(j) <= asked[j]
  BY DEF GrantsCover
<1>1. MayBill(j) = {}
  BY DEF Init, MayBill, MayPay, Of, Slotted, Idle
<1>2. Cardinality(MayBill(j)) = 0
  BY <1>1, FS_EmptySet
<1>3. WaitingGrant(j) = 0 /\ billed[j] = 0 /\ asked[j] = 0
  BY DEF Init, WaitingGrant, Blank
<1> QED BY <1>2, <1>3

LEMMA StepKeepsGrants == Inv /\ Inv' /\ GrantsCover /\ [Next]_vars => GrantsCover'
<1> SUFFICES ASSUME Inv, Inv', GrantsCover, [Next]_vars PROVE GrantsCover'
  OBVIOUS
<1>1. CASE UNCHANGED vars
  BY <1>1, SameRowsWait, RowsShrink DEF vars, Inv, TypeOK
<1>2. ASSUME NEW w \in Workers, WorkerStep(w) PROVE GrantsCover'
  BY <1>2, ClaimKeepsGrants, TaskStepKeepsGrants, ShutdownStepKeepsGrants DEF WorkerStep
<1> QED BY <1>1, <1>2, ApiStepKeepsGrants, ClockStepKeepsGrants DEF Next

LEMMA SpecGrants == Spec => [](Inv /\ GrantsCover)
<1>1. Init => Inv /\ GrantsCover
  BY InitInv, GrantsInit
<1>2. Inv /\ GrantsCover /\ [Next]_vars => Inv' /\ GrantsCover'
  BY StepKeepsInv, StepKeepsGrants
<1> QED BY <1>1, <1>2, PTL DEF Spec

\* A transcription, translation or suggestion is paid for at most once for
\* every time a person asked for it, through every crash, stall, deploy,
\* cancel, reap and retry, however many workers there are.
THEOREM PaidOncePerRequest == Spec => []BilledOncePerRequest
<1>1. Inv /\ GrantsCover => BilledOncePerRequest
  <2> SUFFICES ASSUME Inv, GrantsCover, NEW j \in Jobs PROVE billed[j] <= asked[j]
    BY DEF BilledOncePerRequest
  <2>1. /\ billed[j] \in Nat /\ asked[j] \in Nat /\ Cardinality(MayBill(j)) \in Nat
        /\ WaitingGrant(j) \in {0, 1}
    BY MayBillFinite DEF Inv, TypeOK, WaitingGrant
  <2>2. billed[j] + Cardinality(MayBill(j)) + WaitingGrant(j) <= asked[j]
    BY DEF GrantsCover
  <2> QED BY <2>1, <2>2
<1> QED BY <1>1, SpecGrants, PTL

\* The queue implements PaidRuns: an enqueue and an admin's retry grant a run,
\* the first paid request of a run spends one that is granted and not spent,
\* and no other step of the system touches either count.
THEOREM QueueImplementsPaidRuns == Spec => SpendsOnlyWhatWasGranted
<1>1. Init => PaidRuns!Init
  BY DEF Init, PaidRuns!Init
<1>2. Inv /\ Inv' /\ GrantsCover /\ [Next]_vars => [PaidRuns!Next]_<<asked, billed>>
  <2> SUFFICES ASSUME Inv, Inv', GrantsCover, [Next]_vars
               PROVE  PaidRuns!Next \/ UNCHANGED <<asked, billed>>
    OBVIOUS
  <2>1. ASSUME NEW j \in Jobs, NEW p \in Projects, NEW k \in Kinds,
               NEW d \in Digests \cup {"none"}, Enqueue(j, p, k, d)
        PROVE  PaidRuns!Grant(j)
    <3>1. asked[j] = 0
      BY <2>1 DEF Enqueue, Inv, Structure, AskLinks
    <3> QED BY <2>1, <3>1 DEF Enqueue, PaidRuns!Grant, Inv, TypeOK
  <2>2. ASSUME NEW c \in Clients, RetryWrite(c)
        PROVE  PaidRuns!Next \/ UNCHANGED <<asked, billed>>
    <3>1. api[c].job \in Jobs
      BY <2>2 DEF RetryWrite, Inv, Structure, ApiLinks
    <3> QED BY <2>2, <3>1 DEF RetryWrite, PaidRuns!Next, PaidRuns!Grant
  <2>3. ASSUME NEW w \in Workers, NEW s \in Slots, Buy(w, s)
        PROVE  PaidRuns!Spend(tasks[w][s].job) /\ tasks[w][s].job \in Jobs
    BY <2>3, BuyKeepsGrants DEF Buy, PaidRuns!Spend
  <2>4. ASSUME NEW w \in Workers, NEW s \in Slots, TaskStep(w, s)
        PROVE  PaidRuns!Next \/ UNCHANGED <<asked, billed>>
    BY <2>3, <2>4 DEF TaskStep, PaidRuns!Next, OutOfSpace, StartHandler, HandlerReturns,
       HandlerCancelled, HandlerFails, SettleRead, SettleWrite, SettleFails, EndTask,
       BeatRead, BeatWrite
  <2>5. ASSUME NEW w \in Workers, ShutdownStep(w)
        PROVE  UNCHANGED <<asked, billed>>
    BY <2>5 DEF ShutdownStep, Sigterm, GraceEnds, AbandonFails, Abandoned, Exit, Crash,
       AbandonRead, AbandonWrite, CancelTask
  <2>6. ASSUME NEW w \in Workers, WorkerStep(w)
        PROVE  PaidRuns!Next \/ UNCHANGED <<asked, billed>>
    BY <2>4, <2>5, <2>6 DEF WorkerStep, Claim
  <2>7. CASE ApiStep
    BY <2>1, <2>2, <2>7 DEF ApiStep, PaidRuns!Next, CancelRead, CancelWrite, RetryRead,
       DropProjectJobs, DeleteProject
  <2>8. CASE Reap \/ Timer
    BY <2>8 DEF Reap, Timer, HeartbeatAges, BackoffExpires, PurgeOld
  <2>9. CASE UNCHANGED vars
    BY <2>9 DEF vars
  <2> QED BY <2>6, <2>7, <2>8, <2>9 DEF Next
<1> QED BY <1>1, <1>2, SpecGrants, PTL DEF Spec, SpendsOnlyWhatWasGranted, PaidRuns!Spec
-----------------------------------------------------------------------------
\* How a step may change one task and one row.

\* A run that may yet hand its job back: not over, and not the last attempt.
MayReturn(t) == t.pc \in Runners /\ t.attempt < MAX_ATTEMPTS

\* A verdict of another attempt is given while there is one.
Early(t) == t.pc \in {"settle", "write"} /\ t.verdict = "requeue" => t.attempt < MAX_ATTEMPTS

\* A task goes on with the attempt it was started for, or frees its slot.
Moves(t, u) ==
    \/ u = Idle
    \/ /\ t.pc # "idle" /\ u.job = t.job /\ u.kind = t.kind /\ u.attempt = t.attempt
       /\ MayReturn(u) => MayReturn(t)
       /\ Early(t) => Early(u)

\* The attempts of a row never go down while it is there; and a calm step does
\* not put the row back in the queue either.
Forward(r, q) == q.state = "gone" \/ q.attempts >= r.attempts

Calm(r, q) == Forward(r, q) /\ (q.state = "queued" => r.state = "queued")

LEMMA JudgedMoves ==
    ASSUME NEW t \in Task, NEW v \in Verdicts, NEW c \in BOOLEAN,
           t.pc \in Runners, v = "requeue" => t.attempt < MAX_ATTEMPTS
    PROVE  Moves(t, Judge(t, v, c))
<1>1. /\ Judge(t, v, c).pc = "settle" /\ Judge(t, v, c).verdict = v
      /\ Judge(t, v, c).job = t.job /\ Judge(t, v, c).kind = t.kind
      /\ Judge(t, v, c).attempt = t.attempt
  BY JudgeTask
<1> HIDE DEF Judge
<1> QED BY <1>1 DEF Moves, MayReturn, Early, Runners

LEMMA FailureIsEarly ==
    ASSUME NEW t \in Task, NEW final \in BOOLEAN
    PROVE  Failure(t, final) = "requeue" => t.attempt < MAX_ATTEMPTS
BY QueueAssumption DEF Failure, LastAttempt, Task

\* A task whose pc, and perhaps a field that no move is about, changes.
LEMMA StepMoves ==
    ASSUME NEW t \in Task, NEW u \in Task, t.pc # "idle",
           u.job = t.job, u.kind = t.kind, u.attempt = t.attempt, u.verdict = t.verdict,
           u.pc = t.pc \/ u.pc = "end" \/ (u.pc = "work" /\ t.pc = "start")
                       \/ (u.pc = "write" /\ t.pc = "settle")
    PROVE  Moves(t, u)
BY DEF Moves, MayReturn, Early, Runners

LEMMA TaskStepMoves ==
    ASSUME Inv, NEW w \in Workers, NEW s \in Slots, TaskStep(w, s)
    PROVE  \E u \in Task : Become(w, s, u) /\ Moves(tasks[w][s], u)
<1> DEFINE t == tasks[w][s]
<1>t. t \in Task /\ TypeOK
  BY DEF Inv, TypeOK
<1>r. ASSUME t.pc # "idle"
      PROVE  t.job \in Jobs /\ rows[t.job] \in Row
  BY <1>r DEF Inv, TypeOK, Structure, TaskLinks
<1>j. ASSUME NEW v \in Verdicts, NEW c \in BOOLEAN, Become(w, s, Judge(t, v, c)),
             t.pc \in Runners, v = "requeue" => t.attempt < MAX_ATTEMPTS
      PROVE  \E u \in Task : Become(w, s, u) /\ Moves(t, u)
  BY <1>j, <1>t, JudgeTask, JudgedMoves
<1>p. ASSUME NEW p \in {"work", "write", "end"}, Become(w, s, [t EXCEPT !.pc = p]), t.pc # "idle",
             \/ p = "end" \/ (p = "work" /\ t.pc = "start") \/ (p = "write" /\ t.pc = "settle")
      PROVE  \E u \in Task : Become(w, s, u) /\ Moves(t, u)
  <2> DEFINE u == [t EXCEPT !.pc = p]
  <2>1. u \in Task /\ u.job = t.job /\ u.kind = t.kind /\ u.attempt = t.attempt
        /\ u.verdict = t.verdict /\ u.pc = p
    BY <1>t DEF Task
  <2> HIDE DEF u
  <2>2. Moves(t, u)
    BY <1>p, <1>t, <2>1, StepMoves
  <2>3. Become(w, s, u)
    BY <1>p DEF u
  <2> QED BY <2>1, <2>2, <2>3
<1>1. CASE OutOfSpace(w, s)
  <2>1. PICK b \in BOOLEAN :
          Become(w, s, Judge(t, IF b \/ t.attempt >= MAX_ATTEMPTS THEN "failed" ELSE "requeue", TRUE))
    BY <1>1 DEF OutOfSpace
  <2>2. PICK v \in Verdicts : v = IF b \/ t.attempt >= MAX_ATTEMPTS THEN "failed" ELSE "requeue"
    BY DEF Verdicts
  <2>3. v = "requeue" => t.attempt < MAX_ATTEMPTS
    BY <1>t, <2>2, QueueAssumption DEF Task
  <2>4. t.pc \in Runners
    BY <1>1 DEF OutOfSpace, Runners
  <2> QED BY <1>j, <2>1, <2>2, <2>3, <2>4
<1>2. CASE StartHandler(w, s)
  BY <1>2, <1>p DEF StartHandler
<1>3. CASE Buy(w, s)
  <2> DEFINE u == [t EXCEPT !.bought = TRUE]
  <2>1. u \in Task /\ u.job = t.job /\ u.kind = t.kind /\ u.attempt = t.attempt
        /\ u.verdict = t.verdict /\ u.pc = t.pc
    BY <1>t DEF Task
  <2>2. Become(w, s, u) /\ t.pc = "work"
    BY <1>3 DEF Buy
  <2> HIDE DEF u
  <2> QED BY <1>t, <2>1, <2>2, StepMoves
<1>4. CASE HandlerReturns(w, s)
  <2>1. PICK v \in {"canceled", "done"} : Become(w, s, Judge(t, v, FALSE))
    BY <1>4 DEF HandlerReturns
  <2> QED BY <1>4, <1>j, <2>1 DEF HandlerReturns, Verdicts, Runners
<1>5. CASE HandlerCancelled(w, s)
  BY <1>5, <1>j DEF HandlerCancelled, Verdicts, Runners
<1>6. CASE HandlerFails(w, s)
  <2>1. PICK final \in BOOLEAN : Become(w, s, Judge(t, Failure(t, final), TRUE))
    BY <1>6 DEF HandlerFails
  <2>2. t.pc \in Runners
    BY <1>6 DEF HandlerFails, Runners
  <2>3. /\ Failure(t, final) \in Verdicts
        /\ Failure(t, final) = "requeue" => t.attempt < MAX_ATTEMPTS
    BY <1>t, FailureVerdict, FailureIsEarly
  <2> QED BY <1>j, <2>1, <2>2, <2>3
<1>7. CASE SettleRead(w, s)
  <2>1. PICK p \in {"write", "end"} : Become(w, s, [t EXCEPT !.pc = p])
    BY <1>7 DEF SettleRead
  <2> QED BY <1>7, <1>p, <2>1 DEF SettleRead
<1>8. CASE SettleWrite(w, s)
  <2>1. t.pc = "write" /\ Become(w, s, [t EXCEPT !.pc = "end"])
    BY <1>8 DEF SettleWrite
  <2> QED BY <1>p, <2>1
<1>9. CASE SettleFails(w, s)
  <2>1. t.pc \in {"settle", "write"}
    BY <1>9 DEF SettleFails
  <2>2. CASE t.caught
    BY <1>9, <1>p, <2>1, <2>2 DEF SettleFails
  <2>3. CASE ~t.caught
    <3>1. Become(w, s, Judge(t, Failure(t, FALSE), TRUE))
      BY <1>9, <2>3 DEF SettleFails
    <3>2. /\ Failure(t, FALSE) \in Verdicts
          /\ Failure(t, FALSE) = "requeue" => t.attempt < MAX_ATTEMPTS
      BY <1>t, FailureVerdict, FailureIsEarly
    <3> QED BY <1>j, <2>1, <3>1, <3>2 DEF Runners
  <2> QED BY <2>2, <2>3
<1>10. CASE EndTask(w, s)
  BY <1>10, IdleTask DEF EndTask, Moves
<1>11. CASE BeatRead(w, s)
  <2> DEFINE u == Heard(t, rows[t.job])
  <2>1. Become(w, s, u) /\ t.pc # "idle"
    BY <1>11 DEF BeatRead
  <2>2. u \in Task /\ u.job = t.job /\ u.kind = t.kind /\ u.pc = t.pc /\ u.verdict = t.verdict
        /\ u.attempt = t.attempt
    BY <1>t, <1>r, <2>1, HeardTask
  <2> HIDE DEF u
  <2> QED BY <1>t, <2>1, <2>2, StepMoves
<1>12. CASE BeatWrite(w, s)
  <2> DEFINE u == [t EXCEPT !.beat = "no", !.cancel = @ \/ t.beat = "asked"]
  <2>1. t.beat # "no" /\ Become(w, s, u)
    BY <1>12 DEF BeatWrite
  <2>2. t.pc # "idle"
    BY <2>1 DEF Inv, Structure, TaskLinks, Idle
  <2>3. u \in Task /\ u.job = t.job /\ u.kind = t.kind /\ u.pc = t.pc /\ u.verdict = t.verdict
        /\ u.attempt = t.attempt
    BY <1>t DEF Task
  <2> HIDE DEF u
  <2> QED BY <1>t, <2>1, <2>2, <2>3, StepMoves
<1> QED BY <1>1, <1>2, <1>3, <1>4, <1>5, <1>6, <1>7, <1>8, <1>9, <1>10, <1>11, <1>12 DEF TaskStep

LEMMA CancelTaskMoves ==
    ASSUME Inv, NEW w \in Workers, NEW s \in Slots, CancelTask(w, s)
    PROVE  \E u \in Task : Become(w, s, u) /\ Moves(tasks[w][s], u)
<1> DEFINE u == [tasks[w][s] EXCEPT !.pc = "end"]
<1>1. tasks[w][s] \in Task
  BY DEF Inv, TypeOK
<1>2. u \in Task /\ u.job = tasks[w][s].job /\ u.kind = tasks[w][s].kind
      /\ u.attempt = tasks[w][s].attempt /\ u.verdict = tasks[w][s].verdict /\ u.pc = "end"
  BY <1>1 DEF Task
<1>3. Become(w, s, u) /\ tasks[w][s].pc # "idle"
  BY DEF CancelTask
<1> HIDE DEF u
<1> QED BY <1>1, <1>2, <1>3, StepMoves

LEMMA CalmItself == ASSUME NEW r \in Row PROVE Calm(r, r)
BY DEF Calm, Forward, Row

LEMMA UpdateIsCalm ==
    ASSUME TypeOK, NEW j \in Jobs, NEW q \in Row, Update(j, q),
           rows[j].state # "gone" => Calm(rows[j], q)
    PROVE  \A i \in Jobs : Calm(rows[i], rows'[i])
BY UpdateRows, CalmItself DEF TypeOK

\* Of the steps of a task, the one that requeues its job is alone in putting
\* a row back in the queue.
LEMMA TaskStepRows ==
    ASSUME Inv, NEW w \in Workers, NEW s \in Slots, TaskStep(w, s), NEW j \in Jobs
    PROVE  /\ Forward(rows[j], rows'[j])
           /\ ~(SettleWrite(w, s) /\ tasks[w][s].verdict = "requeue") => Calm(rows[j], rows'[j])
<1> DEFINE t == tasks[w][s]
<1>0. TypeOK /\ \A i \in Jobs : rows[i] \in Row /\ Calm(rows[i], rows[i])
  BY CalmItself DEF Inv, TypeOK
<1>1. CASE SettleWrite(w, s)
  <2> DEFINE q == Record(rows[t.job], t.verdict)
  <2>1. t.pc = "write" /\ Update(t.job, q)
    BY <1>1 DEF SettleWrite
  <2>2. t.job \in Jobs /\ rows[t.job] \in Row /\ t.verdict \in Verdicts
    BY <2>1, <1>0 DEF Inv, Structure, TaskLinks
  <2>3. q \in Row /\ q.attempts = rows[t.job].attempts /\ (q.state = "queued" <=> t.verdict = "requeue")
    BY <2>2, RecordRow
  <2> HIDE DEF q
  <2>4. rows'[j] = rows[j] \/ (t.job = j /\ rows'[j] = q)
    BY <1>0, <2>1, <2>2, <2>3, UpdateRows
  <2>5. rows[t.job].attempts \in Nat
    BY <2>2 DEF Row
  <2>6. CASE rows'[j] = rows[j]
    BY <1>0, <2>6 DEF Calm
  <2>7. CASE t.job = j /\ rows'[j] = q
    BY <1>1, <2>3, <2>5, <2>7 DEF Calm, Forward
  <2> QED BY <2>4, <2>6, <2>7
<1>2. CASE BeatWrite(w, s)
  <2> DEFINE r == [rows[t.job] EXCEPT !.beat = "fresh"]
  <2>1. t.beat # "no" /\ Update(t.job, r)
    BY <1>2 DEF BeatWrite
  <2>2. t.pc # "idle"
    BY <2>1 DEF Inv, Structure, TaskLinks, Idle
  <2>3. t.job \in Jobs /\ rows[t.job] \in Row
    BY <1>0, <2>2 DEF Inv, Structure, TaskLinks
  <2>4. r \in Row /\ r.state = rows[t.job].state /\ r.attempts = rows[t.job].attempts
    BY <2>3 DEF Row
  <2>5. rows[t.job].attempts \in Nat
    BY <2>3 DEF Row
  <2> HIDE DEF r
  <2>6. Calm(rows[t.job], r)
    BY <2>4, <2>5 DEF Calm, Forward
  <2> QED BY <1>0, <2>1, <2>3, <2>4, <2>6, UpdateIsCalm DEF Calm
<1>3. CASE rows' = rows
  BY <1>0, <1>3 DEF Calm
<1> QED BY <1>1, <1>2, <1>3 DEF TaskStep, OutOfSpace, StartHandler, Buy, HandlerReturns,
        HandlerCancelled, HandlerFails, SettleRead, SettleFails, EndTask, BeatRead

LEMMA ShutdownStepMoves ==
    ASSUME Inv, NEW w \in Workers, ShutdownStep(w), NEW v \in Workers, NEW s \in Slots
    PROVE  tasks'[v][s] = tasks[v][s] \/ Moves(tasks[v][s], tasks'[v][s])
<1>1. CASE tasks' = tasks
  BY <1>1
<1>2. CASE Crash(w)
  <2>1. tasks' = [tasks EXCEPT ![w] = [u \in Slots |-> Idle]]
    BY <1>2 DEF Crash
  <2>2. tasks'[v][s] = Idle \/ tasks'[v][s] = tasks[v][s]
    BY <2>1 DEF Inv, TypeOK
  <2> QED BY <2>2 DEF Moves
<1>3. ASSUME NEW u \in Slots, CancelTask(w, u)
      PROVE  tasks'[v][s] = tasks[v][s] \/ Moves(tasks[v][s], tasks'[v][s])
  <2>1. PICK t \in Task : Become(w, u, t) /\ Moves(tasks[w][u], t)
    BY <1>3, CancelTaskMoves
  <2>2. \/ <<v, s>> = <<w, u>> /\ tasks'[v][s] = t
        \/ tasks'[v][s] = tasks[v][s]
    BY <2>1, BecomeTasks DEF Inv
  <2> QED BY <2>1, <2>2
<1> QED BY <1>1, <1>2, <1>3 DEF ShutdownStep, Sigterm, GraceEnds, AbandonFails, Abandoned,
        Exit, AbandonRead, AbandonWrite

\* The row an abandon writes: settled or back in the queue, its count kept.
LEMMA AbandonedRow ==
    ASSUME Inv, NEW w \in Workers, NEW s \in Slots, AbandonWrite(w, s)
    PROVE  /\ tasks[w][s].job \in Jobs /\ tasks[w][s].pc # "idle"
           /\ \E q \in Row :
                /\ Update(tasks[w][s].job, q)
                /\ q.attempts = rows[tasks[w][s].job].attempts
                /\ LastAttempt(tasks[w][s]) => q.state # "queued"
<1> DEFINE t == tasks[w][s]
           r == rows[t.job]
           q == IF LastAttempt(t) THEN Settle(r, "failed") ELSE HandBack(r, FALSE)
<1>1. s \in drain[w].open /\ Update(t.job, q)
  BY DEF AbandonWrite
<1>2. t.pc # "idle" /\ t.job \in Jobs /\ r \in Row
  BY <1>1 DEF Inv, TypeOK, Structure, TaskLinks, DrainLinks
<1>3. q \in Row /\ q.attempts = r.attempts /\ (LastAttempt(t) => q.state # "queued")
  BY <1>2, SettleRow, HandBackRow DEF Terminal
<1> HIDE DEF q
<1> QED BY <1>1, <1>2, <1>3

LEMMA ShutdownStepRows ==
    ASSUME Inv, NEW w \in Workers, ShutdownStep(w), NEW j \in Jobs
    PROVE  /\ Forward(rows[j], rows'[j])
           /\ (\A s \in Slots : ~AbandonWrite(w, s)) => Calm(rows[j], rows'[j])
<1>0. TypeOK /\ \A i \in Jobs : rows[i] \in Row /\ Calm(rows[i], rows[i])
  BY CalmItself DEF Inv, TypeOK
<1>1. CASE rows' = rows
  BY <1>0, <1>1 DEF Calm
<1>2. ASSUME NEW s \in Slots, AbandonWrite(w, s) PROVE Forward(rows[j], rows'[j])
  <2>1. PICK q \in Row : /\ Update(tasks[w][s].job, q)
                         /\ q.attempts = rows[tasks[w][s].job].attempts
    BY <1>2, AbandonedRow
  <2>2. tasks[w][s].job \in Jobs
    BY <1>2, AbandonedRow
  <2>3. rows'[j] = rows[j] \/ (tasks[w][s].job = j /\ rows'[j] = q)
    BY <1>0, <2>1, <2>2, UpdateRows
  <2>4. CASE rows'[j] = rows[j]
    BY <1>0, <2>4 DEF Calm
  <2>5. CASE tasks[w][s].job = j /\ rows'[j] = q
    <3>1. rows[j].attempts \in Nat
      BY <1>0 DEF Row
    <3> QED BY <2>1, <2>5, <3>1 DEF Forward
  <2> QED BY <2>3, <2>4, <2>5
<1> QED BY <1>1, <1>2 DEF ShutdownStep, Sigterm, GraceEnds, AbandonFails, Abandoned,
        Exit, Crash, AbandonRead, CancelTask

\* The reaper counts an attempt of the row, and hands it back while there is
\* one more.
LEMMA ReapRows ==
    ASSUME Inv, Reap, NEW j \in Jobs
    PROVE  /\ Forward(rows[j], rows'[j])
           /\ \/ Calm(rows[j], rows'[j])
              \/ /\ rows[j].state = "running" /\ rows[j].attempts + 1 < MAX_ATTEMPTS
                 /\ rows'[j].attempts = rows[j].attempts + 1
<1>1. rows'[j] = IF Stale(rows[j]) THEN Reaped(rows[j]) ELSE rows[j]
  BY DEF Reap
<1>2. rows[j] \in Row /\ Calm(rows[j], rows[j]) /\ rows[j].attempts \in Nat
  BY CalmItself DEF Inv, TypeOK, Row
<1>3. CASE ~Stale(rows[j])
  BY <1>1, <1>2, <1>3 DEF Calm
<1>4. CASE Stale(rows[j])
  <2> DEFINE c == [rows[j] EXCEPT !.attempts = @ + 1]
  <2>1. c \in Row
    BY <1>2 DEF Row
  <2>2. Reaped(rows[j]) = IF GivesUp(rows[j]) THEN Settle(c, "failed") ELSE HandBack(c, TRUE)
    BY DEF Reaped
  <2>3. Settle(c, "failed").state = "failed"
    BY <2>1, SettleRow DEF Terminal
  <2> HIDE DEF c
  <2>4. Reaped(rows[j]).attempts = rows[j].attempts + 1
    BY <1>2, ReapedRow
  <2>5. Reaped(rows[j]).state = "queued" => rows[j].attempts + 1 < MAX_ATTEMPTS
    <3> SUFFICES ASSUME Reaped(rows[j]).state = "queued"
                 PROVE  rows[j].attempts + 1 < MAX_ATTEMPTS
      OBVIOUS
    <3>1. ~GivesUp(rows[j])
      BY <2>2, <2>3
    <3>2. MAX_ATTEMPTS \in Nat /\ ~(rows[j].attempts + 1 >= MAX_ATTEMPTS)
      BY <3>1, QueueAssumption DEF GivesUp
    <3> QED BY <1>2, <3>2
  <2> QED BY <1>1, <1>2, <1>4, <2>4, <2>5 DEF Calm, Forward, Stale
<1> QED BY <1>3, <1>4

LEMMA TimerIsCalm ==
    ASSUME Inv, Timer, NEW i \in Jobs
    PROVE  Calm(rows[i], rows'[i])
<1>0. TypeOK /\ rows[i] \in Row /\ Calm(rows[i], rows[i]) /\ rows[i].attempts \in Nat
  BY CalmItself DEF Inv, TypeOK, Row
<1>1. PICK j \in Jobs : HeartbeatAges(j) \/ BackoffExpires(j) \/ PurgeOld(j)
  BY DEF Timer
<1>2. PICK q : /\ rows' = [rows EXCEPT ![j] = q]
               /\ \/ q = Gone
                  \/ q = [rows[j] EXCEPT !.beat = "stale"]
                  \/ q = [rows[j] EXCEPT !.wait = FALSE]
  BY <1>0, <1>1 DEF HeartbeatAges, BackoffExpires, PurgeOld, TypeOK
<1>3. CASE i # j
  <2>1. rows'[i] = rows[i]
    BY <1>0, <1>2, <1>3 DEF TypeOK
  <2> QED BY <1>0, <2>1
<1>4. CASE i = j
  <2>1. rows'[i] = q
    BY <1>0, <1>2, <1>4 DEF TypeOK
  <2>2. q.state = "gone" \/ (q.state = rows[i].state /\ q.attempts = rows[i].attempts)
    BY <1>0, <1>2, <1>4, GoneRow DEF Row
  <2>3. q.state = "gone" => q.state # "queued"
    OBVIOUS
  <2> QED BY <1>0, <2>1, <2>2, <2>3 DEF Calm, Forward
<1> QED BY <1>3, <1>4

\* A request to cancel and the deletion of a project are calm as well.
LEMMA CancelIsCalm ==
    ASSUME Inv, NEW c \in Clients, CancelWrite(c), NEW i \in Jobs
    PROVE  Calm(rows[i], rows'[i])
<1> DEFINE j == api[c].job
           r == [rows[j] EXCEPT !.cancel = TRUE]
           q == IF api[c].state = "queued" THEN Settle(r, "canceled") ELSE r
<1>1. Update(j, q) /\ j \in Jobs /\ TypeOK
  BY DEF CancelWrite, Inv, Structure, ApiLinks
<1>2. rows[j] \in Row /\ rows[j].attempts \in Nat
  BY <1>1 DEF TypeOK, Row
<1>3. r \in Row /\ r.state = rows[j].state /\ r.attempts = rows[j].attempts
  BY <1>2 DEF Row
<1> HIDE DEF r
<1>4. /\ q \in Row /\ q.attempts = rows[j].attempts
      /\ q.state = "canceled" \/ q.state = rows[j].state
  BY <1>3, SettleRow DEF Terminal
<1> HIDE DEF q
<1>5. Calm(rows[j], q)
  BY <1>2, <1>4 DEF Calm, Forward
<1> QED BY <1>1, <1>4, <1>5, UpdateIsCalm

LEMMA ProjectStepIsCalm ==
    ASSUME Inv, NEW p \in Projects, DropProjectJobs(p) \/ DeleteProject(p), NEW i \in Jobs
    PROVE  Calm(rows[i], rows'[i])
<1>1. rows[i] \in Row /\ Calm(rows[i], rows[i]) /\ rows[i].attempts \in Nat
  BY CalmItself DEF Inv, TypeOK, Row
<1>2. /\ Settle(rows[i], "canceled").state = "canceled"
      /\ Settle(rows[i], "canceled").attempts = rows[i].attempts
  BY <1>1, SettleRow DEF Terminal
<1>3. rows'[i] \in {rows[i], Settle(rows[i], "canceled"), Gone}
  BY Zenon DEF DropProjectJobs, DeleteProject
<1>4. Calm(rows[i], Settle(rows[i], "canceled"))
  BY <1>1, <1>2 DEF Calm, Forward
<1>5. Calm(rows[i], Gone)
  BY GoneRow DEF Calm, Forward
<1> QED BY <1>1, <1>3, <1>4, <1>5
-----------------------------------------------------------------------------
\* The fencing token.

\* A step that keeps every task on its attempt and takes no row back keeps
\* the fence of every job that it does not grant another run.
LEMMA FenceKept ==
    ASSUME Inv, Inv', FencedUntilRetried,
           \A w \in Workers, s \in Slots :
             tasks'[w][s] = tasks[w][s] \/ Moves(tasks[w][s], tasks'[w][s]),
           \A j \in Jobs : asked'[j] = 1 =>
             /\ asked[j] = 1 /\ Forward(rows[j], rows'[j])
             /\ rows[j].state = "gone" => rows'[j].state = "gone"
    PROVE  FencedUntilRetried'
<1>1. ASSUME NEW j \in Jobs, NEW w \in Workers, NEW s \in Slots, tasks'[w][s].job = j
      PROVE  tasks[w][s].job = j /\ tasks'[w][s].attempt = tasks[w][s].attempt
  <2>1. Idle.job \notin Jobs
    BY QueueAssumption DEF Idle
  <2> QED BY <1>1, <2>1 DEF Moves
<1> SUFFICES ASSUME NEW j \in Jobs, asked'[j] = 1
             PROVE  /\ \A v, w \in Of(j)' :
                         tasks'[v[1]][v[2]].attempt = tasks'[w[1]][w[2]].attempt => v = w
                    /\ \A v \in Of(j)' :
                         rows'[j].state # "gone" => tasks'[v[1]][v[2]].attempt <= rows'[j].attempts
  BY DEF FencedUntilRetried
<1>2. asked[j] = 1 /\ Forward(rows[j], rows'[j])
      /\ (rows[j].state = "gone" => rows'[j].state = "gone")
  OBVIOUS
<1>3. \A v \in Of(j)' : v \in Of(j) /\ tasks'[v[1]][v[2]].attempt = tasks[v[1]][v[2]].attempt
  BY <1>1 DEF Of, Slotted
<1>4. /\ \A v, w \in Of(j) :
           tasks[v[1]][v[2]].attempt = tasks[w[1]][w[2]].attempt => v = w
      /\ \A v \in Of(j) :
           rows[j].state # "gone" => tasks[v[1]][v[2]].attempt <= rows[j].attempts
  BY <1>2 DEF FencedUntilRetried
<1>5. ASSUME NEW v \in Of(j)', rows'[j].state # "gone"
      PROVE  tasks'[v[1]][v[2]].attempt <= rows'[j].attempts
  <2>1. tasks'[v[1]][v[2]].attempt = tasks[v[1]][v[2]].attempt
        /\ tasks[v[1]][v[2]].attempt <= rows[j].attempts
    BY <1>2, <1>3, <1>4, <1>5
  <2>2. rows'[j].attempts >= rows[j].attempts
    BY <1>2, <1>5 DEF Forward
  <2>3. /\ rows[j].attempts \in Nat /\ rows'[j].attempts \in Nat
        /\ tasks[v[1]][v[2]].attempt \in Nat
    BY <1>3 DEF Inv, TypeOK, Row, Task, Of, Slotted
  <2> QED BY <2>1, <2>2, <2>3
<1> QED BY <1>3, <1>4, <1>5

\* A claim gives its task a token that no other task of the job has.
LEMMA ClaimKeepsFence ==
    ASSUME Inv, Inv', FencedUntilRetried, NEW w \in Workers, NEW s \in Slots, NEW j \in Jobs,
           Claim(w, s, j)
    PROVE  FencedUntilRetried'
<1>1. /\ rows[j].state = "queued" /\ rows[j] \in Row /\ TypeOK /\ UNCHANGED asked
      /\ rows'[j].attempts = rows[j].attempts + 1
      /\ \A i \in Jobs : i # j => rows'[i] = rows[i]
      /\ rows[j].attempts \in Nat
  <2>1. rows[j].state = "queued" /\ rows[j] \in Row /\ TypeOK /\ UNCHANGED asked
    BY DEF Claim, Claimable, Runnable, Inv, TypeOK
  <2>2. rows[j].attempts \in Nat
    BY <2>1 DEF Row
  <2>3. /\ rows'[j].attempts = rows[j].attempts + 1
        /\ \A i \in Jobs : i # j => rows'[i] = rows[i]
    BY <2>1 DEF Claim, TypeOK, Row
  <2> QED BY <2>1, <2>2, <2>3
<1>2. /\ tasks'[w][s].job = j /\ tasks'[w][s].attempt = rows[j].attempts + 1
      /\ \A v \in Workers, u \in Slots : <<v, u>> # <<w, s>> => tasks'[v][u] = tasks[v][u]
  BY <1>1 DEF Claim, TypeOK, Idle
<1> SUFFICES ASSUME NEW i \in Jobs, asked[i] = 1
             PROVE  /\ \A v, u \in Of(i)' :
                         tasks'[v[1]][v[2]].attempt = tasks'[u[1]][u[2]].attempt => v = u
                    /\ \A v \in Of(i)' :
                         rows'[i].state # "gone" => tasks'[v[1]][v[2]].attempt <= rows'[i].attempts
  BY <1>1 DEF FencedUntilRetried
<1>3. /\ \A v, u \in Of(i) :
           tasks[v[1]][v[2]].attempt = tasks[u[1]][u[2]].attempt => v = u
      /\ \A v \in Of(i) :
           rows[i].state # "gone" => tasks[v[1]][v[2]].attempt <= rows[i].attempts
  BY DEF FencedUntilRetried
<1>4. \A v \in Of(i)' : \/ /\ v \in Of(i) /\ v # <<w, s>>
                           /\ tasks'[v[1]][v[2]] = tasks[v[1]][v[2]]
                        \/ i = j /\ v = <<w, s>>
  BY <1>2 DEF Of, Slotted
<1>5. CASE i # j
  BY <1>1, <1>3, <1>4, <1>5
<1>6. CASE i = j
  <2>1. ASSUME NEW v \in Of(i), v # <<w, s>>
        PROVE  /\ tasks[v[1]][v[2]].attempt \in Nat
               /\ tasks[v[1]][v[2]].attempt < rows[j].attempts + 1
    <3>1. tasks[v[1]][v[2]].attempt \in Nat
      BY <1>1 DEF TypeOK, Task, Of, Slotted
    <3>2. tasks[v[1]][v[2]].attempt <= rows[j].attempts
      BY <1>1, <1>3, <1>6, <2>1
    <3> QED BY <1>1, <3>1, <3>2
  <2>2. ASSUME NEW v \in Of(i)', NEW u \in Of(i)',
               tasks'[v[1]][v[2]].attempt = tasks'[u[1]][u[2]].attempt
        PROVE  v = u
    <3>n. tasks'[w][s].attempt = rows[j].attempts + 1
      BY <1>2
    <3>1. CASE v = <<w, s>> /\ u # <<w, s>>
      <4>1. u \in Of(i) /\ tasks'[u[1]][u[2]] = tasks[u[1]][u[2]]
        BY <1>4, <3>1
      <4>2. tasks[u[1]][u[2]].attempt < rows[j].attempts + 1 /\ tasks[u[1]][u[2]].attempt \in Nat
        BY <2>1, <3>1, <4>1
      <4>3. tasks[u[1]][u[2]].attempt = rows[j].attempts + 1
        BY <2>2, <3>1, <3>n, <4>1
      <4> QED BY <1>1, <4>2, <4>3
    <3>2. CASE u = <<w, s>> /\ v # <<w, s>>
      <4>1. v \in Of(i) /\ tasks'[v[1]][v[2]] = tasks[v[1]][v[2]]
        BY <1>4, <3>2
      <4>2. tasks[v[1]][v[2]].attempt < rows[j].attempts + 1 /\ tasks[v[1]][v[2]].attempt \in Nat
        BY <2>1, <3>2, <4>1
      <4>3. tasks[v[1]][v[2]].attempt = rows[j].attempts + 1
        BY <2>2, <3>2, <3>n, <4>1
      <4> QED BY <1>1, <4>2, <4>3
    <3>3. CASE u # <<w, s>> /\ v # <<w, s>>
      BY <1>3, <1>4, <2>2, <3>3
    <3> QED BY <3>1, <3>2, <3>3
  <2>3. ASSUME NEW v \in Of(i)'
        PROVE  tasks'[v[1]][v[2]].attempt <= rows'[i].attempts
    <3>1. CASE v = <<w, s>>
      BY <1>1, <1>2, <1>6, <3>1
    <3>2. CASE v # <<w, s>>
      <4>1. v \in Of(i) /\ tasks'[v[1]][v[2]] = tasks[v[1]][v[2]]
        BY <1>4, <3>2
      <4>2. /\ tasks[v[1]][v[2]].attempt < rows[j].attempts + 1
            /\ tasks[v[1]][v[2]].attempt \in Nat
        BY <2>1, <3>2, <4>1
      <4> QED BY <1>1, <1>6, <4>1, <4>2
    <3> QED BY <3>1, <3>2
  <2> QED BY <2>2, <2>3
<1> QED BY <1>5, <1>6

\* No task names a job before its row is there.
LEMMA NewHasNoTask ==
    ASSUME Inv, NEW j \in Jobs, rows[j].state = "new"
    PROVE  Of(j) = {}
<1> SUFFICES ASSUME NEW w \in Workers, NEW s \in Slots, tasks[w][s].job = j
             PROVE  FALSE
  BY DEF Of, Slotted
<1>1. Idle.job \notin Jobs
  BY QueueAssumption DEF Idle
<1> QED BY <1>1 DEF Inv, Structure, TaskLinks

LEMMA ApiStepKeepsFence ==
    ASSUME Inv, Inv', FencedUntilRetried, ApiStep
    PROVE  FencedUntilRetried'
<1>0. TypeOK /\ \A j \in Jobs : rows[j] \in Row /\ Forward(rows[j], rows[j])
  BY CalmItself DEF Inv, TypeOK, Calm
<1>1. ASSUME NEW j \in Jobs, NEW p \in Projects, NEW k \in Kinds,
             NEW d \in Digests \cup {"none"}, Enqueue(j, p, k, d)
      PROVE  FencedUntilRetried'
  <2>1. /\ rows[j].state = "new" /\ UNCHANGED tasks
        /\ \A i \in Jobs : i # j => rows'[i] = rows[i] /\ asked'[i] = asked[i]
    BY <1>0, <1>1 DEF Enqueue, TypeOK
  <2>2. Of(j)' = {}
    BY <2>1, NewHasNoTask DEF Of
  <2>3. \A i \in Jobs : Of(i)' = Of(i)
    BY <2>1 DEF Of
  <2> SUFFICES ASSUME NEW i \in Jobs, asked'[i] = 1
               PROVE  /\ \A v, u \in Of(i)' :
                           tasks'[v[1]][v[2]].attempt = tasks'[u[1]][u[2]].attempt => v = u
                      /\ \A v \in Of(i)' : rows'[i].state # "gone" =>
                           tasks'[v[1]][v[2]].attempt <= rows'[i].attempts
    BY DEF FencedUntilRetried
  <2>4. CASE i = j
    BY <2>2, <2>4
  <2>5. CASE i # j
    BY <2>1, <2>3, <2>5 DEF FencedUntilRetried
  <2> QED BY <2>4, <2>5
<1>2. ASSUME NEW c \in Clients, NEW j \in Jobs, CancelRead(c, j) \/ RetryRead(c, j)
      PROVE  FencedUntilRetried'
  <2>1. UNCHANGED <<rows, tasks, asked>>
    BY <1>2 DEF CancelRead, RetryRead
  <2> QED BY <1>0, <2>1, FenceKept
<1>3. ASSUME NEW c \in Clients, CancelWrite(c)
      PROVE  FencedUntilRetried'
  <2>1. UNCHANGED <<tasks, asked>>
    BY <1>3 DEF CancelWrite
  <2>2. \A i \in Jobs : rows[i].state = "gone" => rows'[i].state = "gone"
    BY <1>3, <1>0 DEF CancelWrite, Update, TypeOK
  <2>3. \A i \in Jobs : Forward(rows[i], rows'[i])
    BY <1>3, CancelIsCalm DEF Calm
  <2> QED BY <2>1, <2>2, <2>3, FenceKept
<1>4. ASSUME NEW c \in Clients, RetryWrite(c)
      PROVE  FencedUntilRetried'
  <2> DEFINE j == api[c].job
  <2>1. j \in Jobs /\ rows[j].state # "new"
    BY <1>4 DEF RetryWrite, Inv, Structure, ApiLinks
  <2>2. asked[j] \in Nat /\ asked[j] >= 1
    BY <2>1 DEF Inv, TypeOK, Structure, AskLinks
  <2>3. /\ UNCHANGED tasks
        /\ \/ UNCHANGED <<rows, asked>>
           \/ /\ asked'[j] = asked[j] + 1
              /\ \A i \in Jobs : i # j => rows'[i] = rows[i] /\ asked'[i] = asked[i]
    BY <1>0, <1>4, <2>1 DEF RetryWrite, Update, TypeOK
  <2>4. \A i \in Jobs : asked'[i] = 1 => asked[i] = 1 /\ rows'[i] = rows[i]
    BY <2>2, <2>3
  <2> QED BY <1>0, <2>3, <2>4, FenceKept
<1>5. ASSUME NEW p \in Projects, DropProjectJobs(p) \/ DeleteProject(p)
      PROVE  FencedUntilRetried'
  <2>1. UNCHANGED <<tasks, asked>>
    BY <1>5 DEF DropProjectJobs, DeleteProject
  <2>2. \A i \in Jobs : Forward(rows[i], rows'[i])
    BY <1>5, ProjectStepIsCalm DEF Calm
  <2>3. ASSUME NEW i \in Jobs, rows[i].state = "gone"
        PROVE  rows'[i].state = "gone"
    <3>1. rows'[i] = rows[i] \/ rows'[i] = Gone
      BY <1>5, <2>3 DEF DropProjectJobs, DeleteProject
    <3> QED BY <2>3, <3>1, GoneRow
  <2> QED BY <2>1, <2>2, <2>3, FenceKept
<1> QED BY <1>1, <1>2, <1>3, <1>4, <1>5 DEF ApiStep

\* A deleted row stays deleted.
LEMMA UpdateKeepsGone ==
    ASSUME TypeOK, NEW j, NEW q, Update(j, q), NEW i \in Jobs, rows[i].state = "gone"
    PROVE  rows'[i].state = "gone"
BY DEF Update, TypeOK

LEMMA SystemKeepsGone ==
    ASSUME Inv, NEW i \in Jobs, rows[i].state = "gone",
           \/ Reap \/ Timer
           \/ \E w \in Workers : ShutdownStep(w) \/ \E s \in Slots : TaskStep(w, s)
    PROVE  rows'[i].state = "gone"
<1>0. TypeOK
  BY DEF Inv
<1>1. CASE Reap
  BY <1>1 DEF Reap, Stale
<1>2. CASE Timer
  <2>1. PICK j \in Jobs : HeartbeatAges(j) \/ BackoffExpires(j) \/ PurgeOld(j)
    BY <1>2 DEF Timer
  <2>2. PICK q : /\ rows' = [rows EXCEPT ![j] = q]
                 /\ \/ q = Gone
                    \/ q = [rows[j] EXCEPT !.beat = "stale"]
                    \/ q = [rows[j] EXCEPT !.wait = FALSE]
    BY <1>0, <2>1 DEF HeartbeatAges, BackoffExpires, PurgeOld, TypeOK
  <2>3. rows[i] \in Row
    BY <1>0 DEF TypeOK
  <2>4. i = j => q.state = "gone"
    BY <2>2, <2>3, GoneRow DEF Row
  <2> QED BY <1>0, <2>2, <2>4 DEF TypeOK
<1>3. ASSUME NEW w \in Workers, ShutdownStep(w) PROVE rows'[i].state = "gone"
  <2>1. rows' = rows \/ \E s \in Slots : AbandonWrite(w, s)
    BY <1>3 DEF ShutdownStep, Sigterm, GraceEnds, AbandonFails, Abandoned, Exit, Crash,
       AbandonRead, CancelTask
  <2> QED BY <1>0, <2>1, UpdateKeepsGone DEF AbandonWrite
<1>4. ASSUME NEW w \in Workers, NEW s \in Slots, TaskStep(w, s) PROVE rows'[i].state = "gone"
  <2>1. rows' = rows \/ SettleWrite(w, s) \/ BeatWrite(w, s)
    BY <1>4 DEF TaskStep, OutOfSpace, StartHandler, Buy, HandlerReturns, HandlerCancelled,
       HandlerFails, SettleRead, SettleFails, EndTask, BeatRead
  <2> QED BY <1>0, <2>1, UpdateKeepsGone DEF SettleWrite, BeatWrite
<1> QED BY <1>1, <1>2, <1>3, <1>4

\* The steps of the database's clock and of the workers, claims aside.
SystemStep == Reap \/ Timer \/ \E w \in Workers : ShutdownStep(w) \/ \E s \in Slots : TaskStep(w, s)

LEMMA SystemStepMoves ==
    ASSUME Inv, SystemStep
    PROVE  /\ \A w \in Workers, s \in Slots :
                tasks'[w][s] = tasks[w][s] \/ Moves(tasks[w][s], tasks'[w][s])
           /\ \A j \in Jobs : /\ Forward(rows[j], rows'[j])
                              /\ rows[j].state = "gone" => rows'[j].state = "gone"
           /\ UNCHANGED <<asked, runs>>
<1>1. \A j \in Jobs : rows[j].state = "gone" => rows'[j].state = "gone"
  BY SystemKeepsGone DEF SystemStep
<1>2. CASE Reap \/ Timer
  <2>1. UNCHANGED <<tasks, asked, runs>>
    BY <1>2 DEF Reap, Timer, HeartbeatAges, BackoffExpires, PurgeOld
  <2> QED BY <1>1, <1>2, <2>1, ReapRows, TimerIsCalm DEF Calm
<1>3. ASSUME NEW w \in Workers, ShutdownStep(w)
      PROVE  /\ \A v \in Workers, s \in Slots :
                  tasks'[v][s] = tasks[v][s] \/ Moves(tasks[v][s], tasks'[v][s])
             /\ \A j \in Jobs : Forward(rows[j], rows'[j])
             /\ UNCHANGED <<asked, runs>>
  <2>1. UNCHANGED <<asked, runs>>
    BY <1>3 DEF ShutdownStep, Sigterm, GraceEnds, AbandonFails, Abandoned, Exit, Crash,
       AbandonRead, AbandonWrite, CancelTask
  <2> QED BY <1>3, <2>1, ShutdownStepMoves, ShutdownStepRows
<1>4. ASSUME NEW w \in Workers, NEW s \in Slots, TaskStep(w, s)
      PROVE  /\ \A v \in Workers, u \in Slots :
                  tasks'[v][u] = tasks[v][u] \/ Moves(tasks[v][u], tasks'[v][u])
             /\ \A j \in Jobs : Forward(rows[j], rows'[j])
             /\ UNCHANGED <<asked, runs>>
  <2>1. PICK t \in Task : Become(w, s, t) /\ Moves(tasks[w][s], t)
    BY <1>4, TaskStepMoves
  <2>2. ASSUME NEW v \in Workers, NEW u \in Slots
        PROVE  tasks'[v][u] = tasks[v][u] \/ Moves(tasks[v][u], tasks'[v][u])
    <3>1. \/ <<v, u>> = <<w, s>> /\ tasks'[v][u] = t
          \/ tasks'[v][u] = tasks[v][u]
      BY <2>1, BecomeTasks DEF Inv
    <3> QED BY <2>1, <3>1
  <2>3. UNCHANGED <<asked, runs>>
    BY <1>4 DEF TaskStep, OutOfSpace, StartHandler, Buy, HandlerReturns, HandlerCancelled,
       HandlerFails, SettleRead, SettleWrite, SettleFails, EndTask, BeatRead, BeatWrite
  <2> QED BY <1>4, <2>2, <2>3, TaskStepRows
<1> QED BY <1>1, <1>2, <1>3, <1>4 DEF SystemStep

LEMMA StepKeepsFence == Inv /\ Inv' /\ FencedUntilRetried /\ [Next]_vars => FencedUntilRetried'
<1> SUFFICES ASSUME Inv, Inv', FencedUntilRetried, [Next]_vars PROVE FencedUntilRetried'
  OBVIOUS
<1>1. CASE UNCHANGED vars
  BY <1>1 DEF vars, FencedUntilRetried, Of
<1>2. CASE SystemStep
  BY <1>2, SystemStepMoves, FenceKept
<1>3. CASE ApiStep
  BY <1>3, ApiStepKeepsFence
<1>4. ASSUME NEW w \in Workers, NEW s \in Slots, NEW j \in Jobs, Claim(w, s, j)
      PROVE  FencedUntilRetried'
  BY <1>4, ClaimKeepsFence
<1> QED BY <1>1, <1>2, <1>3, <1>4 DEF Next, WorkerStep, SystemStep

\* Until an admin retries a job, no two tasks run it under the same count of
\* attempts, and none is ahead of its row: the count that _ours compares is a
\* fencing token through every crash, stall, reap, requeue and deploy.
THEOREM AttemptIsAFence == Spec => []FencedUntilRetried
<1>1. Init => FencedUntilRetried
  BY DEF Init, FencedUntilRetried
<1> QED BY <1>1, SpecInv, StepKeepsFence, PTL DEF Spec
-----------------------------------------------------------------------------
\* The runs of a job.

Returning(j) == {ws \in Of(j) : MayReturn(tasks[ws[1]][ws[2]])}

\* The one kind of task that an abandon hands back, and of which a worker has
\* one: its lane has room for one.
Heavy(t) == t.pc # "idle" /\ ~NoRetry(t.kind)

OneHeavy ==
    \A w \in Workers, s, u \in Slots : Heavy(tasks[w][s]) /\ Heavy(tasks[w][u]) => s = u

\* The workers whose shutdown may yet hand a job back.
Leaving ==
    {w \in Workers : \/ drain[w].phase = "draining"
                     \/ /\ drain[w].phase = "abandoning"
                        /\ \E s \in drain[w].todo : Heavy(tasks[w][s])}

RequeuesEarly == \A w \in Workers, s \in Slots : Early(tasks[w][s])

\* The runs that a row has before it: those of the attempts it may still be
\* handed back for, and the one it waits for.
Ahead(n) == IF n < MAX_ATTEMPTS - 1 THEN MAX_ATTEMPTS - 1 - n ELSE 0
Waits(r) == IF r.state = "queued" THEN 1 ELSE 0
InHand(r) == IF r.state = "gone" THEN 0 ELSE Ahead(r.attempts) + Waits(r)

\* What was asked for, and the deploys so far, cover the runs a job has had,
\* those it has before it, and those that a run or a shutdown may yet cause.
Covers(j) ==
    IF rows[j].state = "new" THEN runs[j] = 0
    ELSE runs[j] + InHand(rows[j]) + Cardinality(Returning(j)) + Cardinality(Leaving)
           <= MAX_ATTEMPTS * asked[j] + used["term"]

RunsCovered == Cardinality(Leaving) <= used["term"] /\ \A j \in Jobs : Covers(j)

RunsInv == OneHeavy /\ RequeuesEarly /\ RunsCovered

LEMMA RunSetsFinite ==
    ASSUME NEW j \in Jobs
    PROVE  /\ IsFiniteSet(Leaving) /\ Cardinality(Leaving) \in Nat
           /\ IsFiniteSet(Returning(j)) /\ Cardinality(Returning(j)) \in Nat
           /\ Cardinality(Leaving') \in Nat /\ Cardinality(Returning(j)') \in Nat
<1>1. IsFiniteSet(Slotted)
  BY QueueAssumption, FS_Product DEF Slotted
<1>2. Leaving \subseteq Workers /\ Returning(j) \subseteq Slotted
  BY DEF Leaving, Returning, Of
<1>3. Leaving' \subseteq Workers /\ Returning(j)' \subseteq Slotted
  BY DEF Leaving, Returning, Of
<1> QED BY <1>1, <1>2, <1>3, QueueAssumption, FS_Subset, FS_CardinalityType

LEMMA InHandType ==
    ASSUME NEW r \in Row
    PROVE  /\ InHand(r) \in Nat
           /\ Ahead(r.attempts) \in Nat /\ Waits(r) \in {0, 1}
           /\ r.state # "gone" => InHand(r) = Ahead(r.attempts) + Waits(r)
<1>1. r.attempts \in Nat /\ MAX_ATTEMPTS \in Nat
  BY QueueAssumption DEF Row
<1> QED BY <1>1 DEF InHand, Ahead, Waits

\* Fewer attempts are ahead of a row that counts more of them.
LEMMA AheadFalls ==
    ASSUME NEW m \in Nat, NEW n \in Nat, m <= n
    PROVE  /\ Ahead(n) <= Ahead(m) /\ Ahead(n) \in Nat /\ Ahead(m) \in Nat
           /\ m < n /\ m < MAX_ATTEMPTS - 1 => Ahead(n) + 1 <= Ahead(m)
BY QueueAssumption DEF Ahead

LEMMA CalmInHand ==
    ASSUME NEW r \in Row, NEW q \in Row, Calm(r, q), r.state = "gone" => q.state = "gone"
    PROVE  InHand(q) <= InHand(r)
<1>1. InHand(r) \in Nat /\ r.attempts \in Nat /\ q.attempts \in Nat
  BY InHandType DEF Row
<1>2. CASE q.state = "gone"
  BY <1>1, <1>2 DEF InHand
<1>3. CASE q.state # "gone"
  <2>1. Ahead(q.attempts) <= Ahead(r.attempts)
    BY <1>1, <1>3, AheadFalls DEF Calm, Forward
  <2>2. Waits(q) <= Waits(r)
    BY DEF Calm, Waits
  <2> QED BY <1>3, <2>1, <2>2, InHandType
<1> QED BY <1>2, <1>3

\* An UPDATE that keeps the count of a row can put at most one run before it.
LEMMA KeptInHand ==
    ASSUME NEW r \in Row, NEW q \in Row, q.attempts = r.attempts, r.state # "gone"
    PROVE  InHand(q) <= InHand(r) + 1
<1>1. CASE q.state = "gone"
  BY <1>1, InHandType DEF InHand
<1>2. CASE q.state # "gone"
  BY <1>2, InHandType
<1> QED BY <1>1, <1>2

\* The arithmetic of a step that asks for nothing.
LEMMA Balance ==
    ASSUME Inv, Inv', NEW j \in Jobs, Covers(j), asked'[j] = asked[j],
           rows[j].state # "new", rows'[j].state # "new",
           runs'[j] + InHand(rows'[j]) + Cardinality(Returning(j)') + Cardinality(Leaving')
               + used["term"]
             <= runs[j] + InHand(rows[j]) + Cardinality(Returning(j)) + Cardinality(Leaving)
               + used'["term"]
    PROVE  Covers(j)'
<1>1. /\ runs[j] \in Nat /\ runs'[j] \in Nat /\ used["term"] \in Nat /\ used'["term"] \in Nat
      /\ rows[j] \in Row /\ rows'[j] \in Row
  BY DEF Inv, TypeOK, Rare
<1>2. InHand(rows[j]) \in Nat /\ InHand(rows'[j]) \in Nat
  BY <1>1, InHandType
<1>3. /\ Cardinality(Returning(j)) \in Nat /\ Cardinality(Leaving) \in Nat
      /\ Cardinality(Returning(j)') \in Nat /\ Cardinality(Leaving') \in Nat
  BY RunSetsFinite
<1>5. PICK n \in Nat : n = MAX_ATTEMPTS * asked[j]
  <2>1. MAX_ATTEMPTS \in Nat /\ asked[j] \in Nat
    BY QueueAssumption DEF Inv, TypeOK
  <2>2. \A a, b \in Nat : a * b \in Nat
    OBVIOUS
  <2> QED BY <2>1, <2>2
<1>6. runs[j] + InHand(rows[j]) + Cardinality(Returning(j)) + Cardinality(Leaving)
        <= n + used["term"]
  BY <1>5 DEF Covers
<1>7. runs'[j] + InHand(rows'[j]) + Cardinality(Returning(j)') + Cardinality(Leaving')
        <= n + used'["term"]
  BY <1>1, <1>2, <1>3, <1>6
<1>8. (rows[j].state # "new")' /\ MAX_ATTEMPTS * asked'[j] = n
  BY <1>5
<1> QED BY <1>7, <1>8 DEF Covers

\* A step that moves no run, shutdown or row towards another run.
LEMMA RunsShrink ==
    ASSUME Inv, Inv', NEW j \in Jobs, Covers(j), asked'[j] = asked[j], runs'[j] = runs[j],
           rows[j].state # "new", rows'[j].state # "new",
           InHand(rows'[j]) <= InHand(rows[j]), Returning(j)' \subseteq Returning(j),
           Leaving' \subseteq Leaving, used'["term"] >= used["term"]
    PROVE  Covers(j)'
<1>1. /\ runs[j] \in Nat /\ used["term"] \in Nat /\ used'["term"] \in Nat
      /\ rows[j] \in Row /\ rows'[j] \in Row
  BY DEF Inv, TypeOK, Rare
<1>2. InHand(rows[j]) \in Nat /\ InHand(rows'[j]) \in Nat
  BY <1>1, InHandType
<1>3. /\ Cardinality(Returning(j)) \in Nat /\ Cardinality(Leaving) \in Nat
      /\ Cardinality(Returning(j)') \in Nat /\ Cardinality(Leaving') \in Nat
  BY RunSetsFinite
<1>4. /\ Cardinality(Returning(j)') <= Cardinality(Returning(j))
      /\ Cardinality(Leaving') <= Cardinality(Leaving)
  BY RunSetsFinite, FS_Subset
<1>5. runs'[j] + InHand(rows'[j]) + Cardinality(Returning(j)') + Cardinality(Leaving')
          + used["term"]
        <= runs[j] + InHand(rows[j]) + Cardinality(Returning(j)) + Cardinality(Leaving)
          + used'["term"]
  BY <1>1, <1>2, <1>3, <1>4
<1> QED BY <1>5, Balance

\* Removing one member of a finite set, and adding one.
LEMMA OneFewer ==
    ASSUME NEW S, IsFiniteSet(S), NEW x \in S, NEW R, R \subseteq S, x \notin R
    PROVE  Cardinality(R) + 1 <= Cardinality(S)
<1>1. IsFiniteSet(S \ {x}) /\ Cardinality(S \ {x}) = Cardinality(S) - 1
  BY FS_RemoveElement
<1>2. R \subseteq S \ {x}
  OBVIOUS
<1>3. Cardinality(R) <= Cardinality(S \ {x}) /\ IsFiniteSet(R)
  BY <1>1, <1>2, FS_Subset
<1>4. Cardinality(R) \in Nat /\ Cardinality(S) \in Nat
  BY <1>3, FS_CardinalityType
<1> QED BY <1>1, <1>3, <1>4

LEMMA OneMore ==
    ASSUME NEW S, IsFiniteSet(S), NEW x, NEW R, R \subseteq S \cup {x}
    PROVE  Cardinality(R) <= Cardinality(S) + 1
<1>1. /\ IsFiniteSet(S \cup {x})
      /\ Cardinality(S \cup {x}) = Cardinality(S) \/ Cardinality(S \cup {x}) = Cardinality(S) + 1
  BY FS_AddElement
<1>2. Cardinality(R) <= Cardinality(S \cup {x}) /\ IsFiniteSet(R)
  BY <1>1, FS_Subset
<1>3. Cardinality(R) \in Nat /\ Cardinality(S) \in Nat
  BY <1>2, FS_CardinalityType
<1> QED BY <1>1, <1>2, <1>3

\* What the moves of the tasks leave as it was.
LEMMA MovesKeepOneHeavy ==
    ASSUME OneHeavy,
           \A w \in Workers, s \in Slots :
             tasks'[w][s] = tasks[w][s] \/ Moves(tasks[w][s], tasks'[w][s])
    PROVE  OneHeavy'
<1>1. ASSUME NEW w \in Workers, NEW s \in Slots, Heavy(tasks'[w][s])
      PROVE  Heavy(tasks[w][s])
  BY <1>1 DEF Heavy, Moves, Idle
<1> QED BY <1>1 DEF OneHeavy

LEMMA MovesStayEarly ==
    ASSUME RequeuesEarly,
           \A w \in Workers, s \in Slots :
             tasks'[w][s] = tasks[w][s] \/ Moves(tasks[w][s], tasks'[w][s])
    PROVE  RequeuesEarly'
<1>1. Early(Idle)
  BY DEF Early, Idle
<1> SUFFICES ASSUME NEW w \in Workers, NEW s \in Slots PROVE Early(tasks'[w][s])
  BY DEF RequeuesEarly, Early
<1> QED BY <1>1 DEF RequeuesEarly, Moves

LEMMA MovesReturn ==
    ASSUME NEW j \in Jobs,
           \A w \in Workers, s \in Slots :
             tasks'[w][s] = tasks[w][s] \/ Moves(tasks[w][s], tasks'[w][s])
    PROVE  Returning(j)' \subseteq Returning(j)
<1>1. Idle.job \notin Jobs
  BY QueueAssumption DEF Idle
<1> SUFFICES ASSUME NEW w \in Workers, NEW s \in Slots,
                    tasks'[w][s].job = j, MayReturn(tasks'[w][s])
             PROVE  tasks[w][s].job = j /\ MayReturn(tasks[w][s])
  BY DEF Returning, Of, Slotted, MayReturn
<1> QED BY <1>1 DEF Moves

\* A worker leaves once: no step but a SIGTERM makes one leave.
LeavesNoMore(d, e) ==
    \/ e = d
    \/ e.phase \notin {"draining", "abandoning"}
    \/ d.phase = "draining"
    \/ d.phase = "abandoning" /\ e.phase = d.phase /\ e.todo \subseteq d.todo

LEMMA MovesLeave ==
    ASSUME Inv, Inv',
           \A w \in Workers, s \in Slots :
             tasks'[w][s] = tasks[w][s] \/ Moves(tasks[w][s], tasks'[w][s]),
           \A w \in Workers : LeavesNoMore(drain[w], drain'[w])
    PROVE  Leaving' \subseteq Leaving
<1>1. ASSUME NEW w \in Workers, NEW s \in Slots, Heavy(tasks'[w][s])
      PROVE  Heavy(tasks[w][s])
  BY <1>1 DEF Heavy, Moves, Idle
<1> SUFFICES ASSUME NEW w \in Workers,
                    \/ drain'[w].phase = "draining"
                    \/ /\ drain'[w].phase = "abandoning"
                       /\ \E s \in drain'[w].todo : Heavy(tasks'[w][s])
             PROVE  \/ drain[w].phase = "draining"
                    \/ /\ drain[w].phase = "abandoning"
                       /\ \E s \in drain[w].todo : Heavy(tasks[w][s])
  BY DEF Leaving, Heavy
<1>2. drain'[w].todo \subseteq Slots
  BY DEF Inv, TypeOK, Drain
<1> QED BY <1>1, <1>2 DEF LeavesNoMore

\* The steps after which the runs of every job are covered because nothing
\* was put in their way.
LEMMA QuietStep ==
    ASSUME Inv, Inv', RunsInv, UNCHANGED runs,
           \A w \in Workers, s \in Slots :
             tasks'[w][s] = tasks[w][s] \/ Moves(tasks[w][s], tasks'[w][s]),
           \A w \in Workers : LeavesNoMore(drain[w], drain'[w]),
           used'["term"] >= used["term"], NEW X,
           \A j \in Jobs : j \in X \/
             /\ rows[j].state = "new" <=> rows'[j].state = "new"
             /\ asked'[j] = asked[j]
             /\ InHand(rows'[j]) <= InHand(rows[j]),
           \A j \in Jobs : j \in X => Covers(j)'
    PROVE  RunsInv'
<1>1. OneHeavy' /\ RequeuesEarly'
  BY MovesKeepOneHeavy, MovesStayEarly DEF RunsInv
<1>2. Leaving' \subseteq Leaving
  BY MovesLeave
<1>3. ASSUME NEW j \in Jobs PROVE Covers(j)'
  <2>1. CASE j \in X
    BY <2>1
  <2>2. CASE j \notin X
    <3>1. /\ rows[j].state = "new" <=> rows'[j].state = "new"
          /\ asked'[j] = asked[j] /\ runs'[j] = runs[j]
          /\ InHand(rows'[j]) <= InHand(rows[j]) /\ Covers(j)
      BY <2>2 DEF RunsInv, RunsCovered
    <3>2. CASE rows[j].state = "new"
      BY <3>1, <3>2 DEF Covers
    <3>3. CASE rows[j].state # "new"
      <4>1. Returning(j)' \subseteq Returning(j)
        BY MovesReturn
      <4> QED BY <1>2, <3>1, <3>3, <4>1, RunsShrink
    <3> QED BY <3>2, <3>3
  <2> QED BY <2>1, <2>2
<1>4. Cardinality(Leaving') <= used'["term"]
  <2>1. IsFiniteSet(Leaving)
    <3>1. Leaving \subseteq Workers
      BY DEF Leaving
    <3> QED BY <3>1, QueueAssumption, FS_Subset
  <2>2. /\ Cardinality(Leaving') <= Cardinality(Leaving)
        /\ Cardinality(Leaving') \in Nat /\ Cardinality(Leaving) \in Nat
    BY <1>2, <2>1, FS_Subset, FS_CardinalityType
  <2>3. used["term"] \in Nat /\ used'["term"] \in Nat
    BY DEF Inv, TypeOK, Rare
  <2>4. Cardinality(Leaving) <= used["term"]
    BY DEF RunsInv, RunsCovered
  <2> QED BY <2>2, <2>3, <2>4
<1> QED BY <1>1, <1>3, <1>4 DEF RunsInv, RunsCovered

\* The states of the rows as the steps change them: Inv and Inv' tell which
\* rows are there.
LEMMA RowsStayInserted ==
    ASSUME Inv, Inv', UNCHANGED asked, NEW j \in Jobs
    PROVE  rows[j].state = "new" <=> rows'[j].state = "new"
<1>1. rows[j].state = "new" <=> asked[j] = 0
  <2>1. asked[j] \in Nat
    BY DEF Inv, TypeOK
  <2> QED BY <2>1 DEF Inv, Structure, AskLinks
<1>2. rows'[j].state = "new" <=> asked'[j] = 0
  <2>1. asked'[j] \in Nat
    BY DEF Inv, TypeOK
  <2> QED BY <2>1 DEF Inv, Structure, AskLinks
<1> QED BY <1>1, <1>2

LEMMA HappensTerm ==
    ASSUME Inv, NEW r \in Rare, Happens(r)
    PROVE  /\ r # "term" => used'["term"] = used["term"]
           /\ r = "term" => used'["term"] = used["term"] + 1
BY DEF Happens, Inv, TypeOK, Rare

LEMMA CalmRowsInHand ==
    ASSUME Inv, Inv', NEW j \in Jobs, Calm(rows[j], rows'[j]),
           rows[j].state = "gone" => rows'[j].state = "gone"
    PROVE  InHand(rows'[j]) <= InHand(rows[j])
<1>1. rows[j] \in Row /\ rows'[j] \in Row
  BY DEF Inv, TypeOK
<1> QED BY <1>1, CalmInHand

\* The end of a run that requeues its job: the run no longer may return it,
\* and the row waits for one more.
LEMMA RequeueKeepsRuns ==
    ASSUME Inv, Inv', RunsInv, NEW w \in Workers, NEW s \in Slots,
           SettleWrite(w, s), tasks[w][s].verdict = "requeue"
    PROVE  RunsInv'
<1> DEFINE t == tasks[w][s]
           q == Record(rows[t.job], t.verdict)
<1>1. /\ t.pc = "write" /\ Update(t.job, q) /\ Become(w, s, [t EXCEPT !.pc = "end"])
      /\ UNCHANGED <<drain, asked, runs, used>>
  BY DEF SettleWrite
<1>2. /\ t \in Task /\ TypeOK /\ t.verdict \in Verdicts /\ t.job \in Jobs
      /\ rows[t.job] \in Row /\ rows[t.job].state # "new"
  BY <1>1 DEF Inv, TypeOK, Structure, TaskLinks
<1>i. PICK i \in Jobs : i = t.job
  BY <1>2
<1>3. q \in Row /\ q.attempts = rows[i].attempts
  BY <1>2, <1>i, RecordRow
<1>4. TaskStep(w, s)
  BY DEF TaskStep
<1>5. \A v \in Workers, u \in Slots :
        tasks'[v][u] = tasks[v][u] \/ Moves(tasks[v][u], tasks'[v][u])
  BY <1>4, SystemStepMoves DEF SystemStep
<1>u. tasks'[w][s].pc = "end"
  <2>1. [t EXCEPT !.pc = "end"] \in Task /\ [t EXCEPT !.pc = "end"].pc = "end"
    BY <1>2 DEF Task
  <2> QED BY <1>1, <1>2, <2>1, BecomeTasks
<1> HIDE DEF q
<1>6. \A j \in Jobs : j # i => rows'[j] = rows[j]
  BY <1>1, <1>2, <1>3, <1>i, UpdateRows
<1>7. Covers(i)'
  <2>1. Covers(i) /\ RequeuesEarly
    BY DEF RunsInv, RunsCovered
  <2>2. /\ rows[i].state # "new" /\ rows'[i].state # "new"
        /\ rows[i].state = "gone" => rows'[i] = rows[i]
    BY <1>1, <1>2, <1>3, <1>i, UpdateRows, RowsStayInserted
  <2>3. Returning(i)' \subseteq Returning(i) /\ Leaving' \subseteq Leaving
    BY <1>1, <1>5, MovesReturn, MovesLeave DEF LeavesNoMore
  <2>4. CASE rows[i].state = "gone"
    <3>1. InHand(rows'[i]) <= InHand(rows[i])
      BY <1>2, <1>i, <2>2, <2>4, InHandType
    <3>2. used'["term"] >= used["term"]
      BY <1>1 DEF Inv, TypeOK, Rare
    <3> QED BY <1>1, <2>1, <2>2, <2>3, <3>1, <3>2, RunsShrink
  <2>5. CASE rows[i].state # "gone"
    <3>1. rows'[i] = q
      BY <1>1, <1>2, <1>3, <1>i, <2>5, UpdateRows
    <3>2. InHand(rows'[i]) <= InHand(rows[i]) + 1
      BY <1>2, <1>3, <1>i, <2>5, <3>1, KeptInHand
    <3>3. MayReturn(t)
      BY <1>1, <2>1 DEF RequeuesEarly, Early, MayReturn, Runners
    <3>4. <<w, s>> \in Returning(i) /\ <<w, s>> \notin Returning(i)'
      BY <1>u, <1>i, <3>3 DEF Returning, Of, Slotted, MayReturn, Runners
    <3>5. /\ Cardinality(Returning(i)') + 1 <= Cardinality(Returning(i))
          /\ Cardinality(Leaving') <= Cardinality(Leaving)
      BY <2>3, <3>4, OneFewer, RunSetsFinite, FS_Subset
    <3>6. /\ Cardinality(Returning(i)) \in Nat /\ Cardinality(Leaving) \in Nat
          /\ Cardinality(Returning(i)') \in Nat /\ Cardinality(Leaving') \in Nat
      BY RunSetsFinite
    <3>7. /\ InHand(rows[i]) \in Nat /\ InHand(rows'[i]) \in Nat
          /\ runs[i] \in Nat /\ used["term"] \in Nat
      BY <1>2, <1>3, <1>i, <3>1, InHandType DEF TypeOK, Rare
    <3>8. runs'[i] + InHand(rows'[i]) + Cardinality(Returning(i)') + Cardinality(Leaving')
            + used["term"]
          <= runs[i] + InHand(rows[i]) + Cardinality(Returning(i)) + Cardinality(Leaving)
            + used'["term"]
      BY <1>1, <3>2, <3>5, <3>6, <3>7
    <3> QED BY <1>1, <2>1, <2>2, <3>8, Balance
  <2> QED BY <2>4, <2>5
<1>8. ASSUME NEW j \in Jobs, j # i
      PROVE  /\ rows[j].state = "new" <=> rows'[j].state = "new"
             /\ asked'[j] = asked[j] /\ InHand(rows'[j]) <= InHand(rows[j])
  <2>1. rows'[j] = rows[j] /\ InHand(rows[j]) \in Nat
    BY <1>2, <1>6, <1>8, InHandType DEF TypeOK
  <2> QED BY <1>1, <2>1
<1>9. used'["term"] >= used["term"] /\ \A v \in Workers : LeavesNoMore(drain[v], drain'[v])
  BY <1>1 DEF Inv, TypeOK, Rare, LeavesNoMore
<1> DEFINE X == {i}
<1>10. /\ \A j \in Jobs : j \in X \/
             /\ rows[j].state = "new" <=> rows'[j].state = "new"
             /\ asked'[j] = asked[j]
             /\ InHand(rows'[j]) <= InHand(rows[j])
       /\ \A j \in Jobs : j \in X => Covers(j)'
  BY <1>7, <1>8
<1> HIDE DEF X
<1> QED BY <1>1, <1>5, <1>9, <1>10, QuietStep

\* The reaper puts a row back in the queue for an attempt that was ahead.
LEMMA ClockKeepsRuns ==
    ASSUME Inv, Inv', RunsInv, Reap \/ Timer
    PROVE  RunsInv'
<1>1. UNCHANGED <<tasks, drain, asked, runs>> /\ used'["term"] >= used["term"]
  <2>1. used["term"] \in Nat
    BY DEF Inv, TypeOK, Rare
  <2>2. CASE Reap
    BY <2>1, <2>2 DEF Reap
  <2>3. CASE Timer
    <3>1. used' = used \/ Happens("stall")
      BY <2>3 DEF Timer, HeartbeatAges, BackoffExpires, PurgeOld
    <3>2. used'["term"] = used["term"]
      BY <3>1, HappensTerm DEF Rare
    <3>3. UNCHANGED <<tasks, drain, asked, runs>>
      BY <2>3 DEF Timer, HeartbeatAges, BackoffExpires, PurgeOld
    <3> QED BY <2>1, <3>2, <3>3
  <2> QED BY <2>2, <2>3
<1>2. ASSUME NEW j \in Jobs PROVE InHand(rows'[j]) <= InHand(rows[j])
  <2>g. rows[j].state = "gone" => rows'[j].state = "gone"
    BY SystemKeepsGone
  <2>1. CASE Calm(rows[j], rows'[j])
    BY <2>g, <2>1, CalmRowsInHand
  <2>2. CASE ~Calm(rows[j], rows'[j])
    <3>1. /\ rows[j].state = "running" /\ rows[j].attempts + 1 < MAX_ATTEMPTS
          /\ rows'[j].attempts = rows[j].attempts + 1
      BY <2>2, ReapRows, TimerIsCalm
    <3>2. rows[j] \in Row /\ rows'[j] \in Row /\ rows[j].attempts \in Nat
      BY DEF Inv, TypeOK, Row
    <3>m. MAX_ATTEMPTS \in Nat
      BY QueueAssumption
    <3>3. Ahead(rows[j].attempts + 1) + 1 <= Ahead(rows[j].attempts)
      <4>1. rows[j].attempts < MAX_ATTEMPTS - 1 /\ rows[j].attempts + 1 \in Nat
            /\ rows[j].attempts < rows[j].attempts + 1 /\ rows[j].attempts <= rows[j].attempts + 1
        BY <3>1, <3>2, <3>m
      <4> QED BY <3>2, <4>1, AheadFalls
    <3>4. /\ InHand(rows[j]) = Ahead(rows[j].attempts) + Waits(rows[j])
          /\ Waits(rows[j]) \in {0, 1} /\ Ahead(rows[j].attempts) \in Nat
      BY <3>1, <3>2, InHandType
    <3>5. CASE rows'[j].state = "gone"
      BY <3>4, <3>5 DEF InHand
    <3>6. CASE rows'[j].state # "gone"
      <4>1. /\ InHand(rows'[j]) = Ahead(rows[j].attempts + 1) + Waits(rows'[j])
            /\ Waits(rows'[j]) \in {0, 1} /\ Ahead(rows[j].attempts + 1) \in Nat
        BY <3>1, <3>2, <3>6, InHandType
      <4> QED BY <3>3, <3>4, <4>1
    <3> QED BY <3>5, <3>6
  <2> QED BY <2>1, <2>2
<1> DEFINE X == {}
<1>3. /\ \A j \in Jobs : j \in X \/
           /\ rows[j].state = "new" <=> rows'[j].state = "new"
           /\ asked'[j] = asked[j]
           /\ InHand(rows'[j]) <= InHand(rows[j])
      /\ \A j \in Jobs : j \in X => Covers(j)'
      /\ \A v \in Workers : LeavesNoMore(drain[v], drain'[v])
  BY <1>1, <1>2, RowsStayInserted DEF LeavesNoMore
<1> HIDE DEF X
<1> QED BY <1>1, <1>3, QuietStep

LEMMA TaskStepKeepsRuns ==
    ASSUME Inv, Inv', RunsInv, NEW w \in Workers, NEW s \in Slots, TaskStep(w, s)
    PROVE  RunsInv'
<1>1. CASE SettleWrite(w, s) /\ tasks[w][s].verdict = "requeue"
  BY <1>1, RequeueKeepsRuns
<1>2. CASE ~(SettleWrite(w, s) /\ tasks[w][s].verdict = "requeue")
  <2>1. /\ \A v \in Workers, u \in Slots :
             tasks'[v][u] = tasks[v][u] \/ Moves(tasks[v][u], tasks'[v][u])
        /\ UNCHANGED <<asked, runs>>
    BY SystemStepMoves DEF SystemStep
  <2>2. UNCHANGED drain /\ (used' = used \/ Happens("dberror"))
    BY DEF TaskStep, OutOfSpace, StartHandler, Buy, HandlerReturns, HandlerCancelled,
       HandlerFails, SettleRead, SettleWrite, SettleFails, EndTask, BeatRead, BeatWrite
  <2>3. used'["term"] = used["term"] /\ used["term"] \in Nat
    BY <2>2, HappensTerm DEF Inv, TypeOK, Rare
  <2>4. ASSUME NEW j \in Jobs PROVE InHand(rows'[j]) <= InHand(rows[j])
    <3>1. Calm(rows[j], rows'[j])
      BY <1>2, TaskStepRows
    <3>2. rows[j].state = "gone" => rows'[j].state = "gone"
      BY SystemKeepsGone
    <3> QED BY <3>1, <3>2, CalmRowsInHand
  <2> DEFINE X == {}
  <2>5. /\ \A j \in Jobs : j \in X \/
             /\ rows[j].state = "new" <=> rows'[j].state = "new"
             /\ asked'[j] = asked[j]
             /\ InHand(rows'[j]) <= InHand(rows[j])
        /\ \A j \in Jobs : j \in X => Covers(j)'
        /\ \A v \in Workers : LeavesNoMore(drain[v], drain'[v])
        /\ used'["term"] >= used["term"]
    BY <2>1, <2>2, <2>3, <2>4, RowsStayInserted DEF LeavesNoMore
  <2> HIDE DEF X
  <2> QED BY <2>1, <2>5, QuietStep
<1> QED BY <1>1, <1>2

\* A SIGTERM makes one worker more leave, and is counted.
LEMMA SigtermKeepsRuns ==
    ASSUME Inv, Inv', RunsInv, NEW w \in Workers, Sigterm(w)
    PROVE  RunsInv'
<1>1. /\ UNCHANGED <<rows, tasks, asked, runs>>
      /\ drain' = [drain EXCEPT ![w].phase = "draining"]
      /\ used'["term"] = used["term"] + 1
  BY HappensTerm DEF Sigterm, Rare
<1>2. Leaving' \subseteq Leaving \cup {w}
  BY <1>1 DEF Leaving, Heavy, Inv, TypeOK
<1>3. IsFiniteSet(Leaving)
  <2>1. Leaving \subseteq Workers
    BY DEF Leaving
  <2> QED BY <2>1, QueueAssumption, FS_Subset
<1>4. /\ Cardinality(Leaving') <= Cardinality(Leaving) + 1
      /\ Cardinality(Leaving) \in Nat /\ Cardinality(Leaving') \in Nat
  <2>1. Leaving' \subseteq Workers
    BY DEF Leaving
  <2> QED BY <1>2, <1>3, <2>1, OneMore, QueueAssumption, FS_Subset, FS_CardinalityType
<1>5. used["term"] \in Nat
  BY DEF Inv, TypeOK, Rare
<1>6. Cardinality(Leaving') <= used'["term"]
  BY <1>1, <1>4, <1>5 DEF RunsInv, RunsCovered
<1>7. OneHeavy' /\ RequeuesEarly'
  BY <1>1 DEF RunsInv, OneHeavy, Heavy, RequeuesEarly, Early
<1>8. ASSUME NEW j \in Jobs PROVE Covers(j)'
  <2>1. Covers(j)
    BY DEF RunsInv, RunsCovered
  <2>2. CASE rows[j].state = "new"
    BY <1>1, <2>1, <2>2 DEF Covers
  <2>3. CASE rows[j].state # "new"
    <3>1. Returning(j)' = Returning(j)
      BY <1>1 DEF Returning, Of, MayReturn
    <3>2. /\ InHand(rows[j]) \in Nat /\ runs[j] \in Nat /\ Cardinality(Returning(j)) \in Nat
      BY InHandType, RunSetsFinite DEF Inv, TypeOK
    <3>3. runs'[j] + InHand(rows'[j]) + Cardinality(Returning(j)') + Cardinality(Leaving')
            + used["term"]
          <= runs[j] + InHand(rows[j]) + Cardinality(Returning(j)) + Cardinality(Leaving)
            + used'["term"]
      BY <1>1, <1>4, <1>5, <3>1, <3>2
    <3> QED BY <1>1, <2>1, <2>3, <3>3, Balance
  <2> QED BY <2>2, <2>3
<1> QED BY <1>6, <1>7, <1>8 DEF RunsInv, RunsCovered

\* The abandon of a job may hand it back, once for every worker that leaves.
LEMMA AbandonKeepsRuns ==
    ASSUME Inv, Inv', RunsInv, NEW w \in Workers, NEW s \in Slots, AbandonWrite(w, s)
    PROVE  RunsInv'
<1> DEFINE t == tasks[w][s]
<1>1. /\ s \in drain[w].open /\ UNCHANGED <<tasks, asked, runs, used>>
      /\ drain' = [drain EXCEPT ![w].open = {}, ![w].todo = @ \ {s}]
  BY DEF AbandonWrite
<1>2. /\ drain[w] \in Drain /\ s \in drain[w].todo /\ drain[w].phase = "abandoning"
      /\ t \in Task /\ TypeOK
  BY <1>1 DEF Inv, TypeOK, Structure, DrainLinks
<1>3. /\ drain'[w].phase = "abandoning" /\ drain'[w].todo = drain[w].todo \ {s}
      /\ \A v \in Workers : v # w => drain'[v] = drain[v]
  BY <1>1, <1>2 DEF TypeOK, Drain
<1>4. PICK i \in Jobs : i = t.job
  BY AbandonedRow
<1>5. PICK q \in Row : /\ Update(i, q) /\ q.attempts = rows[i].attempts
                       /\ LastAttempt(t) => q.state # "queued"
  BY <1>4, AbandonedRow
<1>6. /\ rows[i].state = "gone" => rows' = rows
      /\ rows[i].state # "gone" => rows'[i] = q
      /\ \A j \in Jobs : j # i => rows'[j] = rows[j]
  BY <1>2, <1>5, UpdateRows
<1>7. \A v \in Workers : LeavesNoMore(drain[v], drain'[v])
  BY <1>2, <1>3 DEF LeavesNoMore
<1>8. Leaving' \subseteq Leaving
  BY <1>1, <1>7, MovesLeave
<1>9. rows[i] \in Row /\ Covers(i) /\ rows[i].attempts \in Nat /\ used["term"] \in Nat
  BY <1>2 DEF RunsInv, RunsCovered, TypeOK, Row, Rare
<1>10. rows[i].state # "new" /\ rows'[i].state # "new"
  BY <1>1, <1>4, AbandonedRow, RowsStayInserted DEF Inv, Structure, TaskLinks
<1>11. Covers(i)'
  <2>1. Returning(i)' = Returning(i)
    BY <1>1 DEF Returning, Of, MayReturn
  <2>2. CASE Calm(rows[i], rows'[i]) /\ (rows[i].state = "gone" => rows'[i].state = "gone")
    <3>1. InHand(rows'[i]) <= InHand(rows[i])
      BY <2>2, CalmRowsInHand
    <3> QED BY <1>1, <1>8, <1>9, <1>10, <2>1, <3>1, RunsShrink
  <2>3. CASE ~(Calm(rows[i], rows'[i]) /\ (rows[i].state = "gone" => rows'[i].state = "gone"))
    <3>1. rows[i].state # "gone" /\ rows'[i] = q
      BY <1>6, <1>9, <2>3, CalmItself
    <3>2. q.state = "queued"
      BY <1>5, <1>9, <2>3, <3>1 DEF Calm, Forward
    <3>3. Heavy(t)
      BY <1>4, <1>5, <3>2, AbandonedRow DEF Heavy, LastAttempt
    <3>4. w \in Leaving
      BY <1>2, <3>3 DEF Leaving
    <3>5. w \notin Leaving'
      <4>1. \A u \in drain'[w].todo : u \in Slots /\ u # s
        BY <1>2, <1>3 DEF Drain
      <4>2. \A u \in drain'[w].todo : ~Heavy(tasks'[w][u])
        BY <1>1, <3>3, <4>1 DEF RunsInv, OneHeavy
      <4> QED BY <1>3, <4>2 DEF Leaving, Heavy
    <3>6. Cardinality(Leaving') + 1 <= Cardinality(Leaving)
      BY <1>8, <3>4, <3>5, OneFewer, RunSetsFinite
    <3>7. InHand(rows'[i]) <= InHand(rows[i]) + 1
      BY <1>5, <1>9, <3>1, KeptInHand
    <3>8. /\ InHand(rows[i]) \in Nat /\ InHand(rows'[i]) \in Nat /\ runs[i] \in Nat
          /\ Cardinality(Returning(i)) \in Nat /\ Cardinality(Leaving) \in Nat
          /\ Cardinality(Leaving') \in Nat
      BY <1>2, <1>9, <3>1, InHandType, RunSetsFinite DEF TypeOK
    <3>9. runs'[i] + InHand(rows'[i]) + Cardinality(Returning(i)') + Cardinality(Leaving')
            + used["term"]
          <= runs[i] + InHand(rows[i]) + Cardinality(Returning(i)) + Cardinality(Leaving)
            + used'["term"]
      BY <1>1, <1>9, <2>1, <3>6, <3>7, <3>8
    <3> QED BY <1>1, <1>9, <1>10, <3>9, Balance
  <2> QED BY <2>2, <2>3
<1> DEFINE X == {i}
<1>12. ASSUME NEW j \in Jobs, j # i
       PROVE  /\ rows[j].state = "new" <=> rows'[j].state = "new"
              /\ asked'[j] = asked[j] /\ InHand(rows'[j]) <= InHand(rows[j])
  <2>1. rows'[j] = rows[j] /\ InHand(rows[j]) \in Nat
    BY <1>2, <1>6, <1>12, InHandType DEF TypeOK
  <2> QED BY <1>1, <2>1
<1>13. /\ \A j \in Jobs : j \in X \/
            /\ rows[j].state = "new" <=> rows'[j].state = "new"
            /\ asked'[j] = asked[j]
            /\ InHand(rows'[j]) <= InHand(rows[j])
       /\ \A j \in Jobs : j \in X => Covers(j)'
  BY <1>11, <1>12
<1> HIDE DEF X
<1>14. used'["term"] >= used["term"]
  BY <1>1, <1>9
<1> QED BY <1>1, <1>7, <1>13, <1>14, QuietStep

LEMMA ShutdownStepKeepsRuns ==
    ASSUME Inv, Inv', RunsInv, NEW w \in Workers, ShutdownStep(w)
    PROVE  RunsInv'
<1>0. drain \in [Workers -> Drain]
  BY DEF Inv, TypeOK
<1>1. CASE Sigterm(w)
  BY <1>1, SigtermKeepsRuns
<1>2. CASE \E s \in Slots : AbandonWrite(w, s)
  BY <1>2, AbandonKeepsRuns
<1>3. CASE ~Sigterm(w) /\ ~ \E s \in Slots : AbandonWrite(w, s)
  <2>1. /\ \A v \in Workers, u \in Slots :
             tasks'[v][u] = tasks[v][u] \/ Moves(tasks[v][u], tasks'[v][u])
        /\ UNCHANGED <<asked, runs>>
    BY SystemStepMoves DEF SystemStep
  <2>2. used' = used \/ Happens("dberror") \/ Happens("crash")
    BY <1>3 DEF ShutdownStep, GraceEnds, AbandonFails, Abandoned, Exit, Crash,
       AbandonRead, CancelTask
  <2>3. used'["term"] = used["term"] /\ used["term"] \in Nat
    BY <2>2, HappensTerm DEF Inv, TypeOK, Rare
  <2>4. ASSUME NEW j \in Jobs PROVE InHand(rows'[j]) <= InHand(rows[j])
    <3>1. Calm(rows[j], rows'[j])
      BY <1>3, ShutdownStepRows
    <3>2. rows[j].state = "gone" => rows'[j].state = "gone"
      BY SystemKeepsGone
    <3> QED BY <3>1, <3>2, CalmRowsInHand
  <2>5. ASSUME NEW v \in Workers PROVE LeavesNoMore(drain[v], drain'[v])
    <3>1. CASE drain' = drain
      BY <3>1 DEF LeavesNoMore
    <3>2. CASE GraceEnds(w)
      BY <1>0, <3>2 DEF GraceEnds, LeavesNoMore
    <3>3. CASE AbandonFails(w)
      BY <1>0, <3>3 DEF AbandonFails, LeavesNoMore
    <3>4. CASE Abandoned(w)
      BY <1>0, <3>4 DEF Abandoned, LeavesNoMore, Drain
    <3>5. CASE Exit(w) \/ Crash(w)
      <4>1. drain' = [drain EXCEPT ![w] = Up]
        BY <3>5 DEF Exit, Crash
      <4> QED BY <1>0, <4>1 DEF LeavesNoMore, Up
    <3>6. ASSUME NEW s \in Slots, AbandonRead(w, s)
          PROVE  LeavesNoMore(drain[v], drain'[v])
      <4>1. PICK d \in {[drain[w] EXCEPT !.open = {s}],
                        [drain[w] EXCEPT !.todo = drain[w].todo \ {s}]} :
              drain' = [drain EXCEPT ![w] = d]
        BY <1>0, <3>6, Zenon DEF AbandonRead
      <4>2. d.phase = "abandoning" /\ d.todo \subseteq drain[w].todo
            /\ drain[w].phase = "abandoning"
        BY <1>0, <3>6, <4>1 DEF AbandonRead, Drain
      <4> QED BY <1>0, <4>1, <4>2 DEF LeavesNoMore
    <3> QED BY <1>3, <3>1, <3>2, <3>3, <3>4, <3>5, <3>6 DEF ShutdownStep, CancelTask
  <2> DEFINE X == {}
  <2>6. /\ \A j \in Jobs : j \in X \/
             /\ rows[j].state = "new" <=> rows'[j].state = "new"
             /\ asked'[j] = asked[j]
             /\ InHand(rows'[j]) <= InHand(rows[j])
        /\ \A j \in Jobs : j \in X => Covers(j)'
        /\ used'["term"] >= used["term"]
    BY <2>1, <2>3, <2>4, RowsStayInserted
  <2> HIDE DEF X
  <2> QED BY <2>1, <2>5, <2>6, QuietStep
<1> QED BY <1>1, <1>2, <1>3

\* The lane of the kinds that are handed back has room for one task.
LEMMA OpenLaneIsEmpty ==
    ASSUME NEW w \in Workers, NEW s \in Slots, NEW j \in Jobs, Claim(w, s, j),
           ~NoRetry(rows[j].kind), NEW u \in Slots
    PROVE  ~Heavy(tasks[w][u])
<1>1. \A k : ~NoRetry(k) => LaneOf(k) = "heavy"
  BY DEF NoRetry, NO_RETRY, LaneOf
<1> DEFINE S == {x \in Running(w) : LaneOf(tasks[w][x].kind) = "heavy"}
<1>2. LaneOf(rows[j].kind) \in OpenLanes(w)
  BY DEF Claim, Claimable
<1>3. Cardinality(S) < LANE_LIMITS["heavy"]
  BY <1>1, <1>2 DEF OpenLanes
<1>4. LANE_LIMITS["heavy"] = 1
  BY DEF LANE_LIMITS, Lanes
<1>5. IsFiniteSet(S)
  <2>1. S \subseteq Slots
    BY DEF Running
  <2> QED BY <2>1, QueueAssumption, FS_Subset
<1>6. S = {}
  <2>1. Cardinality(S) \in Nat
    BY <1>5, FS_CardinalityType
  <2>2. Cardinality(S) = 0
    <3> HIDE DEF S
    <3> QED BY <1>3, <1>4, <2>1
  <2> HIDE DEF S
  <2> QED BY <1>5, <2>2, FS_EmptySet
<1> QED BY <1>1, <1>6 DEF Heavy, Running

\* A claim spends the run its row waited for, and one that was ahead.
LEMMA ClaimKeepsRuns ==
    ASSUME Inv, Inv', RunsInv, NEW w \in Workers, NEW s \in Slots, NEW j \in Jobs,
           Claim(w, s, j)
    PROVE  RunsInv'
<1>1. /\ rows[j].state = "queued" /\ rows[j] \in Row /\ TypeOK
      /\ drain[w].phase = "up" /\ UNCHANGED <<drain, asked, used>>
      /\ runs' = [runs EXCEPT ![j] = @ + 1]
  BY DEF Claim, Claimable, Runnable, Inv, TypeOK
<1>n. PICK n \in Nat : n = rows[j].attempts
  BY <1>1 DEF Row
<1>2. /\ rows'[j].state = "running" /\ rows'[j].attempts = n + 1
      /\ \A i \in Jobs : i # j => rows'[i] = rows[i]
  BY <1>1, <1>n DEF Claim, TypeOK, Row
<1>3. /\ tasks'[w][s].job = j /\ tasks'[w][s].attempt = n + 1
      /\ tasks'[w][s].kind = rows[j].kind /\ tasks'[w][s].pc = "start"
      /\ \A v \in Workers, u \in Slots : <<v, u>> # <<w, s>> => tasks'[v][u] = tasks[v][u]
  BY <1>1, <1>n DEF Claim, TypeOK, Idle
<1>4. RequeuesEarly'
  <2> SUFFICES ASSUME NEW v \in Workers, NEW u \in Slots PROVE Early(tasks'[v][u])
    BY DEF RequeuesEarly, Early
  <2>1. CASE <<v, u>> = <<w, s>>
    BY <1>3, <2>1 DEF Early
  <2>2. CASE <<v, u>> # <<w, s>>
    BY <1>3, <2>2 DEF RunsInv, RequeuesEarly
  <2> QED BY <2>1, <2>2
<1>5. OneHeavy'
  <2> SUFFICES ASSUME NEW v \in Workers, NEW u \in Slots, NEW x \in Slots,
                      Heavy(tasks'[v][u]), Heavy(tasks'[v][x])
               PROVE  u = x
    BY DEF OneHeavy, Heavy
  <2>1. CASE v = w /\ u = s
    <3>1. ~NoRetry(rows[j].kind)
      BY <1>3, <2>1 DEF Heavy
    <3> QED BY <1>3, <2>1, <3>1, OpenLaneIsEmpty
  <2>2. CASE v = w /\ x = s
    <3>1. ~NoRetry(rows[j].kind)
      BY <1>3, <2>2 DEF Heavy
    <3> QED BY <1>3, <2>2, <3>1, OpenLaneIsEmpty
  <2>3. CASE ~(v = w /\ u = s) /\ ~(v = w /\ x = s)
    BY <1>3, <2>3 DEF RunsInv, OneHeavy
  <2> QED BY <2>1, <2>2, <2>3
<1>6. Leaving' = Leaving
  <2>1. ASSUME NEW v \in Workers, v # w, NEW u \in drain[v].todo
        PROVE  tasks'[v][u] = tasks[v][u]
    <3>1. u \in Slots
      BY <1>1, <2>1 DEF TypeOK, Drain
    <3> QED BY <1>3, <2>1, <3>1
  <2>2. ASSUME NEW v \in Workers
        PROVE  \/ drain[v].phase \notin {"draining", "abandoning"}
               \/ \A u \in drain[v].todo : tasks'[v][u] = tasks[v][u]
    BY <1>1, <2>1
  <2> QED BY <1>1, <2>2 DEF Leaving, Heavy
<1>7. Cardinality(Leaving') <= used'["term"]
  BY <1>1, <1>6 DEF RunsInv, RunsCovered
<1>8. ASSUME NEW i \in Jobs, i # j PROVE Covers(i)'
  <2>1. Covers(i)
    BY DEF RunsInv, RunsCovered
  <2>2. rows'[i] = rows[i] /\ runs'[i] = runs[i] /\ asked' = asked
    BY <1>1, <1>2, <1>8 DEF TypeOK
  <2>3. Returning(i)' \subseteq Returning(i)
    BY <1>3, <1>8 DEF Returning, Of, Slotted, MayReturn
  <2>4. CASE rows[i].state = "new"
    BY <2>1, <2>2, <2>4 DEF Covers
  <2>5. CASE rows[i].state # "new"
    <3>1. InHand(rows[i]) \in Nat /\ used["term"] \in Nat
      BY <1>1, InHandType DEF TypeOK, Rare
    <3> QED BY <1>1, <1>6, <2>1, <2>2, <2>3, <2>5, <3>1, RunsShrink
  <2> QED BY <2>4, <2>5
<1>9. Covers(j)'
  <2>1. Covers(j) /\ rows'[j] \in Row /\ n + 1 \in Nat /\ MAX_ATTEMPTS \in Nat
    BY QueueAssumption DEF RunsInv, RunsCovered, Inv, TypeOK
  <2>2. InHand(rows[j]) = Ahead(n) + 1
    BY <1>1, <1>n, InHandType DEF Waits
  <2>3. InHand(rows'[j]) = Ahead(n + 1)
    <3>1. Waits(rows'[j]) = 0 /\ rows'[j].state # "gone"
      BY <1>2 DEF Waits
    <3>2. InHand(rows'[j]) = Ahead(n + 1) + 0
      BY <1>2, <2>1, <3>1, InHandType
    <3>3. Ahead(n + 1) \in Nat
      BY <2>1 DEF Ahead
    <3> QED BY <3>2, <3>3
  <2>4. Ahead(n) \in Nat /\ Ahead(n + 1) \in Nat /\ Ahead(n + 1) <= Ahead(n)
        /\ (n + 1 < MAX_ATTEMPTS => Ahead(n + 1) + 1 <= Ahead(n))
    <3>1. n <= n + 1 /\ n < n + 1 /\ (n + 1 < MAX_ATTEMPTS => n < MAX_ATTEMPTS - 1)
      BY <2>1
    <3> QED BY <2>1, <3>1, AheadFalls
  <2>5. Returning(j)' \subseteq Returning(j) \cup {<<w, s>>}
    BY <1>3 DEF Returning, Of, Slotted, MayReturn
  <2>6. /\ Cardinality(Returning(j)) \in Nat /\ Cardinality(Returning(j)') \in Nat
        /\ Cardinality(Leaving) \in Nat
    BY RunSetsFinite
  <2>7. runs[j] \in Nat /\ runs'[j] = runs[j] + 1 /\ used["term"] \in Nat
    BY <1>1 DEF TypeOK, Rare
  <2>8. CASE n + 1 < MAX_ATTEMPTS
    <3>1. Cardinality(Returning(j)') <= Cardinality(Returning(j)) + 1
      BY <2>5, OneMore, RunSetsFinite
    <3>2. runs'[j] + InHand(rows'[j]) + Cardinality(Returning(j)') + Cardinality(Leaving')
            + used["term"]
          <= runs[j] + InHand(rows[j]) + Cardinality(Returning(j)) + Cardinality(Leaving)
            + used'["term"]
      BY <1>1, <1>6, <2>2, <2>3, <2>4, <2>6, <2>7, <2>8, <3>1
    <3> QED BY <1>1, <1>2, <2>1, <3>2, Balance
  <2>9. CASE ~(n + 1 < MAX_ATTEMPTS)
    <3>1. <<w, s>> \notin Returning(j)'
      BY <1>3, <2>9 DEF Returning, MayReturn
    <3>2. Returning(j)' \subseteq Returning(j)
      BY <2>5, <3>1
    <3>3. Cardinality(Returning(j)') <= Cardinality(Returning(j))
      BY <3>2, RunSetsFinite, FS_Subset
    <3>4. runs'[j] + InHand(rows'[j]) + Cardinality(Returning(j)') + Cardinality(Leaving')
            + used["term"]
          <= runs[j] + InHand(rows[j]) + Cardinality(Returning(j)) + Cardinality(Leaving)
            + used'["term"]
      BY <1>1, <1>6, <2>2, <2>3, <2>4, <2>6, <2>7, <3>3
    <3> QED BY <1>1, <1>2, <2>1, <3>4, Balance
  <2> QED BY <2>8, <2>9
<1> QED BY <1>4, <1>5, <1>7, <1>8, <1>9 DEF RunsInv, RunsCovered

LEMMA InHandBound ==
    ASSUME NEW r \in Row
    PROVE  InHand(r) <= MAX_ATTEMPTS
<1>1. r.attempts \in Nat /\ MAX_ATTEMPTS \in Nat \ {0}
  BY QueueAssumption DEF Row
<1> QED BY <1>1 DEF InHand, Ahead, Waits

\* A person who asks for a job asks for MAX_ATTEMPTS runs of it.
LEMMA EnqueueCovers ==
    ASSUME Inv, Inv', RunsInv, NEW j \in Jobs, NEW p \in Projects, NEW k \in Kinds,
           NEW d \in Digests \cup {"none"}, Enqueue(j, p, k, d)
    PROVE  Covers(j)'
<1>1. /\ rows[j].state = "new" /\ asked'[j] = 1 /\ UNCHANGED <<tasks, drain, runs, used>>
  BY DEF Enqueue, Inv, TypeOK
<1>2. runs'[j] = 0
  BY <1>1 DEF RunsInv, RunsCovered, Covers
<1>3. Cardinality(Returning(j)') = 0
  <2>1. Of(j)' = {}
    BY <1>1, NewHasNoTask DEF Of
  <2>2. Returning(j)' = {}
    BY <2>1 DEF Returning
  <2> QED BY <2>2, FS_EmptySet
<1>4. Leaving' = Leaving
  BY <1>1 DEF Leaving, Heavy
<1>5. InHand(rows'[j]) <= MAX_ATTEMPTS /\ InHand(rows'[j]) \in Nat
  <2>1. rows'[j] \in Row
    BY DEF Inv, TypeOK
  <2> QED BY <2>1, InHandBound, InHandType
<1>6. Cardinality(Leaving) <= used["term"] /\ Cardinality(Leaving) \in Nat /\ used["term"] \in Nat
  BY RunSetsFinite DEF RunsInv, RunsCovered, Inv, TypeOK, Rare
<1>7. runs'[j] + InHand(rows'[j]) + Cardinality(Returning(j)') + Cardinality(Leaving')
        <= MAX_ATTEMPTS * asked'[j] + used'["term"]
  <2>1. MAX_ATTEMPTS * asked'[j] = MAX_ATTEMPTS /\ MAX_ATTEMPTS \in Nat
    BY <1>1, QueueAssumption
  <2>2. used'["term"] = used["term"]
    BY <1>1
  <2> QED BY <1>2, <1>3, <1>4, <1>5, <1>6, <2>1, <2>2
<1>8. rows'[j].state # "new"
  BY <1>1 DEF Inv, Structure, AskLinks
<1> QED BY <1>7, <1>8 DEF Covers

LEMMA RetryCovers ==
    ASSUME Inv, Inv', RunsInv, NEW c \in Clients, RetryWrite(c), NEW j \in Jobs,
           j = api[c].job, rows[j].state # "gone"
    PROVE  Covers(j)'
<1>1. /\ asked'[j] = asked[j] + 1 /\ UNCHANGED <<tasks, drain, runs, used>>
      /\ rows[j].state # "new"
  BY DEF RetryWrite, Inv, TypeOK, Structure, ApiLinks
<1>2. asked[j] \in Nat /\ rows'[j] \in Row /\ rows[j] \in Row /\ runs[j] \in Nat
      /\ used["term"] \in Nat
  BY DEF Inv, TypeOK, Rare
<1>3. Returning(j)' = Returning(j) /\ Leaving' = Leaving
  BY <1>1 DEF Returning, Of, MayReturn, Leaving, Heavy
<1>4. rows'[j].state # "new"
  BY <1>1, <1>2 DEF Inv, Structure, AskLinks
<1>5. Covers(j)
  BY DEF RunsInv, RunsCovered
<1>6. PICK n \in Nat : n = MAX_ATTEMPTS * asked[j]
  <2>1. MAX_ATTEMPTS \in Nat
    BY QueueAssumption
  <2>2. \A a, b \in Nat : a * b \in Nat
    OBVIOUS
  <2> QED BY <1>2, <2>1, <2>2
<1>7. MAX_ATTEMPTS * asked'[j] = n + MAX_ATTEMPTS
  <2>1. MAX_ATTEMPTS \in Nat
    BY QueueAssumption
  <2>2. \A a, b \in Nat : a * (b + 1) = a * b + a
    OBVIOUS
  <2> QED BY <1>1, <1>2, <1>6, <2>1, <2>2
<1>8. /\ InHand(rows[j]) \in Nat /\ InHand(rows'[j]) \in Nat /\ InHand(rows'[j]) <= MAX_ATTEMPTS
      /\ Cardinality(Returning(j)) \in Nat /\ Cardinality(Leaving) \in Nat
      /\ MAX_ATTEMPTS \in Nat
  BY <1>2, InHandBound, InHandType, RunSetsFinite, QueueAssumption
<1>9. runs[j] + InHand(rows[j]) + Cardinality(Returning(j)) + Cardinality(Leaving)
        <= n + used["term"]
  BY <1>1, <1>5, <1>6 DEF Covers
<1>10. runs'[j] + InHand(rows'[j]) + Cardinality(Returning(j)') + Cardinality(Leaving')
         <= MAX_ATTEMPTS * asked'[j] + used'["term"]
  <2>1. /\ runs'[j] = runs[j] /\ used'["term"] = used["term"]
        /\ Cardinality(Returning(j)') = Cardinality(Returning(j))
        /\ Cardinality(Leaving') = Cardinality(Leaving)
    BY <1>1, <1>3
  <2> QED BY <1>2, <1>7, <1>8, <1>9, <2>1
<1> QED BY <1>4, <1>10 DEF Covers

LEMMA ApiStepKeepsRuns ==
    ASSUME Inv, Inv', RunsInv, ApiStep
    PROVE  RunsInv'
<1>0. TypeOK /\ \A j \in Jobs : InHand(rows[j]) \in Nat
  BY InHandType DEF Inv, TypeOK
<1>1. UNCHANGED <<tasks, drain, runs>> /\ used'["term"] >= used["term"]
  <2>1. UNCHANGED <<tasks, drain, runs>>
        /\ (used' = used \/ Happens("cancel") \/ Happens("retry") \/ Happens("delete"))
    <3>1. ASSUME NEW j \in Jobs, NEW p \in Projects, NEW k \in Kinds,
                 NEW d \in Digests \cup {"none"}, Enqueue(j, p, k, d)
          PROVE  UNCHANGED <<tasks, drain, runs, used>>
      BY <3>1 DEF Enqueue
    <3>2. ASSUME NEW c \in Clients, NEW j \in Jobs, CancelRead(c, j) \/ RetryRead(c, j)
          PROVE  UNCHANGED <<tasks, drain, runs>> /\ (Happens("cancel") \/ Happens("retry"))
      BY <3>2 DEF CancelRead, RetryRead
    <3>3. ASSUME NEW c \in Clients, CancelWrite(c) \/ RetryWrite(c)
          PROVE  UNCHANGED <<tasks, drain, runs, used>>
      BY <3>3 DEF CancelWrite, RetryWrite
    <3>4. ASSUME NEW p \in Projects, DropProjectJobs(p) \/ DeleteProject(p)
          PROVE  UNCHANGED <<tasks, drain, runs>> /\ (used' = used \/ Happens("delete"))
      BY <3>4, Zenon DEF DropProjectJobs, DeleteProject
    <3> QED BY <3>1, <3>2, <3>3, <3>4 DEF ApiStep
  <2>2. used'["term"] = used["term"] /\ used["term"] \in Nat
    BY <2>1, HappensTerm DEF Inv, TypeOK, Rare
  <2> QED BY <2>1, <2>2
<1>2. \A v \in Workers : LeavesNoMore(drain[v], drain'[v])
  BY <1>1 DEF LeavesNoMore
<1>q. ASSUME NEW X, \A j \in Jobs : j \in X => Covers(j)',
             \A j \in Jobs : j \in X \/
               /\ rows[j].state = "new" <=> rows'[j].state = "new"
               /\ asked'[j] = asked[j]
               /\ InHand(rows'[j]) <= InHand(rows[j])
      PROVE  RunsInv'
  BY <1>1, <1>2, <1>q, QuietStep
<1>k. ASSUME UNCHANGED asked, \A j \in Jobs : InHand(rows'[j]) <= InHand(rows[j])
      PROVE  RunsInv'
  <2> DEFINE X == {}
  <2>1. /\ \A j \in Jobs : j \in X => Covers(j)'
        /\ \A j \in Jobs : j \in X \/
             /\ rows[j].state = "new" <=> rows'[j].state = "new"
             /\ asked'[j] = asked[j]
             /\ InHand(rows'[j]) <= InHand(rows[j])
    BY <1>k, RowsStayInserted
  <2> HIDE DEF X
  <2> QED BY <1>q, <2>1
<1>3. ASSUME NEW j \in Jobs, NEW p \in Projects, NEW k \in Kinds,
             NEW d \in Digests \cup {"none"}, Enqueue(j, p, k, d)
      PROVE  RunsInv'
  <2>1. \A i \in Jobs : i # j => rows'[i] = rows[i] /\ asked'[i] = asked[i]
    BY <1>0, <1>3 DEF Enqueue, TypeOK
  <2>2. Covers(j)'
    BY <1>3, EnqueueCovers
  <2> DEFINE X == {j}
  <2>3. /\ \A i \in Jobs : i \in X => Covers(i)'
        /\ \A i \in Jobs : i \in X \/
             /\ rows[i].state = "new" <=> rows'[i].state = "new"
             /\ asked'[i] = asked[i]
             /\ InHand(rows'[i]) <= InHand(rows[i])
    BY <1>0, <2>1, <2>2
  <2> HIDE DEF X
  <2> QED BY <1>q, <2>3
<1>4. ASSUME NEW c \in Clients, NEW j \in Jobs, CancelRead(c, j) \/ RetryRead(c, j)
      PROVE  RunsInv'
  <2>1. UNCHANGED <<rows, asked>>
    BY <1>4 DEF CancelRead, RetryRead
  <2> QED BY <1>0, <1>k, <2>1
<1>5. ASSUME NEW c \in Clients, CancelWrite(c)
      PROVE  RunsInv'
  <2>1. UNCHANGED asked /\ Update(api[c].job,
          IF api[c].state = "queued" THEN Settle([rows[api[c].job] EXCEPT !.cancel = TRUE], "canceled")
                                     ELSE [rows[api[c].job] EXCEPT !.cancel = TRUE])
    BY <1>5 DEF CancelWrite
  <2>2. ASSUME NEW i \in Jobs PROVE InHand(rows'[i]) <= InHand(rows[i])
    <3>1. rows[i].state = "gone" => rows'[i].state = "gone"
      BY <1>0, <2>1, UpdateKeepsGone
    <3>2. Calm(rows[i], rows'[i])
      BY <1>5, CancelIsCalm
    <3> QED BY <3>1, <3>2, CalmRowsInHand
  <2> QED BY <1>k, <2>1, <2>2
<1>6. ASSUME NEW c \in Clients, RetryWrite(c)
      PROVE  RunsInv'
  <2>1. PICK j \in Jobs : j = api[c].job
    BY <1>6 DEF RetryWrite, Inv, Structure, ApiLinks
  <2>2. CASE rows[j].state = "gone"
    <3>1. UNCHANGED <<rows, asked>>
      BY <1>6, <2>1, <2>2 DEF RetryWrite, Update
    <3> QED BY <1>0, <1>k, <3>1
  <2>3. CASE rows[j].state # "gone"
    <3>1. \A i \in Jobs : i # j => rows'[i] = rows[i] /\ asked'[i] = asked[i]
      BY <1>0, <1>6, <2>1 DEF RetryWrite, Update, TypeOK
    <3>2. Covers(j)'
      BY <1>6, <2>1, <2>3, RetryCovers
    <3> DEFINE X == {j}
    <3>3. /\ \A i \in Jobs : i \in X => Covers(i)'
          /\ \A i \in Jobs : i \in X \/
               /\ rows[i].state = "new" <=> rows'[i].state = "new"
               /\ asked'[i] = asked[i]
               /\ InHand(rows'[i]) <= InHand(rows[i])
      BY <1>0, <3>1, <3>2
    <3> HIDE DEF X
    <3> QED BY <1>q, <3>3
  <2> QED BY <2>2, <2>3
<1>7. ASSUME NEW p \in Projects, DropProjectJobs(p) \/ DeleteProject(p)
      PROVE  RunsInv'
  <2>1. UNCHANGED asked
    BY <1>7 DEF DropProjectJobs, DeleteProject
  <2>2. ASSUME NEW i \in Jobs PROVE InHand(rows'[i]) <= InHand(rows[i])
    <3>1. rows[i].state = "gone" => rows'[i].state = "gone"
      BY <1>7, GoneRow DEF DropProjectJobs, DeleteProject
    <3>2. Calm(rows[i], rows'[i])
      BY <1>7, ProjectStepIsCalm
    <3> QED BY <3>1, <3>2, CalmRowsInHand
  <2> QED BY <1>k, <2>1, <2>2
<1> QED BY <1>3, <1>4, <1>5, <1>6, <1>7 DEF ApiStep

LEMMA RunsInit == Init => RunsInv
<1> SUFFICES ASSUME Init PROVE RunsInv
  OBVIOUS
<1>1. OneHeavy /\ RequeuesEarly
  BY DEF Init, OneHeavy, Heavy, RequeuesEarly, Early, Idle
<1>2. Leaving = {}
  BY DEF Init, Leaving, Up
<1>3. Cardinality(Leaving) = 0 /\ used["term"] = 0
  BY <1>2, FS_EmptySet DEF Init, Rare
<1>4. \A j \in Jobs : Covers(j)
  BY DEF Init, Covers, Blank
<1> QED BY <1>1, <1>3, <1>4 DEF RunsInv, RunsCovered

LEMMA StepKeepsRuns == Inv /\ Inv' /\ RunsInv /\ [Next]_vars => RunsInv'
<1> SUFFICES ASSUME Inv, Inv', RunsInv, [Next]_vars PROVE RunsInv'
  OBVIOUS
<1>1. CASE UNCHANGED vars
  BY <1>1 DEF vars, RunsInv, OneHeavy, Heavy, RequeuesEarly, Early, RunsCovered, Covers,
     Returning, Of, MayReturn, Leaving
<1>2. ASSUME NEW w \in Workers, WorkerStep(w) PROVE RunsInv'
  BY <1>2, ClaimKeepsRuns, TaskStepKeepsRuns, ShutdownStepKeepsRuns DEF WorkerStep
<1> QED BY <1>1, <1>2, ApiStepKeepsRuns, ClockKeepsRuns DEF Next

\* A job is run at most MAX_ATTEMPTS times for every time a person asked for
\* it, and once more for every SIGTERM: whatever crashes, stalls, requeues,
\* reaps and races of an abandon with the end of a run it goes through.
THEOREM RunsAreBounded == Spec => []RunsBounded
<1>1. Inv /\ RunsInv => RunsBounded
  <2> SUFFICES ASSUME Inv, RunsInv, NEW j \in Jobs
               PROVE  runs[j] <= MAX_ATTEMPTS * asked[j] + used["term"]
    BY DEF RunsBounded
  <2>1. PICK n \in Nat : n = MAX_ATTEMPTS * asked[j]
    <3>1. MAX_ATTEMPTS \in Nat /\ asked[j] \in Nat
      BY QueueAssumption DEF Inv, TypeOK
    <3>2. \A a, b \in Nat : a * b \in Nat
      OBVIOUS
    <3> QED BY <3>1, <3>2
  <2>2. /\ runs[j] \in Nat /\ used["term"] \in Nat /\ InHand(rows[j]) \in Nat
        /\ Cardinality(Returning(j)) \in Nat /\ Cardinality(Leaving) \in Nat
    BY InHandType, RunSetsFinite DEF Inv, TypeOK, Rare
  <2>3. Covers(j)
    BY DEF RunsInv, RunsCovered
  <2> QED BY <2>1, <2>2, <2>3 DEF Covers
<1> QED BY <1>1, RunsInit, SpecInv, StepKeepsRuns, PTL DEF Spec
=============================================================================
