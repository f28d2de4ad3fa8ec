-------------------------------- MODULE Fleet --------------------------------
(***************************************************************************)
(* The processes of a deployment: API instances that migrate the database  *)
(* before they serve (app/migrate.py), workers that wait for it before     *)
(* their first claim and then say, round by round, what they can do        *)
(* (main, _report and _sign_off of app/worker.py, app/worker_report.py),   *)
(* and what the queue page reads out of that (WorkerLiveness, read).       *)
(*                                                                         *)
(* A restarted worker has a new id, so each worker here runs once.  Code   *)
(* and schema are revision numbers; a deploy and a rollback are processes  *)
(* of different code on one database.                                      *)
(***************************************************************************)
EXTENDS Integers, FiniteSets

CONSTANTS
    Apis, Boxes,            \* API instances, workers
    CodeOf,                 \* the revision each one's code is at
    Heavy,                  \* the workers that serve the heavy lane
    Able,                   \* the workers that can separate
    STALE_SEC, FORGET_SEC,  \* in rounds of REAP_INTERVAL_SEC
    Rounds,                 \* bound on the clock, in rounds
    Upsets                  \* bound on crashes, lost rounds and lost connections

ASSUME FleetAssumption ==
    /\ CodeOf \in [Apis \cup Boxes -> Nat]
    /\ Heavy \subseteq Boxes /\ Able \subseteq Boxes
    /\ {STALE_SEC, FORGET_SEC, Rounds, Upsets} \subseteq Nat /\ STALE_SEC <= FORGET_SEC

VARIABLES
    revision,      \* what the database is migrated to
    migrating,     \* who holds the migration lock
    apis,          \* apis[a]: [pc, seen], seen being the state it read
    boxes,         \* boxes[b]: [pc, last, round], round the measure being written
    worker_heartbeats,
    worker_report, \* the single row of before the heartbeats
    now,
    upsets,
    upgraded       \* every upgrade that was run: [code, from]

fleetVars == <<revision, migrating, apis, boxes, worker_heartbeats, worker_report, now, upsets, upgraded>>

None == -1

FleetTypeOK ==
    /\ revision \in Nat /\ migrating \subseteq Apis
    /\ apis \in [Apis -> [pc : {"off", "waiting", "judging", "upgrading", "serving", "out"},
                          seen : {"unknown", "ready", "behind", "ahead"}]]
    /\ boxes \in [Boxes -> [pc : {"off", "waiting", "up", "draining", "leaving", "left", "dead"},
                            last : None .. Rounds, round : None .. Rounds]]
    /\ worker_heartbeats \in [Boxes -> None .. Rounds]
    /\ worker_report \in [at : None .. Rounds, by : Boxes \cup {"nobody"}]
    /\ now \in 0 .. Rounds /\ upsets \in 0 .. Upsets

FleetInit ==
    /\ revision \in {CodeOf[p] : p \in Apis \cup Boxes} \cup {0}
    /\ migrating = {}
    /\ apis = [a \in Apis |-> [pc |-> "off", seen |-> "unknown"]]
    /\ boxes = [b \in Boxes |-> [pc |-> "off", last |-> None, round |-> None]]
    /\ worker_heartbeats = [b \in Boxes |-> None]
    /\ worker_report = [at |-> None, by |-> "nobody"]
    /\ now = 0 /\ upsets = 0
    /\ upgraded = {}
-----------------------------------------------------------------------------
Upset == upsets < Upsets /\ upsets' = upsets + 1

schemaVars == <<revision, migrating, apis, upgraded>>
reportVars == <<boxes, worker_heartbeats, worker_report, now>>

schema_state(code) ==
    IF revision = code THEN "ready" ELSE IF revision > code THEN "ahead" ELSE "behind"

Api(a, pc) == apis' = [apis EXCEPT ![a].pc = pc]

\* upgrade_to_head: the database is reached, or the process gives up and the
\* platform starts another one.
StartApi(a) ==
    /\ apis[a].pc = "off"
    /\ apis' = [apis EXCEPT ![a].pc = "waiting", ![a].seen = schema_state(CodeOf[a])]
    /\ UNCHANGED <<revision, migrating, upsets, upgraded, reportVars>>

\* _take_lock polls pg_try_advisory_lock, for so long.
TakeLock(a) ==
    /\ apis[a].pc = "waiting"
    /\ migrating = {}
    /\ migrating' = {a}
    /\ Api(a, "judging")
    /\ UNCHANGED <<revision, upsets, upgraded, reportVars>>

GiveUpLock(a) ==
    /\ apis[a].pc = "waiting" /\ migrating # {}
    /\ Upset
    /\ Api(a, "off")
    /\ UNCHANGED <<revision, migrating, upgraded, reportVars>>

\* The state is judged as it was before the lock was waited for.
JudgedBefore(a) == apis[a].seen

Judged(a) == schema_state(CodeOf[a])

\* The state is read under the lock; only a database that is behind is upgraded.
Judge(a) ==
    /\ apis[a].pc = "judging"
    /\ apis' = [apis EXCEPT ![a] = [pc |-> IF Judged(a) = "behind" THEN "upgrading" ELSE "serving",
                                    seen |-> Judged(a)]]
    /\ migrating' = IF Judged(a) = "behind" THEN migrating ELSE migrating \ {a}
    /\ UNCHANGED <<revision, upsets, upgraded, reportVars>>

\* command.upgrade to this code's head, and the unlock.  Code that does not
\* know the database's revision cannot.
Upgrade(a) ==
    /\ apis[a].pc = "upgrading"
    /\ upgraded' = upgraded \cup {[code |-> CodeOf[a], from |-> revision]}
    /\ revision' = IF revision > CodeOf[a] THEN revision ELSE CodeOf[a]
    /\ migrating' = migrating \ {a}
    /\ Api(a, IF revision > CodeOf[a] THEN "out" ELSE "serving")
    /\ UNCHANGED <<upsets, reportVars>>

\* A crash in the middle: migrations are transactional, and the lock goes with
\* the connection.
ApiDies(a) ==
    /\ apis[a].pc \in {"waiting", "judging", "upgrading", "serving"}
    /\ Upset
    /\ migrating' = migrating \ {a}
    /\ Api(a, "off")
    /\ UNCHANGED <<revision, upgraded, reportVars>>
-----------------------------------------------------------------------------
Box(b, pc) == boxes' = [boxes EXCEPT ![b].pc = pc]

StartBox(b) ==
    /\ boxes[b].pc = "off"
    /\ Box(b, "waiting")
    /\ UNCHANGED <<schemaVars, worker_heartbeats, worker_report, now, upsets>>

\* _wait_for_schema: behind is waited out, ahead is not.
BeginsClaiming(b) ==
    /\ boxes[b].pc = "waiting"
    /\ schema_state(CodeOf[b]) # "behind"
    /\ Box(b, "up")
    /\ UNCHANGED <<schemaVars, worker_heartbeats, worker_report, now, upsets>>

\* A round begins: one at a time, and not twice in one interval.
BeginRound(b) ==
    /\ boxes[b].pc = "up"
    /\ boxes[b].round = None /\ boxes[b].last < now
    /\ boxes' = [boxes EXCEPT ![b].round = now, ![b].last = now]
    /\ UNCHANGED <<schemaVars, worker_heartbeats, worker_report, now, upsets>>

SpeaksInTheOldRowToo(b) == TRUE

SpeaksInTheOldRow(b) == b \in Heavy

\* beat: the worker's own row, and the old single one if it renders.  The
\* statement of a worker that has gone may still be on its way.
WriteRound(b) ==
    /\ boxes[b].round # None
    /\ worker_heartbeats' = [worker_heartbeats EXCEPT ![b] = boxes[b].round]
    /\ worker_report' = IF SpeaksInTheOldRow(b) THEN [at |-> boxes[b].round, by |-> b] ELSE worker_report
    /\ boxes' = [boxes EXCEPT ![b].round = None]
    /\ UNCHANGED <<schemaVars, now, upsets>>

LoseRound(b) ==
    /\ boxes[b].round # None
    /\ Upset
    /\ boxes' = [boxes EXCEPT ![b].round = None]
    /\ UNCHANGED <<schemaVars, worker_heartbeats, worker_report, now>>

\* SIGTERM ends the loop, and with it the rounds; the jobs are drained first.
TermBox(b) ==
    /\ boxes[b].pc \in {"waiting", "up"}
    /\ Box(b, "draining")
    /\ UNCHANGED <<schemaVars, worker_heartbeats, worker_report, now, upsets>>

DrainBox(b) ==
    /\ boxes[b].pc = "draining"
    /\ Box(b, "leaving")
    /\ UNCHANGED <<schemaVars, worker_heartbeats, worker_report, now, upsets>>

MayForget(b) == boxes[b].round = None

\* _sign_off: a round still writing finishes first.
SignOff(b) ==
    /\ boxes[b].pc = "leaving"
    /\ MayForget(b)
    /\ worker_heartbeats' = [worker_heartbeats EXCEPT ![b] = None]
    /\ Box(b, "left")
    /\ UNCHANGED <<schemaVars, worker_report, now, upsets>>

\* It does not within SIGN_OFF_WAIT_SEC: the row is left to age out.
SignOffLate(b) ==
    /\ boxes[b].pc = "leaving" /\ boxes[b].round # None
    /\ Upset
    /\ Box(b, "dead")
    /\ UNCHANGED <<schemaVars, worker_heartbeats, worker_report, now>>

BoxDies(b) ==
    /\ boxes[b].pc \in {"waiting", "up", "draining", "leaving"}
    /\ Upset
    /\ Box(b, "dead")
    /\ UNCHANGED <<schemaVars, worker_heartbeats, worker_report, now>>

\* purge, by the housekeeping of a worker that is up.
PurgeRows ==
    LET old == {b \in Boxes : worker_heartbeats[b] # None /\ now - worker_heartbeats[b] > FORGET_SEC}
    IN  /\ old # {} /\ \E b \in Boxes : boxes[b].pc = "up"
        /\ worker_heartbeats' = [b \in Boxes |-> IF b \in old THEN None ELSE worker_heartbeats[b]]
        /\ UNCHANGED <<schemaVars, boxes, worker_report, now, upsets>>

RoundPasses ==
    /\ now < Rounds
    /\ now' = now + 1
    /\ UNCHANGED <<schemaVars, boxes, worker_heartbeats, worker_report, upsets>>

FleetNext ==
    \/ \E a \in Apis : \/ StartApi(a) \/ TakeLock(a) \/ GiveUpLock(a)
                       \/ Judge(a) \/ Upgrade(a) \/ ApiDies(a)
    \/ \E b \in Boxes : \/ StartBox(b) \/ BeginsClaiming(b) \/ BeginRound(b) \/ WriteRound(b)
                        \/ LoseRound(b) \/ TermBox(b) \/ DrainBox(b) \/ SignOff(b)
                        \/ SignOffLate(b) \/ BoxDies(b)
    \/ PurgeRows \/ RoundPasses

FleetSpec == FleetInit /\ [][FleetNext]_fleetVars
-----------------------------------------------------------------------------
live(at) == at # None /\ now - at < STALE_SEC

alive == {b \in Boxes : live(worker_heartbeats[b])}

reported == alive # {} \/ live(worker_report.at)

\* What the export page is told of removing the source speech: the renderers
\* that are alive, or else the last word of the old row.
separation ==
    IF alive \cap Heavy # {} THEN alive \cap Heavy \subseteq Able ELSE worker_report.by \in Able
-----------------------------------------------------------------------------
\* Nobody serves a request or claims a job on a schema older than its code,
\* and no upgrade is run on a database that newer code has migrated: deploys,
\* rollbacks and restarts of several instances in whatever order.
SchemaIsMet ==
    /\ \A a \in Apis : apis[a].pc = "serving" => CodeOf[a] <= revision
    /\ \A b \in Boxes : boxes[b].pc = "up" => CodeOf[b] <= revision
    /\ \A u \in upgraded : u.from < u.code

\* A worker that left cleanly is off the list and stays off it: no round of its
\* own that was still being written brings its row back (_sign_off).
LeftIsGone == \A b \in Boxes : boxes[b].pc = "left" => worker_heartbeats[b] = None

\* The queue page says that work will be picked up only if a worker began a
\* round within STALE_SEC, whatever was lost, late or left in the old row.
ReportedIsRecent ==
    reported => \E b \in Boxes : boxes[b].last # None /\ now - boxes[b].last < STALE_SEC

\* What the page says of removing the source speech changes with what renderers
\* say, with who is alive and with nothing else: the round of a worker that
\* never renders does not flip it, whoever spoke last.
RenderersAnswer ==
    [][(\E b \in Boxes \ Heavy : WriteRound(b)) => separation' = separation]_fleetVars
=============================================================================
