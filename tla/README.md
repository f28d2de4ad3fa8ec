# A TLA+ verification of MoniReels

MoniReels turns an uploaded video into subtitled clips: it imports the video,
transcribes it, translates the transcript, asks a language model which parts to
cut, and renders them. A FastAPI process answers the browser, any number of
worker processes do the work, and the two meet only in Postgres: a `jobs` table
is the queue, a JSONB document holds the project. Media lives in R2 (S3) and is
moved by presigned URLs.

This directory holds TLA+ models of that system, the TLC runs that check them
and the proofs TLAPS checks. `PROJECT.json` maps every definition to the lines
it stands for; this file says what was modelled and why.

## 1. Inventory

| Part | State it keeps | Operations | Talks to |
| --- | --- | --- | --- |
| Job queue, `app/jobs/queue.py`, `kinds.py` | one row per job: state, attempts, dedupe key, heartbeat, cancel flag, backoff | enqueue, claim, heartbeat, finish, requeue, abandon, request_cancel, reap_stale, purge_old, drop_project_jobs; `retry_job` of the admin | Postgres |
| Worker loop, `app/worker.py` | the asyncio tasks and the lanes they fill, the shutdown flag | claim into open lanes, run a handler, record its verdict, drain, sign off, housekeeping, watchdog | queue, handlers, R2 |
| Cancel, `app/jobs/cancel.py` | the cancel flag of the job of this task | `check` before each paid request | heartbeat |
| Worker reports, `app/worker_report.py` | one heartbeat row per worker | beat, forget, purge, read | queue overview, voice guard |
| Project store, `app/store.py`, `api/projects/documents.py` | one document per project | load, save, load_settings, save_settings under a row lock; PATCH, transcript edits, hand cuts, delete | handlers |
| Stage handlers, `app/handlers/*` | a copy of the document read minutes ago | import, transcribe, translate, suggest, export | store, providers, R2 |
| Uploads, `api/projects/uploads.py`, `app/r2.py`, `frontend/src/lib/upload.ts` | pending key, multipart uploads and their parts, the stored object | create, start, sign, status, complete, abort, upload-complete, upload again, age-out | R2, queue |
| Outputs, `api/projects/exports.py`, `handlers/export.py` | output rows, stored files | render, list, delete | R2 |
| Quotas and spend, `quotas.py`, `spend.py` | counts of jobs and projects, the usage ledger | admit_job, admit_project under an advisory lock | queue |
| Metering, `metering.py` | counters of one attempt | add, flush once | ledger |
| Speech to text, `stt/chunking.py`, `stt/duudlaga_client.py` | where the audio is cut, one task per chunk, the latch of the upload format, the verdict that ends a run | cut, look up, send, retry, fall back to WAV, halve, collect | provider, ffmpeg, cache, cancel |
| Paid answers, `stt/chunk_cache.py`, `tts/voiceover.py` | answers of an unfinished run | get, put, clear | providers |
| Language models, `app/ai/*` | the client's dropped features, the lines and shorts accepted so far | ask, ask without a refused feature, ask wider, repair, apply an answer, judge, build | provider, cancel |
| Voice-over, `tts/voiceover.py`, `audio/dub_bed.py` | stored voice clips and beds, the placements of one clip | look up, buy, store, place, lay | provider, R2 |
| Render, `export/pipeline.py`, `transition/`, `subtitle/` | the clips of one export and the passes over them | bracket, cut, join in batches, re-time, finalize | ffmpeg |
| Accounts and limits, `security.py`, `routes_auth.py`, `routes_admin.py`, `ratelimit.py` | users and their token serials, recent attempts per key | sign in, change, create, close, reopen, reset; allow, prune, sweep | Postgres; one process |
| Provider keys, `provider_settings.py`, `secretbox.py` | one sealed row per key, a list of keys in the environment | seal at start-up, apply, read per job | API, workers |
| Migrations, `migrate.py` | the revision of the database, an advisory lock | judge, upgrade, wait | API, workers |
| Logging, scratch disk, web client | append-only rows, directories, presentation | plain reads and writes | everything |

What is hard here. Everything concurrent goes through Postgres at READ
COMMITTED, mostly as "SELECT, decide, UPDATE by primary key" without a lock.
Workers crash, are killed by deploys, and stall without dying. A heartbeat
older than 300 s is the only evidence of death, and it can be wrong. Some kinds
of job (transcribe, translate, suggest) cost money per attempt and must not be
retried by the system. Handlers work for minutes on a document that people
edit meanwhile. Media is deleted and uploaded outside any transaction.

Properties that make the parts correct:

- queue: every job is settled; a settled job releases its dedupe key and a key
  is held once; a paid kind is billed once per request; a run is bounded by
  `MAX_ATTEMPTS`; a run that lost its row neither writes it nor goes on;
- store and handlers: no edit of a producer is lost, a translation belongs to
  the text beside it, a job that says "done" has its result in the document;
- uploads: what is imported is what was verified, and a project's transcript
  and its video belong together; leftovers are aborted in the end;
- speech: every moment of a recording is heard and saved once and in order, and
  an answer that was paid for is not paid for again by the next run;
- outputs: every listed file is stored, and a deleted project leaves none;
- quotas: no interleaving of requests passes a cap;
- usage: the month's bill passes its budget only by what was on its way;
- worker reports: what the page says follows from workers that were heard of
  lately, and one that left stays off it;
- migrations: nobody works on a schema older than its code;
- accounts: a token ends when its account is closed or its password changed, an
  admin is left, a limit is exact;
- language models: a line holds the answer of its own chunk, and a short that was
  paid for and judged usable is built;
- voice and render: what was bought is not bought again, lines take turns,
  captions and sound stay with the picture through cuts, batches and seams;
- provider keys: a job gets the key that was entered last, or none.

## 2. Modules

| Module | Models | Composition |
| --- | --- | --- |
| `JobQueue` | the `jobs` table, worker processes, and the API requests that change a job | implements `PaidRuns` |
| `PaidRuns` | the abstract promise about money: a run spends a grant, a request grants one | |
| `JobQueueProofs` | theorems about `JobQueue` | extends it |
| `Uploads` | the video of one project: tabs, upload routes, R2, the import job | sees the queue through a job's state and key |
| `ProjectDoc` | the document of one project: requests of the tabs and runs of handlers | |
| `ProjectDocProofs` | theorems about `ProjectDoc` | extends it |
| `Chunking` | where a recording is cut before it is sent | its chunks are the `Chunks` of `Transcription` |
| `Transcription` | the transcriptions of one project: their chunks, the provider's answers, the cache of what was paid | sees the queue through start, cancel, loss and end of a run |
| `UploadsProofs` | theorems about `Uploads` | extends it |
| `SpokenWords` | the other two ways to a transcript: detected speech, and a provider that times its words | extends `Chunking` for the recordings without speech |
| `Spending` | what one account may start and is billed: quotas, attempts, ledger | sees the queue through a job's state and attempts |
| `Outputs` | the files and rows of a project's exports, their voice clips and beds, deletion | the same |
| `Choosing` | what an export renders of ideas and lines that change meanwhile | decides what `Outputs` renders |
| `Asking` | one job that asks a language model, call by call | its folds are in `ProjectDoc` |
| `Cuts` | what becomes of one proposed short | what `Asking` calls a good, a long or a bad one |
| `VoiceTrack` | the sound of one dubbed clip | its clips are bought in `Outputs` |
| `Render` | the picture and captions of one export | |
| `Accounts`, `LoginLimit` | users, tokens and the admin's routes; the limits of one process | |
| `ProviderKeys` | a sealed key, start-ups, changes and workers | |
| `Fleet` | API instances that migrate, workers that wait and report, the page that reads it | |
| `TranscriptionProofs` | theorems about `Transcription` | extends it |
| `ServiceProofs` | theorems about who may act, what may be spent, a deployment and its keys | extends `Accounts`, `Spending`, `LoginLimit`, `Fleet` and `ProviderKeys` |
| `SpeechProofs` | theorems about where a recording is cut, and about its speech from the detector's regions to timed segments | extends `SpokenWords`, hence `Chunking` |
| `ComputationProofs` | theorems about what is computed of sequences: a dub, the plan of a job's requests, the cuts of a short, the frames and captions of an export and what it renders | extends `SpeechProofs` (for its lemmas about loops and sequences), `VoiceTrack`, `Asking`, `Cuts`, `Render` and `Choosing` |
| `PaidWorkProofs` | theorems about what is bought and what is left of it | extends `Asking` and `Outputs` |
| `MCJobQueue`, `MCUploads`, `MCProjectDoc`, `MCChunking`, `MCTranscription`, `MCBackend` | values for TLC; `MCBackend` also composes | extend the above |

An operator whose comment begins "Mutated" or "Mutant of" is a plausible bug of
a definition after it. No action uses it; put in the place of that definition,
it breaks the property named beside it in `PROJECT.json` ("mutants").

### JobQueue

A row of `rows` is a row of the table: `state`, `attempts`, `cancel`
(`cancel_requested`), `keyed` (the `dedupe_key` column still holds the key,
which is always made of kind, project and, for exports, a digest of what is
rendered), `beat` (how old `heartbeat_at` is) and `wait` (`available_at` is in
the future). `tasks[w][s]` is an asyncio task of worker `w`: which row it
claimed, the `attempts` it saw (its fencing token), where it is in `_run_job`,
and the heartbeat transaction its thread has open. `drain[w]` is the shutdown
of that worker, `api[c]` an open API transaction. `asked`, `runs` and `billed`
only observe.

- The granularity is the transaction's. `claim` and `reap_stale` select with
  `FOR UPDATE SKIP LOCKED` and are one step. `finish`, `requeue`, `abandon`,
  `request_cancel`, `retry_job` and the heartbeat select without a lock and
  update by primary key at commit: a `...Read` and a `...Write` step, between
  which anything may commit. A write sets the columns the code assigns and
  leaves the others as they are *then*, which is what the ORM's UPDATE does.
- An error inside the try body of `_run_job`, the verdict's own write included,
  is one more failure of the job; in an except branch it ends the task
  (`caught`).
- A row's claim, its reaping and the count of attempts are modelled as written:
  the reaper counts an attempt that the claim had counted already.
- *Time.* A transaction between its read and its write takes milliseconds, the
  shortest timer (a backoff) 30 s. `Quiet` says that no timer runs out on a row
  while a transaction is open on it. A heartbeat may age past
  `JOB_STALE_SEC` under a live run: that is the budgeted event "stall".
- Left out: columns that only report (progress, stage, message, error, result,
  history, `claimed_by`, timestamps), and with them the admin's filters. A
  claim that skips a locked row is the same as one that comes later. A
  restarted worker takes the name of the one before it. A slot counts as
  occupied until the database threads that name it are done.

### Uploads

`row` is the project's row (`video_key` is a column, the pending key, its size
and the imported video are in the document), `lock` the tab whose request holds
it. An object is the set of the files it is made of: one file, or two that were
stitched together. Multipart uploads keep their parts and their state in R2.
`saved` is the page's `localStorage`. Routes that lock the row talk to R2 while
they hold it, and R2 and the tabs know nothing of the lock: every call to R2 is
a step of its own. A request may die between any two of them.

- Lengths: an object has the length of its one file, parts of one file but the
  last are of one size, and all files have the same number of parts. So R2's
  list of parts cannot tell files of the same declared size apart, and the
  check against `part_plan` is as strong as in the code.
- The import job is what `JobQueue` lets others see: its state, its key, and a
  run that may go on after its row was settled (`Disown`).
- Left out: the audio and thumbnail objects an import derives, which follow the
  same key prefix; the batches in which URLs are signed.

### ProjectDoc

`doc` is the document: settings, transcript, ideas (suggestions) and hand-made
clips, and whether it is of an old schema. `work[a]` is the read-modify-write a
request or a run is at, `lock` the holder of the row. A run reads the document
without a lock, works, and then folds what it made into a copy it loads under
the lock. A translation is named by the words it renders and by who wrote it,
so two translations are equal strings exactly when both are equal. A settings
change reads and writes the settings alone, or migrates an old document whole.

- No operation relates two lines of a transcript or two ideas to each other, so
  a set of lines is a function and an ideas section is the run that made it.
- Left out: validation of a request before anything is read, the full text of a
  transcript (a join of its lines), the column `name`, and what the import
  saves (`Uploads`).

### Chunking

`compute_pause_boundaries` is a loop over the cut points, so it is a state
machine: `next` is the cut point at hand, `start` and `boundaries` are the
code's variables, and each branch of the loop is an action. `Recordings` are
pairs of a duration and its cut points, the middles of the pauses with the end
of the recording last; seconds are integers. Two cut points may be equal, as
two silences may share their middle, and the loop then skips one.

- Left out: a recording of no length, for which the function returns `[]`
  before the loop, and ffmpeg's own measurement of the silences.

### Transcription

A run is one execution of `handle_transcribe`; a task is one chunk of it. A
span is a chunk or one of its halves, a sequence of which halves were taken. A
step is what one asyncio task does between two awaits: wait for the semaphore,
cut and ask the cache, send, be answered, keep. `todo` is the recursion of
`_transcribe_span`, laid out: the spans still to be transcribed, in order.

- The provider may answer a request with any of its errors, at any time, or
  with text. It hears text in a span that is spoken when it is sent WAV; of
  compressed bytes it may say that there is no speech.
- `Cancel` is the flag of `jobs/cancel.py`, which the heartbeat sets when
  somebody canceled the job or the row is no longer this run's. `Lose` is a
  reaped row whose run goes on. `Die` is a killed process.
- `paid` and `known` only observe: the answers the project was billed for and
  did not lose to a kill or to the database, and what a run found kept when it
  began. `sent` counts the requests for the span at hand.
- Left out: the length of a backoff; the voice-activity pipeline and the whole-file provider, which are
  in `SpokenWords`; metering (`Spending`). A change of model, language or recording gives every span another
  digest and is a fresh start. A billed answer without a text the code can find
  (`Broken`) is not counted as paid: there is nothing to keep.

### Spending

`works[n]` is a job of the account as the queue shows it, `attempts[l]` what runs
in a lane with its token and its meter, `clicks[c]` the transaction a request is
in, `account` the holder of the advisory lock, `ledger` the events a request can
sum up. `billed` is what the providers billed, `lost` what no event will ever
show, `unchecked` the jobs that came to life without being counted: an admin's,
an admin's retry, a suggestion's own translation, and a click that found a live
job which ended before the insert. The unit of money is an attempt. The ledger
is written after the verdict in a transaction of its own (`Verdict`, `Flush`),
so a budget may be read between the two.

### Outputs

A key is `[of, item, ext]`; it carries the job, so the attempts of one job write
the same keys, and rows of older releases share the keys of `"old"`. A run
looks for a voice clip, buys and stores it, looks for a bed, separates, renders,
then per item puts the file, puts its subtitles, finds its row and commits it.
A stalled run goes on beside the next attempt (`ReapStalled`, `HearOf`), be that one
its own job was given or one an admin asked for: `RetryExport` is the admin's
`retry_job`, which starts the attempts of a failed or canceled job over.
`DeleteRow`, `AskUsed` and `RemoveFile` are the three steps of the route that
deletes an output. `bought`, `unsaved`, `hurried` and `twofold` observe.

### Choosing

`draft` is the suggestions with their generation, `orders[o]` an export with
what was picked, its dedupe key and the draft its page showed, `films[o]` what it
came of it: ideas that were rendered, plans that were passed over because they have
no range left (`bare`), how many chosen ones are named as skipped, how many lines
are counted as untranslated (`counted`), which lines are shown as they were said
(`fallback`) and which are left unread (`missing`). The subtitles take the lines a
range overlaps (`Shown`), the voice those whose middle lies in one (`ReadAloud`).
The project is one that is not spoken in Mongolian, the only case in which
translations are asked for.

### Asking

One job with one request at a time. `work` fixes its kind, its chunks or
portions and what its model refuses; `stage` says what is asked about, `body` the
optional features of the request, `wide` and `repair` which retry it is,
`dropped` what the client has learned. `FeatureRefused`, `TooLong` and
`Unanswered` are the client's error paths, the other actions a stage's answers.
`written[i]` is the chunk whose answer line `i` holds, `heard` what was answered.
An answer is the set of lines it gave an acceptable text for, shown as context
or not; a short is its merit (good, too long, bad) and its place.

### Cuts

A cut names two segments, there or not, and has a role; one action per repair
(`Snap`, `Drop`, `Narrow` and their ends), then `JudgeShort` and `Build`. Segments
have any times: they may overlap, be out of order or take no time, and the video
(`duration_sec`) may go on after the last or end before it. A proposal has at least
one cut, and its indices are integers, as the schema sent with the request asks.

### VoiceTrack, Render, SpokenWords

Each follows one loop of the code, a turn or an ffmpeg pass a step, over data
that is a picture of the result: `track[t]` is the line heard at a moment,
`shown[f]` the set of `[clip, frame]` seen at a frame, a word is the request and
position it was answered at. `unsent` are the requests of `SpokenWords` whose sound
could not be cut out: they are passed over, and the transcript is made without
them. In `Render` source times count half frames and
output positions whole ones, which is what makes rounding visible. `OnePass` is
the timeline a single pass would make, the reference definition.

### Accounts, LoginLimit

A request reads the user's row (`row`), hashes, and writes what it computed from
that (`ReadUser`, `CountAdmins`, `WriteUser`); a token is the name, the serial it
was minted with and, to observe, how often the account was revoked by then.
`crossed` and `duel` name the overlaps the routes do not exclude.

In `LoginLimit` a step is one call that holds the module's lock. `SignIn` is
`login_allowed`; the password is checked with the lock released (`checking`), and
`Turned` or `Succeeded` end it, with any attempts of others in between. `knocks` is
the history of attempts and successes the limit is compared with.

### ProviderKeys

`running[p]` is a process with the list of sealing keys it was started with and
the row it has read, `stored` the row with the key it is sealed under (0: in
plain), `rowlock` a `SELECT ... FOR UPDATE`, `given` the secret of the last
committed change and its audit entry.

### Fleet

Processes have a code revision, the database has one. An instance takes the
advisory lock, judges, upgrades and serves; a worker waits, claims, writes a
round of heartbeats with what it measured, drains and signs off. The clock counts
rounds of `REAP_INTERVAL_SEC`. `worker_report` is the single row of older
releases, which the page still reads where there are no heartbeats.

## 3. Runs

| Run | Question | Bounds |
| --- | --- | --- |
| `queue_attempts` | Is a paid kind bought once per request, is the number of runs bounded, is the token unique? | one job of a paid or a free kind, two workers, `MAX_ATTEMPTS` 3; one deploy, stall, database error and admin retry each, in any order |
| `queue_keys` | Who holds a dedupe key? | two jobs of two kinds (an export with a digest), one worker with two slots, one cancel, one project deletion |
| `queue_settles` | Does every job settle? | one free job, two workers; one crash, deploy, stall, database error |
| `queue_stops` | Does a cancel, or the loss of its row, stop a run that would never return? | one job, two workers, one deploy and one cancel |
| `queue_abandon_race` | Does a finished job keep its answer? (no) | one job, one deploy |
| `queue_retry_token` | Does the token exclude a run of an earlier life? (no) | one job, one stall, one retry |
| `upload` | Is what is imported what was declared, kept and whole? | two tabs, three files on two keys, one of them small; two further choices of a file, one failing call to R2, one dead request, one import that loses its key, one deletion |
| `upload_late` | The same when a PUT lands late (no) | two tabs, two small files |
| `document` | Is anything saved undone, or a translation put beside words it does not render? | two requests, two transcriptions, a translation, a suggestion; two settings, one line |
| `backend` | Thirteen questions, one per part: do quotas, the ledger, outputs, sessions, limits, migrations and reports, model answers, provider keys, exports, recordings, cuts, voices and renders keep what they promise? | see below |
| `chunking_fits` | Is no chunk longer than the limit? (no) | recordings of up to 9 s |
| `transcription` | Is what was paid kept and not bought again, and what is saved whole? | two runs of two chunks, one spoken and long enough to be halved, one silent and too short; two requests at a time, two attempts, one halving; one kill, lost row or database error |

Why the bounds are enough. Two workers are what a takeover needs: one that is
believed dead and one that takes its row. One job is enough for everything
about attempts and tokens, since jobs meet only in keys and lanes, which
`queue_keys` checks with two. `MAX_ATTEMPTS` is the code's own. A budget of one
for each rare event lets any two of them meet in any order, and a job's life is
finite in each of those runs, so nothing else is cut off. The deletion of a
project and its sweep, the retry of an import and a lost answer are each needed
once to reach the states they lead to. Lines and settings do not interact, so
one line and two settings show both what a save changes and what it leaves.
Symmetry is used in runs without liveness, over names nothing chooses between.
In `transcription`, chunks meet only in the semaphore, the latch, the
verdict and the cache; two of them, and two runs, show each meeting. Its
constraint `Narrow` (in `MCTranscription`) bounds the one case that multiplies
states: while a run that lost its row goes on beside another, each of the two
has one chunk on its way, unhalved and at its first try. What a run does alone,
and what the second finds in the cache after the first ended, is not
constrained.

`backend` composes the parts that share no state with one another: `part` says
which one a behaviour is of, and the others keep their first values.
Interleaving them would multiply the states and add no behaviour, for every
property speaks of one part. Its bounds, part by part:

- quotas: two clicks, two jobs, two projects, one lane, each quota 1, two
  attempts, one mishap (kill, stall, database error, retry or deletion);
- outputs: one export of one item with one voice clip and one bed, two places to
  run, two attempts, two rows of an older release on one key; three troubles (stalls,
  kills, refused calls, cancels, deletions, an admin's retries), which is what a
  retry during a removal, or beside an attempt that was reaped, takes;
- accounts: an admin, an account that may become the second admin, and the same
  name in another case; two requests at a time, four changes;
- limits: two callers behind one address, three attempts an address and two a
  name, windows of 1 and 3, a sweep after 2; five attempts and successes in four
  time units;
- fleet: two instances and two workers, of two revisions, on a new database (any
  other is one that an instance of the older revision migrated first), one worker
  that renders; two rounds, one upset. Two of a kind are what a rolling deploy
  needs, and a worker that is stale after one round is read as gone in the next;
- models: two lines in one or two chunks, one or two portions, all refusals;
- keys: two instances, one worker, two secrets, the variable unset, of one key,
  rotated, and with the old key dropped; three changes of any of these;
- exports: four lines of which one takes no time, two drafts that differ in ideas,
  places and titles, with a plan that has no range left, two exports, three changes
  of the project;
- recordings: every one of up to 12 s with every set of pauses, limit 6, floor 2,
  overlap 1: twice the limit is the shortest in which a forced cut follows a
  forced cut, a short piece follows a full chunk and the first is folded forward;
  three regions of speech or three timed words, with gaps or without;
- cuts: five segments of unequal length from edge to edge of a video, and five away
  from its edges of which one takes no time and two overlap (each of the three gaps
  is met alone), three sets of sentence ends and none,
  every two to four cuts of one, two or four segments, and three cuts of which one
  runs backwards, or before the source or past it;
- voices: three lines around a clip, said in every order of overlap, each read
  in its room, a little over it or far over it;
- renders: as many clips as two batches need, of lengths around the floor of a
  transition, with and without bumpers.

It uses symmetry over the two places where an export runs, which nothing tells apart,
and no constraint.

`CHECK_DEADLOCK FALSE` is in every configuration because all of these systems
may be at rest: every job is settled and purged, every tab is closed, every
request was made, every computation has its result.

**Fairness.** `SystemFairness` assumes only what the code's loops do: a worker
that is up polls for work, its housekeeping reaps once a minute, a heartbeat
beats every few seconds, a transaction ends, a clock passes. The row of a run
that is gone ages; nothing makes the row of a live run age. Weak fairness is
enough everywhere. `EveryJobSettles` also assumes `HandlersEnd`: subprocesses
and provider requests have timeouts. `CancelStops` and `LostRunStops` are
checked under `StubbornSpec`, which does not assume it: they must hold through
the heartbeat and the cancel hook alone.

**What the runs assume of the environment.** In `upload` no object is stored
after its key stopped being the pending one or after it was measured (`Lands`,
budget "late" 0): a presigned URL lives an hour, so this is an assumption about
the browser and not something the code ensures. `upload_late` drops it. The
properties of `Uploads` that mention an imported video hold while no import
runs without its dedupe key (`KeysKept`), see below.

## 4. What the code does that its comments deny

1. *`abandon` overwrites a finished job* (`queue_abandon_race`). It reads the
   row without a lock, sees a running attempt, and updates it at commit; a
   `finish` that commits in between is lost. A finished render is made again;
   a finished paid job is told to have failed. Because of it a deploy may add a
   run to those `MAX_ATTEMPTS` allows: that is the last term of `RunsBounded`.
2. *A retry reissues a fencing token* (`queue_retry_token`). `retry_job` sets
   `attempts` to 0, so the next claim issues token 1 again, and a stalled run of
   the first life that comes back writes the row the second one holds. This is
   why `FencedUntilRetried` speaks of jobs asked for once.
3. *A late PUT replaces what was measured* (`upload_late`). `upload_complete`
   measures the object and commits; the import downloads it later and does not
   measure it. A single PUT of another tab lands in between.
4. *The first chunk may pass the provider's limit* (`chunking_fits`). Pieces
   shorter than the floor are folded into the chunk before them only if the sum
   fits (`stt/chunking.py:147`); the first, which has none before it, is folded
   into the one after it without asking (line 159). The excess is less than
   `min_chunk_sec`: theorem `LimitKept`. `group_vad_segments_into_chunks` folds
   its first group the same way.

Seen while modelling, without a run of their own:

- The comment at `stt/duudlaga_client.py:84` reckons `MAX_ATTEMPTS` requests a
  span. A span whose compressed bytes are heard as silence is sent again as WAV
  within the same attempt, and if that meets a transient error, both are sent
  again: the type of a task (`sent`) allows twice as many.
- A run that lost its row keeps answers after the run that followed it saved the
  transcript and cleared the cache. A later, deliberate run is handed those,
  though it "must hear the audio afresh" (`handlers/transcribe.py:93`).

- A job that an admin retries has no dedupe key. A click then starts a twin
  beside it, and for an import `reupload`'s question "is an import of this
  project live?" is answered no: the source is discarded under the running
  import, and the imported video may be replaced. The same follows when the
  queue settles an import whose run goes on. `KeysKept` excludes both.
- A PUT or an assembly that lands after the sweep of a deleted project leaves
  an object nothing deletes.
- The route of transcription reads without a lock that the project has no
  transcript. A transcription that ends between that read and the enqueue lets
  a second one in, which replaces the text, hand corrections included, and is
  billed, without the confirmation the route asks for.
- A tab that translates words another tab has corrected stores a translation of
  the old words. Hand work is trusted; the route has no version to compare.
- *Accounts.* Two admins who close each other at the same time both succeed; the
  comment of `set_active` says the check "cannot fire over HTTP". Two requests
  that overlap on one account both write the serial they read plus one, so one
  revocation is lost. Both are excluded by name in the properties.
- *LoginLimit.* A sign-in that succeeds forgets also the wrong attempts on its name
  that were recorded while its password was being checked: `login_succeeded` drops
  whatever is there by then. `LimitIsExact` counts from the last success, as the
  code does. A call reads the clock just before it waits for the lock, the model
  with the lock in hand, so attempts of one moment may stand in the other order.
- *Spending.* A click that finds a live job is not counted; if the job ends
  before the insert, a job comes to life uncounted. A suggestion's translation,
  an admin's job and an admin's retry are not counted by design. What a job of a
  deleted project spends is recorded without its account.
- *Fleet.* The single row of older releases keeps the page saying that work will
  be picked up for up to `STALE_SEC` after the last worker left cleanly, and a
  worker that drains for longer than that reads as gone.
- *Outputs.* An output may be deleted while its own job is queued or at work, or its
  job be retried by an admin while the output is being removed: the attempt stores
  and lists the same key, and the removal that comes after takes the file of a row
  that is listed (`ListedIsStored` excepts those keys, `hurried`). A job that is
  queued again while an attempt of it has only stalled, by the reaper or by an
  admin, may buy a voice clip once more for each such attempt (`twofold`).
  A file that is stored after its project was deleted stays; so does
  one whose run died between storing and listing it and never comes back. Two
  attempts at once may list one video twice (`handlers/export.py:184` looks and
  then inserts).
- *Render.* A clip under a tenth of a second breaks the rule that a transition
  takes less than half of either side (`Joinable`). When burning subtitles fails
  the `.srt` stays on the scratch disk.
- *Suggestions.* A usable short beyond the number asked for is cut off the list;
  a short of six cuts passes `validate_shorts` and is dropped by `_build_short`; so
  is one with a cut that takes no time, which the judge measures by its padding and
  `_resolve_cut` refuses; and padding is counted before it is clamped at the edge of
  the video (these three are named in `AUsableShortIsBuilt`). Good shorts of a first answer are lost when
  the repair answer is worse. One malformed portion of candidates fails the job,
  although the comment says "rather than let one bad chunk kill the whole job".
  `_shrink_short_to_fit` may drop below `MIN_SHORT_DURATION`, and snapping may
  make disjoint cuts overlap.
- *Punctuation* is "never fatal", but its `apply` stands outside the `try`.
- *SpokenWords.* With a voice detector installed and the whole-file provider
  selected, the path calls `max_audio_sec` and `transcribe_chunk_text`, which that
  client does not have. Widening the last tiny segment of a request may overlap
  the first of the next, by less than `MIN_SEGMENT_SEC`, although the docstring
  says "nothing overlaps". A chunk whose sound cannot be cut out is passed over
  (`stt/pipeline.py:195`): the run ends as one that is done, and nothing but a
  line in the log says that the speech in it was never sent.
- *ProviderKeys.* Rotation is documented as one without downtime
  (`secretbox.py:24`, `DEPLOY.md:249`): a worker that still has the old list is
  refused as soon as an instance with the new one has sealed the row again, and an
  old instance may apply a change under the old key after that, so dropping the
  old key then makes the row unreadable. No job is ever given a wrong key.
- *Choosing.* An export whose own lines are all translated may still report lines
  that "went out in the source language": `subtitle_fallback_lines` counts every
  untranslated line of the transcript (`languages.py:213`,
  `handlers/export.py:211`). A selection of shorts alone renders every YouTube
  plan. A plan with the place and title of another one cannot be told from it. A
  chosen plan that has no range left after clamping is passed over
  (`export/pipeline.py:803`) and named nowhere but in the log, so the rendered and the
  skipped need not add up to the chosen. `lines_used` says that the voice reads a
  subset of the lines it returns (`languages.py:94`). Not so for a line that takes no
  time, which `models.py:108` leaves as it is where it has no room: its middle is in a
  range that begins with it, so `lines_in` has it (`tts/voiceover.py:73`), but it
  overlaps no range, so `lines_used` has not. The export is let through and the line
  goes unread; `OverTime` excepts it, where it is read, in `HolesComeFromChanges`.
- `purge_trash` looks under the configured work directory, not under the
  fallback one that `utils/paths.py` may have chosen.

## 5. Proofs

TLAPS checks these for every value of the constants that the named assumptions
allow. An invariant is strengthened until it is
inductive; what was added, and why, is said with each.

`JobQueueProofs` (assumes finite sets of jobs, workers and slots):

- `TypeCorrect`: `[]TypeOK`. The invariant is `TypeOK /\ Structure`: a task, an
  abandon and a request name an inserted row, a task knows its row's kind, and
  the slots of a drain are occupied. Without it the type of a row after an
  update cannot be told.
- `KeysAreHeldByLiveJobs`: `[]KeyHeldByLiveJob`. One lemma says of a single row
  that an update never gives a key to a settled row nor creates a key; only
  `Enqueue` creates one, and it looks first.
- `PaidOncePerRequest`: `[]BilledOncePerRequest`. Not inductive by itself. The
  strengthening is `GrantsCover`: what was billed, plus the runs that may still
  buy, plus the run a queued row of a paid kind stands for, is at most what was
  asked. A claim moves a unit from the third term to the second, a purchase
  from the second to the first, and nothing but a request adds one: here the
  proof needs that neither the reaper, nor a failure, nor an abandon hands a
  paid kind back.
- `QueueImplementsPaidRuns`: `Spec => PaidRuns!Spec` under `granted <- asked`,
  `spent <- billed`; every step is a grant, a spend or a stutter.
- `AttemptIsAFence`: `[]FencedUntilRetried`. Two facts about single steps carry
  it: a task goes on with the attempt it was started for or frees its slot
  (`Moves`), and the attempts of a row never go down while it is there
  (`Forward`). Only a claim starts a task, with an attempt above all earlier ones,
  and only a row that is queued is claimed; only the admin's retry starts over,
  and it raises `asked`.
- `RunsAreBounded`: `[]RunsBounded`. The strengthening `RunsInv` is a balance: the
  runs a job has had, the attempts its row has before it (`InHand`), the tasks that
  may hand it back (`Returning`) and the shutdowns that may (`Leaving`) are at most
  `MAX_ATTEMPTS` for each request and one for each shutdown so far. Every step
  moves a unit from one term to another. It needs that a verdict gives another
  attempt only below `MAX_ATTEMPTS` (`RequeuesEarly`), and that of the kinds an
  abandon may hand back a worker runs one at a time (`OneHeavy`): otherwise one
  shutdown could hand back the same job twice. TLC checked it first, on 13 million
  states of two instances of `JobQueue`.

`ProjectDocProofs` (assumes only that requests and runs are different things):

- The invariant is `CopyIsCurrent`: who is about to save holds the lock, and the
  copy it changes is the document as it is. With it, `NothingIsUndone` proves
  the action property `NothingUndone` from what each fold leaves alone.
- `MachineTranslationsFit` proves `[]TranslationsFit`: an edit clears or
  replaces what it makes wrong, and a fold touches only a line equal to the one
  it read.
- `HandWorkIsKept` needs `AnsweredWasBlank`: without force, what is answered had
  no translation when it was read.
- `DocTypeCorrect`.

`SpeechProofs` (assumes `ChunkingAssumption`: natural numbers, an overlap
below the limit, and cut points inside the recording whose last is its end; and
`SpokenAssumption`: times are natural, a detector's regions are not empty and
follow one another, the times a provider gives do not go back from one word to a
later one, and the floor of a chunk is no higher than its limit).

Its first lemmas make an induction over a loop possible where a definition is a
loop over a sequence, written as a recursive function: `Least` (a set of naturals
has a least element, from the library's `NatLessThanWellFounded`),
`EveryPosition` (a set of positions that holds 0 and with each the next holds
them all), `LoopExists` (a loop has a value at every position, so the function
defined by recursion is that loop), and for each loop a lemma that one turn of it
keeps what is claimed. `ComputationProofs` uses them too.

Of `Chunking`:

- The invariant `IInv` describes the loop between two cut points: the chunks so
  far are joined as `NothingIsSkipped` asks (`JoinedUp`), the next one begins
  where the last ends or an overlap before it (`AtStart`, `Begun`), every chunk
  is within the limit (`Sized`) and a short one stands beside a full one
  (`PackedFull`), and a loop that is over has passed the end (`Ended`). Folding a
  piece back extends the last chunk only, and the first chunk is folded forward
  only on return, which is why the last two properties differ for it.
- `EverythingIsHeard` proves `[]NothingIsSkipped`, `LimitKept`
  `[]OnlyTheFirstIsTooLong`, `ShortPiecesFold` `[]ShortOnlyWhenFull`;
  `ChunkingTypeCorrect` the types.
- `LoopEnds` proves `EveryTurnAdvances`: what is left to cut falls with every turn
  and stays natural, because a forced cut advances by more than it steps back.
  That the loop ends for every input needs no fairness beyond its own turns.

Of `SpokenWords`, for any recording, any limits, and any number of regions and
words:

- `TheSpeechIsHeld` proves `[]TranscriptHoldsTheSpeech`, `SpokenTypeCorrect` the
  types, from one invariant, `SpokenInv`. TLC checked it first, as an invariant of
  a smaller instance. What it says of the speech is that every second of it was sent
  and answered but for the seconds in a request that could not be cut out;
  `RequestsMade` adds that those are requests whose turn has come.
- `SpeechGrouped`, of the requests: every second of every region is in one
  (`HeardIn`), and they are in turn (`InRequests`): a region begins no earlier than
  an overlap before the one in front of it ends. Regions are cut into pieces,
  packed, folded and joined; `PiecesOf` and `AllPiecesOf` say that of the pieces
  (the rounding up in `Pieces` is `Division`), `JoinedSound`, `AllJoinedSound` and
  `GroupsSound` that joining two groups keeps it, by induction over the groups.
- What one answer becomes is `Tells`: its words once and in order, in segments
  that are not empty, do not overlap and lie in the regions asked about.
  `SentencesTell` shows it of a text split by sentence, `AnswersTell` of words
  shared over regions: by induction, what is given out after a region is a prefix
  of the words and never more than there are (`UpToIs`), whatever a share was
  rounded to, and the last region takes the rest, so nothing is dropped. Widening
  keeps words and order (`WidenedSays`, `WidenedApart`).
- `ChunksTold`, of the loop over requests: each segment was answered by a request
  already made and ends by the end of its region or a widening later
  (`AnsweredBy`). Since the requests are in turn, that is what keeps the segments
  of two answers apart by all but an overlap and a widening (`AnswersNear`).
- `WordsTold`, of the loop over timed words: the segments and the open one hold
  what was read so far, each of one speaker (`OneVoice`), and no word still to be
  read begins before what is collected ends (the last conjunct and `MayBegin`).
  The assumption about the provider's times is needed here and nowhere else: the
  code neither checks nor sorts them.
- `NothingYet` and `ToldWhenDone` carry it to the first step and past the last.

`ComputationProofs` (assumes `VoiceAssumption`: a scene begins before it ends, and
so do its lines; `AskingAssumption`: natural numbers; `CutAssumption`: there is a
segment, times are natural, a proposal has a cut, its indices are any integers;
`RenderAssumption`:
an export has a cut, a cut begins before it ends, a segment has finitely many
words, a batch holds two clips or more; and `ChoiceAssumption`: finitely many
lines, and no range that is suggested or laid out ends before it begins, to which
`select_ranges` and the schema of the suggestions see). Of `VoiceTrack`, `Asking`
and `Cuts`, whose loops over a sequence are `lines_in`, `plan_chunks` and `Total`, and below `Sum`, `splits`, `disjoint` and `Kept`:

- `DubStaysInTime` proves `[]DubIsInTime`. `LinesAreShown`, by induction: a clip
  says only lines whose middle lies in it. `DubInv` adds where the last line left
  off (`FreeFrom`: after a line that was not hurried to the utmost, no later than a
  breath after the next is due), that the lines follow each other (`InOrder`), and
  that what is laid stays heard, because later lines are laid behind it.
  `VoiceTypeCorrect` is the types.
- `LinesKeepTheirAnswer` proves `[]SettledByItsOwn`. `PlanIsApart`, by induction
  over the lines: no line is in two chunks of the plan, for each is beyond all
  those placed before it. `AskInv` adds that no answer to the chunk under way or
  to a later one has come back (`ChunkInTurn`).
- `NoOtherGap` proves `[]AUsableShortIsBuilt`, `StoryIsKept` `[]RepairKeepsTheStory`
  and `CutsStaySpans` the types. Nothing is asked of the segments but times
  (`SegmentsTimed`), so a span may be empty or negative, and that a shortest and a
  widest cut exist rests on their being finitely many (`ChosenIsOne`). `CutInv` says of
  the cuts, and of those a repair in vain goes back to, that they tell what was
  proposed (`Story`) and, once snapped, name segments that are there; that what
  narrowing has changed is long enough; and that what the builder gets is `Usable`. A
  cut that takes time and has room for its padding is built as long as the judge
  measured it (`PaddingIsPlayed`), so only the three gaps that are named are left.

Of `Render`, for any number of clips, lengths and transition:

- `BatchesJoinSeamlessly` proves `[]BatchesAreSeamless`. `TransitionFits`: a
  transition is no longer than the shortest clip that can be joined, so clips begin
  in their order (`BeginsInOrder`). `PlanIsSeamless`: the splits, by induction, are
  inner clips with room for a transition in either half (`SplitsAreClear`), hence
  the batches begin with the output, each ends where the next begins, and no clip
  of another batch is seen between (`Alone`). `BatchOfOnePass`: such a batch shows
  what a single pass shows in its place. `RInv` then says that the batches left are
  the last ones of the plan and the file ends where the first of them begins.
- `CaptionsStayInSync` proves `[]CaptionsInSync`. `CaptionOfClip`: a subtitle lies
  within its clip's range, for the words kept have a first start and, being
  finitely many, a last end (`Greatest`); a clip is cut at most half a frame short
  of its range (`ClipFrames`), so each whole frame the subtitle covers is the clip's.
- `RenderTypeCorrect`.

Of `Choosing`, for any suggestions, timelines, lines and orders:

- `ExportsAreAsAsked` proves `[]ExportIsAsAsked`. `DisjointIs`: the merged stretches
  are apart, in order, and hold every range (`Merged`, one turn of the merging
  keeps it: `ExtendedMerges`), so looking a line up in the first that ends after
  it begins misses none that is shown (`LinesLookedUp`). `IdeasPicked`: what a
  selection gives are suggestions of now with an id, or a place and title, that was
  chosen. `ChoiceInv` says of an export that waits that suggestions with the number
  it saw are those it saw, so a short of that id is the one on the page, and that
  where nothing has moved its selection is still without a hole (`StillMeant`).
- `ChoiceTypeCorrect`.

`UploadsProofs` (assumes that names of files, keys, uploads and tabs are told
from "none", and natural bounds):

- `ObjectsAreOfOneFile` proves `[]NeverStitched`. Added: `OneSource`, that an upload
  of R2 is of one file, counting the parts it has, the tabs at work on it and the
  tab that may resume it from `localStorage`, and that one not yet opened has none;
  `Complete`, that what is about to be assembled has every part, which the check
  of R2's list establishes a step earlier; `Chosen`, that a tab at work has a
  file. Steps that only move a tab or only change R2's state are two lemmas.
- `DeclaredIsImported` and `SourceStaysStored` prove `[](NothingLate => P)` for
  `ImportedAsDeclared` and `SourceIsStored`, and `VideoStays` proves
  `VideoIsKept` of behaviours with `[]NothingLate`. `NothingLate` says that no
  object has landed on a key the project no longer waits for; without it the three
  are false (section 4, run `late`), and with it they hold whatever tabs, imports,
  retries and failures of R2 do. The properties themselves speak of imports that
  kept their dedupe key. `SourceInv` adds what a request may rely on: who talks to
  R2 under the row's lock holds it (`LockKept`), and what it decided there still
  holds when it acts (`Decides`); a live import reads the key the row names and
  keeps its key (`Follows`); and an object that is read or was imported stays
  what it was (`Needed`).
- `UploadsTypeCorrect`.

`TranscriptionProofs` (assumes `TranscriptionAssumption`, and
`SameBytesSameSpeech`: spans with one digest are the same sound, so both hold
speech or neither):

- `Inv` says of every task that what it has transcribed and what it has still to
  do are its chunk, without a gap and in order (`Held`, `InOrder`), that nothing
  with speech was answered by a silence (`Heard`), and how many requests it has
  sent; of every run that it saves when all its chunks are done (`RunLinks`); of
  the cache that an answer says what its span holds and that what a run found is
  still there. Spans are a chunk and its halves as a sequence of 0 and 1; the
  lemmas about halving are proved once and cited.
- `TranscriptionIsWhole` proves `[]TranscriptIsWhole`, for any depth of halving,
  `TranscriptionNeverBuysTwice` `[]KeptIsNotBoughtAgain`,
  `TranscriptionKeepsWhatItPaidFor` `[]PaidAnswersAreKept`,
  `TranscriptionStopsAtTheGate` the action property `StopsAtTheGate` and
  `TranscriptionTypeCorrect` the types.

`ServiceProofs`. Of the fleet (assumes `FleetAssumption`: revisions, bounds, `STALE_SEC` at most
`FORGET_SEC`):

- `SchemaMet` proves `[]SchemaIsMet`. Added: one instance migrates at a time, and
  what an instance judged under the lock is still so when it upgrades.
- `GoneIsGone`, `RecentReports` and `RendererWords` prove that a worker that left
  stays off the list, that only a recent round makes the page promise work, and
  the action property `RenderersAnswer`. Added: a row is of a round its worker
  began, and one that left writes none. `FleetTypeCorrect` the types.

Of the keys (assumes `KeysAssumption`), `EnteredKeyIsUsed` proves
`[]JobsUseTheKeyEntered`. Added: what is stored is what was given, and who is
about to seal holds the row and has read what is stored; dropping the lock is the
mutant that breaks it. `KeysTypeCorrect` the types.

Of accounts and what they spend (assumes `AccountsAssumption`: founders are names, two of them are
not one name, one of them is an admin; and `SpendingAssumption`: quotas and
attempts are positive, jobs, projects and lanes are finitely many, no request has
the number that stands for "nobody holds the lock", no project has the name that
stands for "no project"):

- `NamesAreUnique` proves `[]OnePersonOneName`, from the lock that creates
  accounts one after the other and what its holder has looked up.
- `SessionsEndInTime` proves `[]SessionsEnd`. `SessionInv`: while no two requests
  crossed on an account, its serial is the count of its revocations, and whoever
  is about to write it has read it as it is.
- `AnAdminRemains` proves `[]AnAdminIsLeftUnlessTwoClose`. `AdminInv`: a request
  that counted the other admins and is about to close one still finds another
  open, unless there was a duel.
- `AccountsTypeCorrect` is the types. `BornInTime`, of the sessions and of the
  sign-ins about to issue one: none is begun at a revocation yet to come.
- `AccountKeepsItsLimits` proves `[]AccountWithinLimits`. `PlacesInv`: the account's
  lock has one holder, and the job or project it counted for still has its place.
  A job that is settled or a project that is deleted meanwhile only makes room.
- `OvershootIsBounded` proves `[]OvershootBounded`. `BudgetInv` counts what the
  ledger holds, what attempts under way have bought or may buy, and the attempts
  that live jobs have left; the sum stays within the bound, and a click that may
  still insert a job that buys has room for all of its attempts. What was billed
  and not lost is the ledger and the meters that were not flushed.
- `SpendTypeCorrect` is the types. `KeysKnown`: a row that is there, and a click
  past its count, has a key, since no row is ended or retried that is not there.

- `LimitsAreExact` proves `[]LimitIsExact` (assumes `LimitAssumption`). `LimitInv`:
  the hits of a key stand, in order and none twice, for attempts that count
  against it, and for all of those within the window (`Recorded`); pruning drops
  the rest, so their length is the number the property speaks of. A success takes
  the hits of its name and, with them, the attempts they stand for, whichever were
  recorded while its password was being checked.
  `LimitTypeCorrect` is the types.

`PaidWorkProofs` (assumes `OutputsAssumption`: exports and attempts are finitely
many, positive bounds):

- `ProbedOnce` proves `[]OneProbePerFeature`, from: a request never carries a
  feature the client has dropped, and a feature is counted as refused at most once
  before it is.
- `ListedOutputsAreStored` proves `[]ListedIsStored`. `FilesInv`: what an attempt
  has uploaded of the item at hand is stored until it is listed, and a key that is
  being removed is of a job that is over and of no row that is listed, or is one of
  those the property excepts.
- `VoiceIsPaidOnce` proves `[]VoiceIsBoughtOnce`. `VoiceInv`: the attempts at work
  and those that queued jobs will have are at most one for each export and one for
  each time a job was queued again beside a live attempt of it, by the reaper or by an
  admin. A settled job counts as long as it has no live attempt (`Waiting`), since an
  admin may retry it. Until a clip is stored, what was paid for it is
  in the hands of attempts; afterwards only those that had looked before may pay.
- `OutTypeCorrect` is the types. `OutBounded`: a queued job has a try left, an
  attempt goes one item beyond its last and uploads none of it, and a new row of
  outputs finds a number no row has, by counting.

No run repeats `ProbedOnce`, `NamesAreUnique`, `GoneIsGone`, `RecentReports`, the
three theorems about lengths of chunks and the type invariants of the queue, the
document and the uploads.

Only model-checked, and why:

- everything about liveness (`EveryJobSettles`, `CancelStops`, `LostRunStops`): no
  prover for fairness here;
- `BackendTypeOK`: it speaks of whichever part `MCBackend` runs. The types
  of the parts are theorems of their own (`OutTypeCorrect` and its like, under each
  module above), but for `AskTypeOK`: `Asking` makes its pool with `SelectSeq`,
  whose argument is an operator, and the provers know no definition of it.

## 6. Not modelled

- *Prompts and wording*, the texts of cards, prices per token, the choice of a
  model: data that decides nothing modelled here.
- *ffmpeg, speech separation, voice detection, synthesis*: external programs,
  modelled by what they return. Codecs, scaling, fonts and volumes are left out.
- *Brand assets, plain settings, audit rows, logs*: single-row writes no decision
  races with. *Scratch disk*: file-system I/O; `JobQueue` has its three answers.
- *Request bodies*, cookies, hashing, download routes and zip files: pure I/O.
- *The web client* beyond its upload: modelled by what it may send.
- *Composition.* The modules meet in the queue, and each sees it through a job's
  state; they are not run together. What crosses two of them is named with the
  hazards that have no property: the route of transcription that reads without a
  lock, the answer that outlives its transcript, the file that outlives its
  project, and the translation of words that were corrected.

## 7. Plan

Written, in this order: the queue and its money, uploads, the document, cutting,
transcription; then what an account may spend, outputs, accounts and limits, the
fleet, the language-model jobs, the renderer, the voice, the cuts, provider keys
and the choice of what is exported. What is left, in order of what a mistake
would cost:

1. The route of transcription together with the document and the dedupe key, and
   the answer that outlives the transcript, as runs of their own.
2. `Transcription` for an owner of the spans: that every run ends when its
   requests do.
3. `Outputs` with two exports and two items in one run: that a retry waits for
   another export of its kind is in the proofs, which hold for any number, and is
   never met with the one export of `backend`.

Theorems next: the types of `Asking`, once its pool is written without
`SelectSeq`; then what those runs check.
