---------------------------- MODULE ProviderKeys ----------------------------
(***************************************************************************)
(* A provider's key that an admin stores from the page, sealed with a key  *)
(* of the environment (app/provider_settings.py, app/secretbox.py), while  *)
(* API instances start and seal what is stored, other instances apply      *)
(* changes and workers read it for each job.  One row of the table is      *)
(* modelled: the rows are independent.                                     *)
(***************************************************************************)
EXTENDS Naturals, Sequences, SequencesExt

CONSTANTS
    Instances,      \* of the API
    Readers,        \* the workers
    Secrets,        \* what an admin may enter
    Variables,      \* values of SETTINGS_ENCRYPTION_KEY: a list of keys
    Entries         \* bound: how often something is given or configured

ASSUME KeysAssumption ==
    /\ Instances \cap Readers = {} /\ "nobody" \notin Instances
    /\ "" \notin Secrets
    /\ \A v \in Variables : v \in Seq(Nat \ {0})
    /\ Entries \in Nat

VARIABLES
    variable,       \* what a process that starts now is given
    running,        \* per process: [step, list, saw, wants]
    stored,         \* the row: [secret, under], or NoSetting
    rowlock,        \* the instance that holds the row FOR UPDATE
    given,          \* what the last committed change, and its audit row, says
    entries

keyVars == <<variable, running, stored, rowlock, given, entries>>

Nobody == "nobody"

Plain == 0

NoSetting == [secret |-> "", under |-> Plain]

Setting == [secret : Secrets, under : Nat] \cup {NoSetting}

Down == [step |-> "down", list |-> <<>>, saw |-> NoSetting, wants |-> ""]
-----------------------------------------------------------------------------
(* secretbox: the first key seals, every key opens. *)

seal(list, secret) == [secret |-> secret, under |-> IF list = <<>> THEN Plain ELSE Head(list)]

Opens(list, row) == row.under = Plain \/ row.under \in ToSet(list)

needs_reseal(list, row) == list # <<>> /\ row.under # Head(list)

\* What a job is given: the stored key, the environment's where no row is, or
\* a reason to stop.
effective(p) ==
    IF stored = NoSetting THEN "environment"
    ELSE IF Opens(running[p].list, stored) THEN stored.secret ELSE "refused"
-----------------------------------------------------------------------------
\* The operator changes the variable; processes read it when they start.
Configure(list) ==
    /\ entries < Entries /\ list # variable
    /\ variable' = list /\ entries' = entries + 1
    /\ UNCHANGED <<running, stored, rowlock, given>>

Starts(p) ==
    /\ running[p].step = "down"
    /\ running' = [running EXCEPT ![p] =
                     [Down EXCEPT !.list = variable,
                                  !.step = IF p \in Instances /\ variable # <<>>
                                           THEN "starting" ELSE "serving"]]
    /\ UNCHANGED <<variable, stored, rowlock, given, entries>>

\* A mutant of LockStored: the rows are read without being locked.
LockStoredNot(p) ==
    /\ running[p].step = "starting"
    /\ rowlock = Nobody
    /\ running' = [running EXCEPT ![p].step = "sealing", ![p].saw = stored]
    /\ UNCHANGED <<variable, stored, rowlock, given, entries>>

\* seal_stored reads the rows it will write and keeps them locked.
LockStored(p) ==
    /\ running[p].step = "starting"
    /\ rowlock = Nobody
    /\ rowlock' = IF stored = NoSetting THEN Nobody ELSE p
    /\ running' = [running EXCEPT ![p].step = "sealing", ![p].saw = stored]
    /\ UNCHANGED <<variable, stored, given, entries>>

\* A row none of the keys opens is left as it is.
SealStored(p) ==
    LET list == running[p].list
        saw == running[p].saw
    IN /\ running[p].step = "sealing"
       /\ stored' = IF saw # NoSetting /\ needs_reseal(list, saw) /\ Opens(list, saw)
                    THEN seal(list, saw.secret) ELSE stored
       /\ rowlock' = IF rowlock = p THEN Nobody ELSE rowlock
       /\ running' = [running EXCEPT ![p].step = "serving", ![p].saw = NoSetting]
       /\ UNCHANGED <<variable, given, entries>>

\* apply reads the row, with no lock, and decides by it; "" goes back to the
\* environment.
ReadSetting(p, secret) ==
    /\ p \in Instances /\ running[p].step = "serving" /\ entries < Entries
    /\ running' = [running EXCEPT ![p].step = "applying", ![p].saw = stored,
                                  ![p].wants = secret]
    /\ entries' = entries + 1
    /\ UNCHANGED <<variable, stored, rowlock, given>>

same(p) ==
    /\ Opens(running[p].list, running[p].saw)
    /\ running[p].saw.secret = running[p].wants

Applied(p) ==
    running' = [running EXCEPT ![p].step = "serving", ![p].saw = NoSetting, ![p].wants = ""]

\* An insert meets another's row, an update no row at all: nothing is written.
WriteSetting(p) ==
    /\ running[p].step = "applying" /\ ~same(p)
    /\ rowlock = Nobody
    /\ IF running[p].wants # "" /\ (running[p].saw = NoSetting) # (stored = NoSetting)
       THEN UNCHANGED <<stored, given>>
       ELSE /\ given' = running[p].wants
            /\ stored' = IF running[p].wants = "" THEN NoSetting
                         ELSE seal(running[p].list, running[p].wants)
    /\ Applied(p)
    /\ UNCHANGED <<variable, rowlock, entries>>

\* There is nothing to change, or the wait for the row's lock ran out.
Unwritten(p) ==
    /\ running[p].step = "applying"
    /\ same(p) \/ rowlock # Nobody
    /\ Applied(p)
    /\ UNCHANGED <<variable, stored, rowlock, given, entries>>

\* A deployment or a crash; its transaction is rolled back.
Dies(p) ==
    /\ running[p].step # "down"
    /\ running' = [running EXCEPT ![p] = Down]
    /\ rowlock' = IF rowlock = p THEN Nobody ELSE rowlock
    /\ UNCHANGED <<variable, stored, given, entries>>
-----------------------------------------------------------------------------
KeysInit ==
    /\ variable \in Variables
    /\ running = [p \in Instances \cup Readers |-> Down]
    /\ stored = NoSetting /\ rowlock = Nobody /\ given = "" /\ entries = 0

KeysNext ==
    \/ \E list \in Variables : Configure(list)
    \/ \E p \in Instances \cup Readers : Starts(p) \/ Dies(p)
    \/ \E p \in Instances :
          \/ LockStored(p) \/ SealStored(p) \/ WriteSetting(p) \/ Unwritten(p)
          \/ \E secret \in Secrets \cup {""} : ReadSetting(p, secret)

KeysSpec == KeysInit /\ [][KeysNext]_keyVars
-----------------------------------------------------------------------------
\* The variables hold values of their types.
KeysTypeOK ==
    /\ variable \in Variables
    /\ running \in [Instances \cup Readers ->
                      [step : {"down", "starting", "sealing", "serving", "applying"},
                       list : Variables \cup {<<>>}, saw : Setting, wants : Secrets \cup {""}]]
    /\ stored \in Setting
    /\ rowlock \in Instances \cup {Nobody}
    /\ given \in Secrets \cup {""}
    /\ entries \in 0 .. Entries

\* Whatever instances start, seal and apply beside one another, and however the
\* variable was changed, a job is given the key the audit log's last entry is
\* about or is stopped: never an older one that a start-up sealed again, and
\* never the environment's in place of one that cannot be opened.
JobsUseTheKeyEntered ==
    \A p \in Readers :
        running[p].step = "serving" =>
            effective(p) \in {"refused", IF given = "" THEN "environment" ELSE given}
=============================================================================
